----------------------------- MODULE OrderBookSync -----------------------------
(***************************************************************************)
(* The order books a market data feed keeps in step with the venue:        *)
(* OrderBook, OrderBookSynchroniser (orderbook_sync.py) and the part of    *)
(* MarketDataFeed (net/feed.py) that connects them to the socket and to    *)
(* the one worker that fetches snapshots.                                  *)
(*                                                                         *)
(* A venue numbers the updates of a book.  The levels of a book are the    *)
(* ids of the updates they contain, a diff is the range of ids it carries, *)
(* a snapshot the last id it contains.  All handlers run on one event      *)
(* loop; the worker's awaits are the only places where others come in.     *)
(***************************************************************************)
EXTENDS Integers, Sequences, Functions

CONSTANTS
  Symbols,      \* the books, in the order in which the feed keeps them
  MaxAttempts,  \* max_resync_attempts
  MaxBuffer,    \* max_buffered_deltas
  Verdicts,     \* what _validate_not_crossed may conclude
  Horizon, MaxConnections, MaxLost,   \* bounds: updates of each book, connections, frames lost
  Hidden, None

Books == Range(Symbols)

Request == [book : Books, discard : BOOLEAN]

ASSUME SyncAssumption ==
  /\ Symbols \in Seq(Books) /\ None \notin Request
  /\ MaxAttempts \in Nat \ {0} /\ MaxBuffer \in Nat \ {0}
  /\ Verdicts \subseteq {"OK", "CROSSED"}
  /\ Horizon \in [Books -> Nat] /\ MaxConnections \in Nat /\ MaxLost \in Nat
  /\ \A b \in Books : \A n \in 0 .. Horizon[b] : Hidden # 1 .. n

VARIABLES
  now,    \* the id of the venue's last update of each book
  wire,   \* the diffs on their way to the feed
  link,   \* the connection: up or not, its number, frames lost
  book,   \* OrderBook and synchroniser of each symbol
  queue,  \* _resync_queue, filled first by start()
  worker  \* the resync worker

vars == <<now, wire, link, book, queue, worker>>

Delta == [first : Nat \ {0}, final : Nat \ {0}]

Book ==
  [phase  : {"IDLE", "BUFFERING", "LIVE", "FAILED"},
   health : {"UNINITIALISED", "OK", "CROSSED", "RESYNC_REQUIRED"},
   seq    : Nat,
   levels : SUBSET Nat,
   buffer : Seq(Delta),
   from   : 0 .. MaxConnections]   \* the connection of the last change

TypeOK ==
  /\ now \in [Books -> Nat] /\ \A b \in Books : now[b] <= Horizon[b]
  /\ wire \in [Books -> Seq(Delta)]
  /\ link \in [up : BOOLEAN, number : 0 .. MaxConnections, lost : 0 .. MaxLost]
  /\ book \in [Books -> Book]
  /\ \A b \in Books : Len(book[b].buffer) <= MaxBuffer
  /\ queue \in [started : BOOLEAN, items : Seq(Request)]
  /\ worker \in [pc : {"idle", "waiting", "woken", "fetching"},
                 job : Request \cup {None}, attempt : 0 .. MaxAttempts]
  /\ (worker.pc = "idle") <=> (worker.job = None)

NewBook == [phase |-> "IDLE", health |-> "UNINITIALISED", seq |-> 0, levels |-> {},
            buffer |-> <<>>, from |-> 0]
Idle == [pc |-> "idle", job |-> None, attempt |-> 0]

Init ==
  /\ now = [b \in Books |-> 0]
  /\ wire = [b \in Books |-> <<>>]
  /\ link = [up |-> FALSE, number |-> 0, lost |-> 0]
  /\ book = [b \in Books |-> NewBook]
  /\ queue = [started |-> FALSE, items |-> <<>>]
  /\ worker = Idle

Ids(d) == d.first .. d.final

RequestAll(discard) ==
  [i \in DOMAIN Symbols |-> [book |-> Symbols[i], discard |-> discard]]

(* _queue_resync *)
Enqueue(items) == queue' = [queue EXCEPT !.items = @ \o items]
--------------------------------------------------------------------------------
(* A book: order_book.py *)

(* _reset_for_resync *)
Reset(k) == [k EXCEPT !.levels = {}, !.health = "RESYNC_REQUIRED"]

(* _validate_sequence, for diffs that name their range only *)
Duplicate(k, d) == d.final <= k.seq

(* A mistake to be caught: one update may be missing. *)
NarrowGap(k, d) == d.first > k.seq + 2

Gap(k, d) == d.first > k.seq + 1

RefusesDeltas(k) == k.health \in {"UNINITIALISED", "RESYNC_REQUIRED"}

(* apply_delta: a diff that joins the book *)
Extended(k, d, verdict) ==
  [k EXCEPT !.levels = @ \cup Ids(d), !.seq = d.final, !.health = verdict,
            !.from = link.number]

--------------------------------------------------------------------------------
(* A synchroniser: orderbook_sync.py *)

(* A mistake to be caught: nothing makes room. *)
BufferedAll(k, d) == [k EXCEPT !.buffer = Append(@, d)]

(* _buffer_delta: the oldest diff makes room. *)
Buffered(k, d) ==
  [k EXCEPT !.buffer = Append(IF Len(@) >= MaxBuffer THEN Tail(@) ELSE @, d)]

(* The diffs a snapshot does not contain, from the first of them on. *)
Survivors(buffer, last) ==
  LET fresh == {i \in DOMAIN buffer : buffer[i].final > last} IN
  SubSeq(buffer,
         IF fresh = {} THEN Len(buffer) + 1
                       ELSE CHOOSE i \in fresh : \A j \in fresh : i <= j,
         Len(buffer))

(* Whether the i-th of the diffs joins what precedes it. *)
Joins(diffs, last, i) ==
  diffs[i].first <= (IF i = 1 THEN last ELSE diffs[i - 1].final) + 1

(* Where a replay of the diffs upon a snapshot stops: past the last of them,
   unless there is a gap. *)
Breaks(diffs, last) ==
  LET gaps == {i \in DOMAIN diffs : ~Joins(diffs, last, i)} IN
  IF gaps = {} THEN Len(diffs) + 1 ELSE CHOOSE i \in gaps : \A j \in gaps : i <= j

Replayed(k, diffs, last, verdict) ==
  [k EXCEPT !.levels = (1 .. last) \cup UNION {Ids(diffs[i]) : i \in DOMAIN diffs},
            !.seq = IF diffs = <<>> THEN last ELSE diffs[Len(diffs)].final,
            !.health = verdict, !.from = link.number]

(* _apply_snapshot_and_replay, and the phase _synchronise gives the book by its
   answer.  A gap before the first diff leaves the book as it was; a later one
   resets it, and puts the diffs from there on back. *)
Synchronised(k, last, verdict) ==
  LET diffs == Survivors(k.buffer, last)
      stop  == Breaks(diffs, last)
      done  == SubSeq(diffs, 1, stop - 1)
      after == Replayed([k EXCEPT !.buffer = SubSeq(diffs, stop, Len(diffs))],
                        done, last, verdict)
  IN IF stop > Len(diffs) THEN [after EXCEPT !.phase = "LIVE"]
     ELSE IF stop = 1     THEN [k EXCEPT !.buffer = diffs]
                          ELSE Reset(after)

(* start, restart and resync, as the worker chooses: none of them keeps what the
   book shows, restart keeps no diffs. *)
Resyncing(k, discard) ==
  [(IF k.phase = "IDLE" THEN k ELSE Reset(k)) EXCEPT
     !.phase = "BUFFERING",
     !.buffer = IF k.phase = "FAILED" \/ (discard /\ k.phase # "IDLE") THEN <<>> ELSE @]

(* on_delta *)
Fed(k, d, verdict) ==
  IF k.phase = "FAILED" THEN k
  ELSE IF k.phase # "LIVE" THEN [Buffered(k, d) EXCEPT !.phase = "BUFFERING"]
  ELSE IF RefusesDeltas(k) \/ (~Duplicate(k, d) /\ Gap(k, d))
    THEN [Reset(k) EXCEPT !.phase = "BUFFERING", !.buffer = <<d>>]
  ELSE IF Duplicate(k, d) THEN k
  ELSE Extended(k, d, verdict)

Become(b, k) == book' = [book EXCEPT ![b] = k]
--------------------------------------------------------------------------------
(* The venue and the socket *)

VenueUpdates(b) ==
  /\ \E n \in {1, 2} :
       /\ now[b] + n <= Horizon[b]
       /\ now' = [now EXCEPT ![b] = @ + n]
       /\ wire' = IF link.up
                    THEN [wire EXCEPT ![b] = Append(@, [first |-> now[b] + 1,
                                                        final |-> now[b] + n])]
                    ELSE wire
  /\ UNCHANGED <<link, book, queue, worker>>

(* _on_state_change: a worker that waits for the connection is woken. *)
Connects ==
  /\ ~link.up /\ link.number < MaxConnections
  /\ link' = [link EXCEPT !.up = TRUE, !.number = @ + 1]
  /\ worker' = IF worker.pc = "waiting" THEN [worker EXCEPT !.pc = "woken"] ELSE worker
  /\ UNCHANGED <<now, wire, book, queue>>

(* _on_state_change: every book is to be fetched anew. *)
Disconnects ==
  /\ link.up
  /\ link' = [link EXCEPT !.up = FALSE]
  /\ wire' = [b \in Books |-> <<>>]
  /\ Enqueue(RequestAll(TRUE))
  /\ UNCHANGED <<now, book, worker>>

(* _on_message: a frame that does not parse is dropped. *)
LosesFrame(b) ==
  /\ wire[b] # <<>> /\ link.lost < MaxLost
  /\ wire' = [wire EXCEPT ![b] = Tail(@)]
  /\ link' = [link EXCEPT !.lost = @ + 1]
  /\ UNCHANGED <<now, book, queue, worker>>

(* A mistake to be caught: the gap is not reported. *)
DeliversQuietly(b) ==
  /\ wire[b] # <<>>
  /\ wire' = [wire EXCEPT ![b] = Tail(@)]
  /\ \E verdict \in Verdicts : Become(b, Fed(book[b], Head(wire[b]), verdict))
  /\ UNCHANGED <<now, link, queue, worker>>

(* _dispatch: a gap found by a live book is reported to the worker. *)
Delivers(b) ==
  /\ wire[b] # <<>>
  /\ wire' = [wire EXCEPT ![b] = Tail(@)]
  /\ \E verdict \in Verdicts : Become(b, Fed(book[b], Head(wire[b]), verdict))
  /\ IF book[b].phase = "LIVE" /\ book'[b].phase = "BUFFERING"
       THEN Enqueue(<<[book |-> b, discard |-> FALSE]>>)
       ELSE UNCHANGED queue
  /\ UNCHANGED <<now, link, worker>>
--------------------------------------------------------------------------------
(* The worker *)

(* start: once connected, or tired of waiting for it, a snapshot of every book. *)
FeedStarts ==
  /\ ~queue.started
  /\ queue' = [started |-> TRUE, items |-> queue.items \o RequestAll(FALSE)]
  /\ UNCHANGED <<now, wire, link, book, worker>>

Begins(r) ==
  /\ worker' = [pc |-> "fetching", job |-> r, attempt |-> 0]
  /\ Become(r.book, Resyncing(book[r.book], r.discard))

(* _run_resync_worker *)
TakesRequest ==
  /\ worker.pc = "idle" /\ queue.items # <<>>
  /\ queue' = [queue EXCEPT !.items = Tail(@)]
  /\ IF link.up
       THEN Begins(Head(queue.items))
       ELSE /\ worker' = [Idle EXCEPT !.pc = "waiting", !.job = Head(queue.items)]
            /\ UNCHANGED book
  /\ UNCHANGED <<now, wire, link>>

Wakes ==
  /\ worker.pc = "woken"
  /\ Begins(worker.job)
  /\ UNCHANGED <<now, wire, link, queue>>

(* A mistake to be caught: the count starts anew before it is used up. *)
FetchForever == worker' = [worker EXCEPT !.attempt = (@ + 1) % MaxAttempts]

(* _synchronise: another attempt is counted, another snapshot asked for. *)
FetchAgain == worker' = [worker EXCEPT !.attempt = @ + 1]

MayFetch == worker.pc = "fetching" /\ worker.attempt < MaxAttempts

FetchFails ==
  /\ MayFetch
  /\ FetchAgain
  /\ UNCHANGED <<now, wire, link, book, queue>>

(* The snapshot may be behind the diffs delivered, or ahead of them. *)
SnapshotArrives ==
  LET b == worker.job.book IN
  /\ MayFetch
  /\ \E last \in 0 .. now[b], verdict \in Verdicts :
       Become(b, Synchronised(book[b], last, verdict))
  /\ IF book'[b].phase = "LIVE" THEN worker' = Idle ELSE FetchAgain
  /\ UNCHANGED <<now, wire, link, queue>>

GivesUp ==
  /\ worker.pc = "fetching" /\ worker.attempt = MaxAttempts
  /\ Become(worker.job.book, [book[worker.job.book] EXCEPT !.phase = "FAILED"])
  /\ worker' = Idle
  /\ UNCHANGED <<now, wire, link, queue>>

Works == TakesRequest \/ Wakes \/ FetchFails \/ SnapshotArrives \/ GivesUp

Next ==
  \/ Connects \/ Disconnects \/ FeedStarts \/ Works
  \/ \E b \in Books : VenueUpdates(b) \/ LosesFrame(b) \/ Delivers(b)

(* The event loop runs what is ready, and an attempt to fetch ends. *)
Fairness == WF_vars(FeedStarts) /\ WF_vars(Works)

Spec == Init /\ [][Next]_vars /\ Fairness
--------------------------------------------------------------------------------
(* book_top: what the feed shows of a book, age left aside *)
Shown(b) ==
  IF link.up /\ book[b].phase = "LIVE" /\ book[b].health = "OK"
    THEN book[b].levels ELSE Hidden

(* A reader of the feed sees the venue's book as it was at some update, or no
   book: never one with a hole, however snapshots, diffs, gaps and reconnections
   interleave.  As long as it is not hidden, the book only moves forward: no late
   snapshot or diff takes it back.  After a gap or a reconnection it may, since a
   snapshot of any age is taken when nothing is buffered. *)
View == INSTANCE BookView WITH view <- [b \in Books |-> Shown(b)]
ShowsTheVenue == View!Spec

(* Who will fetch the snapshot of a book: the worker has it, or a request for it
   is on its way. *)
Requested(b) ==
  \/ worker.job # None /\ worker.job.book = b
  \/ \E i \in DOMAIN queue.items : queue.items[i].book = b
  \/ ~queue.started

(* A book that waits for a snapshot is never forgotten, whatever gap, disconnection
   or failure made it wait and whoever noticed; a live one has no diff left over
   from before. *)
NoBookForgotten ==
  \A b \in Books :
    /\ book[b].phase \in {"IDLE", "BUFFERING"} => Requested(b)
    /\ book[b].phase = "LIVE" => ~RefusesDeltas(book[b]) /\ book[b].buffer = <<>>

(* While the connection lasts, a book that waits for its snapshot gets it, or is
   given up after the attempts the configuration allows. *)
Settles ==
  \A b \in Books :
    book[b].phase = "BUFFERING" ~> (book[b].phase \in {"LIVE", "FAILED"} \/ ~link.up)

(* "Waiting for the asynchronous resync to start would leave a window in which a
   strategy could read a book from a connection that no longer exists": what is
   shown was confirmed by the connection that is up. *)
ShownFromThisConnection ==
  \A b \in Books : Shown(b) # Hidden => book[b].from = link.number
================================================================================

--------------------------- MODULE SidecarMetrics ---------------------------
(***************************************************************************)
(* src/metrics.rs: the counters two background tasks write and GET         *)
(* /metrics reads, one atomic at a time, while they write.  The atomics    *)
(* are taken to be sequentially consistent.                                *)
(***************************************************************************)
EXTENDS Integers, Sequences

CONSTANT
    MaxCycles      \* bound: scrapes, and log polls, in the life modelled

ASSUME ConstantAssumption == MaxCycles \in Nat

\* The rows of render(), in their order; last_heartbeat_success_ms is reduced to
\* the number of times it was stored.  Other orders, in which each outcome is
\* read before the attempts, or that time before the successes.
OutcomesFirst ==
    <<"scrapeFails", "scrapes", "oks", "fails", "beats", "stamp",
      "readFails", "shipOks", "shipFails", "shipped">>
StampFirst ==
    <<"stamp", "scrapes", "scrapeFails", "beats", "oks", "fails",
      "readFails", "shipOks", "shipFails", "shipped">>
Rows ==
    <<"scrapes", "scrapeFails", "beats", "oks", "fails", "stamp",
      "readFails", "shipOks", "shipFails", "shipped">>

Fields == {"scrapes", "scrapeFails", "beats", "oks", "fails", "stamp",
           "readFails", "shipOks", "shipFails", "shipped"}

VARIABLES
    memory,     \* the atomics
    beat,       \* the heartbeat task, between two of its increments
    ship,       \* the log task, likewise
    row,        \* the row render() reads next; 0 when none runs
    page,       \* what it has read so far, or the last page it returned
    last        \* history: the page it returned before that

vars == <<memory, beat, ship, row, page, last>>

Zero == [f \in Fields |-> 0]

Init ==
    /\ memory = Zero
    /\ beat = "tick"
    /\ ship = "poll"
    /\ row = 0
    /\ page = Zero
    /\ last = Zero

-----------------------------------------------------------------------------
\* fetch_add: one atomic step on one counter; fetch_sub in its place.
Subtract(f, by) == memory' = [memory EXCEPT ![f] = @ - by]
Add(f, by) == memory' = [memory EXCEPT ![f] = @ + by]

\* One increment of the heartbeat task, between two awaits of its loop.
Beat(from, f, to) ==
    /\ beat = from
    /\ Add(f, 1)
    /\ beat' = to
    /\ UNCHANGED <<ship, row, page, last>>

NodeScrapeAttempt ==
    /\ memory.scrapes < MaxCycles
    /\ Beat("tick", "scrapes", "scrape")
NodeScrapeFailure == Beat("scrape", "scrapeFails", "tick")
HeartbeatAttempt == Beat("scrape", "beats", "send")
HeartbeatFailure == Beat("send", "fails", "tick")

\* heartbeat_success: first the count, then the time.
HeartbeatSuccess == Beat("send", "oks", "stamp")
StoreSuccessTime == Beat("stamp", "stamp", "tick")

\* One increment of the log task.
Ship(from, f, by, to) ==
    /\ ship = from
    /\ Add(f, by)
    /\ ship' = to
    /\ UNCHANGED <<beat, row, page, last>>

Polls == memory.readFails + memory.shipOks + memory.shipFails

\* log_ship_success: first the count, then the bytes.
LogReadFailure == Polls < MaxCycles /\ Ship("poll", "readFails", 1, "poll")
LogShipFailure == Polls < MaxCycles /\ Ship("poll", "shipFails", 1, "poll")
LogShipSuccess == Polls < MaxCycles /\ Ship("poll", "shipOks", 1, "bytes")
AddBytes == \E n \in 1 .. 2 : Ship("bytes", "shipped", n, "poll")

-----------------------------------------------------------------------------
\* GET /metrics: a new page.
RenderBegin ==
    /\ row = 0
    /\ row' = 1
    /\ page' = Zero
    /\ last' = page
    /\ UNCHANGED <<memory, beat, ship>>

\* What reading a counter does to it: nothing; a swap with 0 in its place.
Take(f) == memory' = [memory EXCEPT ![f] = 0]
Load(f) == memory' = memory

\* The next row is read.
RenderRow ==
    /\ row \in 1 .. Len(Rows)
    /\ page' = [page EXCEPT ![Rows[row]] = memory[Rows[row]]]
    /\ Load(Rows[row])
    /\ row' = IF row = Len(Rows) THEN 0 ELSE row + 1
    /\ UNCHANGED <<beat, ship, last>>

Next ==
    \/ NodeScrapeAttempt \/ NodeScrapeFailure
    \/ HeartbeatAttempt \/ HeartbeatFailure
    \/ HeartbeatSuccess \/ StoreSuccessTime
    \/ LogReadFailure \/ LogShipFailure \/ LogShipSuccess \/ AddBytes
    \/ RenderBegin \/ RenderRow

Spec == Init /\ [][Next]_vars
-----------------------------------------------------------------------------
\* A page is complete when no render runs.
Complete == row = 0

\* No page leaves an attempt it shows without an outcome, but for the one in
\* flight: outcomes are read after their attempts, so they can run ahead of them
\* but not fall behind.
AttemptsAccounted ==
    Complete => /\ page.scrapeFails + page.beats >= page.scrapes - 1
                /\ page.oks + page.fails >= page.beats - 1

\* No page counts a success, but for the one being counted, whose time was not
\* stored before the page's was read: the time is stored after the count and
\* read after it, so that a page with a success tells how long ago it was.
SuccessIsStamped == Complete => page.stamp >= page.oks - 1

\* No counter of a page is lower than on the page before it, which Prometheus
\* would take for a restart: the rows say "counter" (src/metrics.rs:99).  The time
\* of the last success, which they say it of as well, follows the wall clock.
PagesRise ==
    Complete => \A f \in Fields \ {"stamp"} : last[f] <= page[f]

\* The types; a page never shows more than was counted.
TypeOK ==
    /\ memory \in [Fields -> Nat]
    /\ beat \in {"tick", "scrape", "send", "stamp"}
    /\ ship \in {"poll", "bytes"}
    /\ row \in 0 .. Len(Rows)
    /\ page \in [Fields -> Nat]
    /\ last \in [Fields -> Nat]
    /\ \A f \in Fields : page[f] <= memory[f]
=============================================================================

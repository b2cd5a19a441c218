----------------------- MODULE SidecarMetrics_proofs -----------------------
(***************************************************************************)
(* Proofs about SidecarMetrics: the types, and what pages account for and  *)
(* how one follows another, for any number of cycles.                      *)
(***************************************************************************)
EXTENDS SidecarMetrics, TLAPS

\* What the counters say of the heartbeat task: at most one attempt of each
\* kind is open, and at most one success without its time.
MemoryInv ==
    /\ memory.scrapes = memory.scrapeFails + memory.beats
                        + (IF beat = "scrape" THEN 1 ELSE 0)
    /\ memory.beats = memory.oks + memory.fails
                        + (IF beat = "send" THEN 1 ELSE 0)
    /\ memory.oks = memory.stamp + (IF beat = "stamp" THEN 1 ELSE 0)

\* How far a page has come: until an outcome is read, memory accounts for the
\* attempts the page shows.
PageInv ==
    /\ row = 3 => page.scrapeFails + memory.beats >= page.scrapes - 1
    /\ row \notin 1 .. 3 => page.scrapeFails + page.beats >= page.scrapes - 1
    /\ row = 5 => page.oks + memory.fails >= page.beats - 1
    /\ row \notin 1 .. 5 => page.oks + page.fails >= page.beats - 1
    /\ row \in {5, 6} => memory.stamp >= page.oks - 1
    /\ row \notin 1 .. 6 => page.stamp >= page.oks - 1

\* What the page before this one showed is still in memory, and on this page
\* from the row on that reads it.
Passed(r) == row = 0 \/ r < row
LastInv ==
    /\ \A f \in Fields : last[f] <= memory[f]
    /\ \A r \in 1 .. 10 : Passed(r) => last[Rows[r]] <= page[Rows[r]]

IInv == TypeOK /\ MemoryInv /\ PageInv /\ LastInv

-----------------------------------------------------------------------------
\* The rows, one by one.
LEMMA RowsParts ==
    /\ Len(Rows) = 10
    /\ Rows[1] = "scrapes"
    /\ Rows[2] = "scrapeFails"
    /\ Rows[3] = "beats"
    /\ Rows[4] = "oks"
    /\ Rows[5] = "fails"
    /\ Rows[6] = "stamp"
    /\ \A r \in 7 .. 10 :
          Rows[r] \in {"readFails", "shipOks", "shipFails", "shipped"}
BY DEF Rows

\* Every counter has a row.
LEMMA RowsComplete ==
    /\ \A r \in 1 .. 10 : Rows[r] \in Fields
    /\ \A f \in Fields : \E r \in 1 .. 10 : Rows[r] = f
<1>1. /\ Rows[7] = "readFails" /\ Rows[8] = "shipOks"
      /\ Rows[9] = "shipFails" /\ Rows[10] = "shipped"
    BY DEF Rows
<1>2. \A r \in 1 .. 10 : r = 1 \/ r = 2 \/ r = 3 \/ r = 4 \/ r = 5 \/ r = 6 \/ r \in 7 .. 10
    OBVIOUS
<1>3. \A r \in 1 .. 10 : Rows[r] \in Fields
    BY <1>2, RowsParts DEF Fields
<1>4. \A f \in Fields : \E r \in 1 .. 10 : Rows[r] = f
    BY <1>1, RowsParts DEF Fields
<1> QED BY <1>3, <1>4

\* An increment raises one counter and leaves the others.
LEMMA AddRaises ==
    ASSUME memory \in [Fields -> Nat], NEW f \in Fields, NEW by \in Nat, Add(f, by)
    PROVE  /\ memory' \in [Fields -> Nat]
           /\ memory'[f] = memory[f] + by
           /\ \A g \in Fields \ {f} : memory'[g] = memory[g]
           /\ \A g \in Fields : memory[g] <= memory'[g]
<1>1. memory' = [memory EXCEPT ![f] = memory[f] + by]
    BY DEF Add
<1>2. memory[f] \in Nat /\ memory[f] + by \in Nat /\ memory[f] <= memory[f] + by
    OBVIOUS
<1> QED BY <1>1, <1>2

LEMMA InitInv == Init => IInv
<1> SUFFICES ASSUME Init PROVE IInv
    OBVIOUS
<1>1. TypeOK /\ MemoryInv /\ PageInv
    BY RowsParts DEF Init, TypeOK, MemoryInv, PageInv, Zero, Fields
<1>2. LastInv
    BY RowsComplete DEF Init, LastInv, Passed, Zero
<1> QED BY <1>1, <1>2 DEF IInv

-----------------------------------------------------------------------------
\* An increment of either task, while render() is where it is.
LEMMA CountStep ==
    ASSUME IInv,
           \/ NodeScrapeAttempt \/ NodeScrapeFailure
           \/ HeartbeatAttempt \/ HeartbeatFailure
           \/ HeartbeatSuccess \/ StoreSuccessTime
           \/ LogReadFailure \/ LogShipFailure \/ LogShipSuccess \/ AddBytes
    PROVE  IInv'
<1> USE DEF IInv
<1>1. PICK f \in Fields, by \in Nat : Add(f, by)
    BY DEF NodeScrapeAttempt, NodeScrapeFailure, HeartbeatAttempt, HeartbeatFailure,
           HeartbeatSuccess, StoreSuccessTime, LogReadFailure, LogShipFailure,
           LogShipSuccess, AddBytes, Beat, Ship, Fields
<1>2. UNCHANGED <<row, page, last>>
    BY DEF NodeScrapeAttempt, NodeScrapeFailure, HeartbeatAttempt, HeartbeatFailure,
           HeartbeatSuccess, StoreSuccessTime, LogReadFailure, LogShipFailure,
           LogShipSuccess, AddBytes, Beat, Ship
<1>3. /\ beat' \in {"tick", "scrape", "send", "stamp"}
      /\ ship' \in {"poll", "bytes"}
    BY DEF TypeOK, NodeScrapeAttempt, NodeScrapeFailure, HeartbeatAttempt,
           HeartbeatFailure, HeartbeatSuccess, StoreSuccessTime, LogReadFailure,
           LogShipFailure, LogShipSuccess, AddBytes, Beat, Ship
<1>4. /\ memory' \in [Fields -> Nat]
      /\ \A g \in Fields : memory[g] <= memory'[g]
    BY <1>1, AddRaises DEF TypeOK
<1>5. TypeOK'
    <2>1. \A g \in Fields : page[g] \in Nat /\ memory[g] \in Nat /\ memory'[g] \in Nat
        BY <1>4 DEF TypeOK
    <2>2. \A g \in Fields : page[g] <= memory'[g]
        BY <1>4, <2>1 DEF TypeOK
    <2> QED BY <1>2, <1>3, <1>4, <2>2 DEF TypeOK
<1>6. MemoryInv'
    <2>1. ASSUME NEW from, NEW g \in Fields, NEW to, Beat(from, g, to)
          PROVE  /\ beat = from /\ beat' = to
                 /\ memory'[g] = memory[g] + 1
                 /\ \A h \in Fields \ {g} : memory'[h] = memory[h]
        BY <2>1, AddRaises DEF Beat, TypeOK
    <2>2. ASSUME NEW from, NEW g \in Fields, NEW n \in Nat, NEW to, Ship(from, g, n, to)
          PROVE  beat' = beat /\ \A h \in Fields \ {g} : memory'[h] = memory[h]
        BY <2>2, AddRaises DEF Ship, TypeOK
    <2>3. \A g \in Fields : memory[g] \in Nat
        BY DEF TypeOK
    <2>4. CASE NodeScrapeAttempt
        <3>1. Beat("tick", "scrapes", "scrape")
            BY <2>4 DEF NodeScrapeAttempt
        <3>2. /\ beat = "tick" /\ beat' = "scrape"
              /\ memory'["scrapes"] = memory["scrapes"] + 1
              /\ \A h \in Fields \ {"scrapes"} : memory'[h] = memory[h]
            BY <2>1, <3>1 DEF Fields
        <3> QED BY <2>3, <3>2 DEF MemoryInv, Fields
    <2>5. CASE NodeScrapeFailure
        <3>1. Beat("scrape", "scrapeFails", "tick")
            BY <2>5 DEF NodeScrapeFailure
        <3>2. /\ beat = "scrape" /\ beat' = "tick"
              /\ memory'["scrapeFails"] = memory["scrapeFails"] + 1
              /\ \A h \in Fields \ {"scrapeFails"} : memory'[h] = memory[h]
            BY <2>1, <3>1 DEF Fields
        <3> QED BY <2>3, <3>2 DEF MemoryInv, Fields
    <2>6. CASE HeartbeatAttempt
        <3>1. Beat("scrape", "beats", "send")
            BY <2>6 DEF HeartbeatAttempt
        <3>2. /\ beat = "scrape" /\ beat' = "send"
              /\ memory'["beats"] = memory["beats"] + 1
              /\ \A h \in Fields \ {"beats"} : memory'[h] = memory[h]
            BY <2>1, <3>1 DEF Fields
        <3> QED BY <2>3, <3>2 DEF MemoryInv, Fields
    <2>7. CASE HeartbeatFailure
        <3>1. Beat("send", "fails", "tick")
            BY <2>7 DEF HeartbeatFailure
        <3>2. /\ beat = "send" /\ beat' = "tick"
              /\ memory'["fails"] = memory["fails"] + 1
              /\ \A h \in Fields \ {"fails"} : memory'[h] = memory[h]
            BY <2>1, <3>1 DEF Fields
        <3> QED BY <2>3, <3>2 DEF MemoryInv, Fields
    <2>8. CASE HeartbeatSuccess
        <3>1. Beat("send", "oks", "stamp")
            BY <2>8 DEF HeartbeatSuccess
        <3>2. /\ beat = "send" /\ beat' = "stamp"
              /\ memory'["oks"] = memory["oks"] + 1
              /\ \A h \in Fields \ {"oks"} : memory'[h] = memory[h]
            BY <2>1, <3>1 DEF Fields
        <3> QED BY <2>3, <3>2 DEF MemoryInv, Fields
    <2>9. CASE StoreSuccessTime
        <3>1. Beat("stamp", "stamp", "tick")
            BY <2>9 DEF StoreSuccessTime
        <3>2. /\ beat = "stamp" /\ beat' = "tick"
              /\ memory'["stamp"] = memory["stamp"] + 1
              /\ \A h \in Fields \ {"stamp"} : memory'[h] = memory[h]
            BY <2>1, <3>1 DEF Fields
        <3> QED BY <2>3, <3>2 DEF MemoryInv, Fields
    <2>10. CASE LogReadFailure \/ LogShipFailure \/ LogShipSuccess \/ AddBytes
        <3>1. PICK from \in {"poll", "bytes"}, n \in Nat, to \in {"poll", "bytes"},
                   g \in {"readFails", "shipFails", "shipOks", "shipped"} :
                   Ship(from, g, n, to)
            BY <2>10 DEF LogReadFailure, LogShipFailure, LogShipSuccess, AddBytes
        <3>2. beat' = beat
            BY <2>2, <3>1 DEF Fields
        <3>3. \A h \in {"scrapes", "scrapeFails", "beats", "oks", "fails", "stamp"} :
                  memory'[h] = memory[h]
            BY <2>2, <3>1 DEF Fields
        <3>4. /\ memory'.scrapes = memory.scrapes
              /\ memory'.scrapeFails = memory.scrapeFails
              /\ memory'.beats = memory.beats
              /\ memory'.oks = memory.oks
              /\ memory'.fails = memory.fails
              /\ memory'.stamp = memory.stamp
            BY <3>3
        <3> QED BY <3>2, <3>4 DEF MemoryInv
    <2> QED BY <2>4, <2>5, <2>6, <2>7, <2>8, <2>9, <2>10
<1>7. PageInv'
    <2>1. /\ memory.beats <= memory'.beats /\ memory.fails <= memory'.fails
          /\ memory.beats \in Nat /\ memory'.beats \in Nat
          /\ memory.fails \in Nat /\ memory'.fails \in Nat
          /\ page.scrapes \in Nat /\ page.scrapeFails \in Nat
          /\ page.beats \in Nat /\ page.oks \in Nat
          /\ memory.stamp <= memory'.stamp
          /\ memory.stamp \in Nat /\ memory'.stamp \in Nat
        BY <1>4 DEF TypeOK, Fields
    <2> QED BY <1>2, <2>1 DEF PageInv
<1>8. LastInv'
    <2>1. \A g \in Fields : last[g] \in Nat /\ memory[g] \in Nat /\ memory'[g] \in Nat
        BY <1>4 DEF TypeOK
    <2>2. \A g \in Fields : last[g] <= memory'[g]
        BY <1>4, <2>1 DEF LastInv
    <2> QED BY <1>2, <2>2 DEF LastInv, Passed
<1> QED BY <1>5, <1>6, <1>7, <1>8

-----------------------------------------------------------------------------
\* A row: it turns what memory accounts for into what the page accounts for.
LEMMA RowStep ==
    ASSUME IInv, RenderRow
    PROVE  IInv'
<1> USE DEF IInv
<1>1. /\ row \in 1 .. 10
      /\ row' = IF row = 10 THEN 0 ELSE row + 1
      /\ UNCHANGED <<memory, beat, ship, last>>
      /\ page' = [page EXCEPT ![Rows[row]] = memory[Rows[row]]]
    BY RowsParts DEF RenderRow, Load
<1>2. Rows[row] \in Fields
    <2>1. row \in 1 .. 6 \/ row \in 7 .. 10
        BY <1>1
    <2> QED BY <2>1, RowsParts DEF Fields
<1>3. /\ page' \in [Fields -> Nat]
      /\ page'[Rows[row]] = memory[Rows[row]]
      /\ \A g \in Fields : g # Rows[row] => page'[g] = page[g]
    BY <1>1, <1>2 DEF TypeOK
<1>4. TypeOK'
    <2>1. \A g \in Fields : page[g] <= memory[g] /\ memory[g] \in Nat
        BY DEF TypeOK
    <2>2. ASSUME NEW g \in Fields
          PROVE  page'[g] <= memory[g]
        <3>1. CASE g = Rows[row]
            BY <1>3, <2>1, <3>1
        <3>2. CASE g # Rows[row]
            BY <1>3, <2>1, <3>2
        <3> QED BY <3>1, <3>2
    <2> QED BY <1>1, <1>3, <2>2, RowsParts DEF TypeOK
<1>5. MemoryInv'
    BY <1>1 DEF MemoryInv
<1>6. PageInv'
    <2>1. \A g \in Fields : page[g] \in Nat /\ memory[g] \in Nat /\ page[g] <= memory[g]
        BY DEF TypeOK
    <2>2. CASE row = 1
        BY <1>1, <2>2 DEF PageInv
    <2>3. CASE row = 2
        BY <1>1, <1>3, <2>1, <2>3, RowsParts DEF PageInv, MemoryInv, Fields
    <2>4. CASE row = 3
        BY <1>1, <1>3, <2>1, <2>4, RowsParts DEF PageInv, Fields
    <2>5. CASE row = 4
        BY <1>1, <1>3, <2>1, <2>5, RowsParts DEF PageInv, MemoryInv, Fields
    <2>6. CASE row = 5
        BY <1>1, <1>3, <2>1, <2>6, RowsParts DEF PageInv, Fields
    <2>7. CASE row = 6
        BY <1>1, <1>3, <2>1, <2>7, RowsParts DEF PageInv, Fields
    <2>8. CASE row \in 7 .. 10
        <3>1. /\ page'.scrapes = page.scrapes /\ page'.scrapeFails = page.scrapeFails
              /\ page'.beats = page.beats /\ page'.oks = page.oks
              /\ page'.fails = page.fails /\ page'.stamp = page.stamp
            BY <1>3, <2>8, RowsParts DEF Fields
        <3>2. row' \notin 1 .. 6
            BY <1>1, <2>8
        <3> QED BY <1>1, <2>8, <3>1, <3>2 DEF PageInv
    <2> QED BY <1>1, <2>2, <2>3, <2>4, <2>5, <2>6, <2>7, <2>8
<1>7. LastInv'
    <2> SUFFICES ASSUME NEW r \in 1 .. 10, Passed(r)'
                 PROVE  last[Rows[r]] <= page'[Rows[r]]
        BY <1>1 DEF LastInv
    <2>1. Rows[r] \in Fields
        BY RowsComplete
    <2>2. CASE Rows[r] = Rows[row]
        BY <1>3, <2>1, <2>2 DEF LastInv
    <2>3. CASE Rows[r] # Rows[row]
        <3>1. r # row
            BY <2>3
        <3>2. r < row
            BY <1>1, <3>1 DEF Passed
        <3> QED BY <1>3, <2>1, <2>3, <3>2 DEF LastInv, Passed
    <2> QED BY <2>2, <2>3
<1> QED BY <1>4, <1>5, <1>6, <1>7

LEMMA NextInv == IInv /\ [Next]_vars => IInv'
<1> SUFFICES ASSUME IInv, [Next]_vars PROVE IInv'
    OBVIOUS
<1>1. CASE RenderBegin
    <2>1. TypeOK' /\ MemoryInv' /\ PageInv'
        BY <1>1, RowsParts
        DEF RenderBegin, IInv, TypeOK, MemoryInv, PageInv, Zero, Fields
    <2>2. LastInv'
        BY <1>1 DEF RenderBegin, IInv, TypeOK, LastInv, Passed
    <2> QED BY <2>1, <2>2 DEF IInv
<1>2. CASE UNCHANGED vars
    BY <1>2 DEF vars, IInv, TypeOK, MemoryInv, PageInv, LastInv, Passed
<1> QED BY <1>1, <1>2, CountStep, RowStep DEF Next

LEMMA InvCorrect == Spec => []IInv
<1> QED BY InitInv, NextInv, PTL DEF Spec

-----------------------------------------------------------------------------
\* The counters and the page keep their types, and a page never shows more
\* than was counted.
THEOREM TypeCorrect == Spec => []TypeOK
<1>1. IInv => TypeOK
    BY DEF IInv
<1> QED BY <1>1, InvCorrect, PTL

\* A page that straddles any number of cycles leaves at most one scrape and at
\* most one heartbeat without an outcome, because render() reads attempts
\* before their outcomes.
THEOREM AttemptsAccountedCorrect == Spec => []AttemptsAccounted
<1>1. IInv => AttemptsAccounted
    BY DEF IInv, PageInv, AttemptsAccounted, Complete
<1> QED BY <1>1, InvCorrect, PTL

\* A page that straddles any number of cycles counts at most one success whose
\* time it does not have, because heartbeat_success stores the time after the
\* count and render() reads them in that order.
THEOREM SuccessIsStampedCorrect == Spec => []SuccessIsStamped
<1>1. IInv => SuccessIsStamped
    BY DEF IInv, PageInv, SuccessIsStamped, Complete
<1> QED BY <1>1, InvCorrect, PTL

\* A counter never goes back from one page to the next, however many increments
\* fall between the rows of either.
THEOREM PagesRiseCorrect == Spec => []PagesRise
<1>1. IInv => PagesRise
    <2> SUFFICES ASSUME IInv, row = 0, NEW f \in Fields
                 PROVE  last[f] <= page[f]
        BY DEF PagesRise, Complete
    <2>1. PICK r \in 1 .. 10 : Rows[r] = f
        BY RowsComplete
    <2> QED BY <2>1 DEF IInv, LastInv, Passed
<1> QED BY <1>1, InvCorrect, PTL
=============================================================================

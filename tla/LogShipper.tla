----------------------------- MODULE LogShipper -----------------------------
(***************************************************************************)
(* src/collector.rs: the task that tails a log file by byte offset and     *)
(* forwards what is new to a sink, while another process appends to the    *)
(* file and rotates it, reads fail, the sink refuses, redirects or does    *)
(* not answer, and the sidecar restarts.                                   *)
(*                                                                         *)
(* Bytes are numbered in the order they are written, whatever file they    *)
(* land in.  A file is the interval of numbers above its base, so the file *)
(* at the path holds base + 1 .. written.  The sleep between two polls is  *)
(* abstracted to "any time".                                               *)
(***************************************************************************)
EXTENDS Integers, FiniteSets

CONSTANTS
    MaxBytes,     \* bound: the workload writes this many bytes
    MaxErrors,    \* bound: the read-failure counter is followed up to this
    CharWidth,    \* bytes in a character of the log: 1 is ASCII
    Outgrows      \* whether a rotated file may reach the old offset unseen

ASSUME ConstantAssumption ==
    /\ MaxBytes \in Nat \ {0}
    /\ MaxErrors \in Nat
    /\ CharWidth \in {1, 2}
    /\ Outgrows \in BOOLEAN

VARIABLES
    sink,        \* "http", "log" (stdout, stderr, tracing) or "unsupported"
    present,     \* whether there is a file at the path
    base,        \* the number of bytes written before that file's first
    written,     \* the number of bytes ever written
    pc,          \* "down", "poll", "open", "read" or "ship"
    offset,      \* the loop's byte offset
    pos,         \* the offset this read starts at
    handle,      \* the open file: NoFile, Path, or what a renamed one held
    chunk,       \* the bytes being shipped
    answer,      \* of the sink: "none", "ok", "moved" or "err"
    counters,    \* SidecarMetrics: what the log paths count
    lastRead,    \* history: the last byte this life has read
    before,      \* history: the last byte it had read before this chunk
    sunk,        \* history: the bytes the sink has
    diverted     \* history: what this life counted on a redirect's word

fileVars == <<present, base, written>>
readVars == <<offset, pos, handle, lastRead, before>>
sinkVars == <<sunk, diverted>>
vars == <<sink, fileVars, pc, readVars, chunk, answer, counters, sinkVars>>

\* An interval of bytes: those above base, from "lo" on, up to "hi".
Interval(b, l, h) == [base |-> b, lo |-> l, hi |-> h]
NoBytes == Interval(0, 1, 0)
Bytes(i) == i.lo .. i.hi
Length(i) == i.hi - i.lo + 1

\* from_utf8_lossy: what a chunk holds of a character it does not hold whole is
\* replaced, byte by byte, with the three bytes of U+FFFD.
Char(b) == (b - 1) \div CharWidth
Split(i) ==
    {b \in Bytes(i) :
        \E c \in (b - 1) .. (b + 1) : Char(c) = Char(b) /\ c \notin Bytes(i)}
DecodedLength(i) == Length(i) + 2 * Cardinality(Split(i))

NoFile == Interval(0, 0, 0)
Path == Interval(0, 0, 1)

ZeroCounters ==
    [readFails |-> 0, shipOks |-> 0, shipFails |-> 0, shipped |-> 0]

Larger(a, b) == IF a >= b THEN a ELSE b

Init ==
    /\ sink \in {"http", "log", "unsupported"}
    /\ present = TRUE
    /\ base = 0
    /\ written = 0
    /\ pc = "down"
    /\ offset = 0
    /\ pos = 0
    /\ handle = NoFile
    /\ chunk = NoBytes
    /\ answer = "none"
    /\ counters = ZeroCounters
    /\ lastRead = 0
    /\ before = 0
    /\ sunk = {}
    /\ diverted = {}

-----------------------------------------------------------------------------
(***************************************************************************)
(* The workload and log rotation (external)                                *)
(***************************************************************************)

\* Whether the file at the path may get a length the shipper will take for the
\* old file's: it holds an offset of that file, or has that file open still.
MistakenFor(length) ==
    \/ offset > 0 /\ lastRead # base + offset /\ length >= offset
    \/ handle \notin {NoFile, Path} /\ length >= handle.hi - handle.base

\* Unless Outgrows, the shipper polls often enough to see a rotated file while
\* it is still shorter than its predecessor.
Append ==
    /\ present
    /\ written < MaxBytes
    /\ Outgrows \/ ~MistakenFor(written + 1 - base)
    /\ written' = written + 1
    /\ UNCHANGED <<sink, present, base, pc, readVars, chunk, answer, counters,
                   sinkVars>>

\* Rotation by copying the file and truncating it in place.
Truncate ==
    /\ present
    /\ base' = written
    /\ UNCHANGED <<sink, present, written, pc, readVars, chunk, answer,
                   counters, sinkVars>>

\* Rotation by renaming; a reader that has the file open keeps it.
Rename ==
    /\ present
    /\ present' = FALSE
    /\ handle' = IF handle = Path THEN Interval(base, base + 1, written)
                 ELSE handle
    /\ UNCHANGED <<sink, base, written, pc, offset, pos, lastRead, before,
                   chunk, answer, counters, sinkVars>>

\* The workload opens a new, empty file at the path.
Create ==
    /\ ~present
    /\ present' = TRUE
    /\ base' = written
    /\ UNCHANGED <<sink, written, pc, readVars, chunk, answer, counters,
                   sinkVars>>

-----------------------------------------------------------------------------
(***************************************************************************)
(* The task                                                                *)
(***************************************************************************)

Count(field) == [counters EXCEPT ![field] = @ + 1]

\* The locals of one call of read_new_log_bytes.
DropLocals ==
    /\ pos' = 0
    /\ handle' = NoFile

\* The task starts with offset 0 and fresh counters.
Start ==
    /\ pc = "down"
    /\ pc' = "poll"
    /\ UNCHANGED <<sink, fileVars, readVars, chunk, answer, counters, sinkVars>>

Crash ==
    /\ pc # "down"
    /\ pc' = "down"
    /\ DropLocals
    /\ offset' = 0
    /\ chunk' = NoBytes
    /\ answer' = "none"
    /\ counters' = ZeroCounters
    /\ lastRead' = 0
    /\ before' = 0
    /\ diverted' = {}
    /\ UNCHANGED <<sink, fileVars, sunk>>

\* Where this read starts: at the offset, or at 0 in a file too short for it;
\* a reader that never starts over.
NeverReset == offset
StartsAt == IF written - base < offset THEN 0 ELSE offset

\* fs::metadata.
Stat ==
    /\ pc = "poll"
    /\ present
    /\ pc' = "open"
    /\ pos' = StartsAt
    /\ UNCHANGED <<sink, fileVars, offset, handle, lastRead, before, chunk,
                   answer, counters, sinkVars>>

\* File::open: by now the path may name another file.
Open ==
    /\ pc = "open"
    /\ present
    /\ pc' = "read"
    /\ handle' = Path
    /\ UNCHANGED <<sink, fileVars, offset, pos, lastRead, before, chunk,
                   answer, counters, sinkVars>>

\* What the open file holds from the start position to its end; nothing when
\* the position is beyond the end.
Rest ==
    LET file == IF handle = Path THEN Interval(base, base + 1, written)
                ELSE handle
    IN  Interval(file.base, file.base + pos + 1, file.hi)

Got == IF Length(Rest) > 0 THEN Length(Rest) ELSE 0

\* The next offset; the same without the bytes just read, and one too far.
ForgottenBytes == pos
OneTooFar == pos + Got + 1
NextOffset == pos + Got

\* seek and read_to_end; an empty chunk is not shipped.
Read ==
    /\ pc = "read"
    /\ offset' = NextOffset
    /\ DropLocals
    /\ IF Got > 0
       THEN /\ pc' = "ship"
            /\ chunk' = Rest
            /\ before' = lastRead
            /\ lastRead' = Rest.hi
       ELSE /\ pc' = "poll"
            /\ UNCHANGED <<chunk, before, lastRead>>
    /\ UNCHANGED <<sink, fileVars, answer, counters, sinkVars>>

\* metadata, open, seek or read returns an error, as the first two must when
\* nothing is at the path: the offset stays and the loop goes on.
ReadError ==
    /\ pc \in {"poll", "open", "read"}
    /\ pc' = "poll"
    /\ DropLocals
    /\ counters' = IF counters.readFails < MaxErrors THEN Count("readFails")
                   ELSE counters
    /\ UNCHANGED <<sink, fileVars, offset, lastRead, before, chunk, answer,
                   sinkVars>>

Missing == ~present /\ pc \in {"poll", "open"} /\ ReadError
IoError == (present \/ pc = "read") /\ ReadError

\* The HTTP sink keeps the chunk and answers, or refuses it (external); where a
\* 307 or 308 leads, the chunk goes with it, and the sink is what it leads to.
SinkStores ==
    /\ pc = "ship"
    /\ sink = "http"
    /\ answer = "none"
    /\ sunk' = sunk \union Bytes(chunk)
    /\ answer' = "ok"
    /\ UNCHANGED <<sink, fileVars, pc, readVars, chunk, counters, diverted>>

SinkRefuses ==
    /\ pc = "ship"
    /\ sink = "http"
    /\ answer = "none"
    /\ answer' = "err"
    /\ UNCHANGED <<sink, fileVars, pc, readVars, chunk, counters, sinkVars>>

\* It answers with another redirect and keeps nothing.  The client follows a
\* 301, 302 or 303 with a GET that has no body, to a page that answers 2xx; one
\* without a place to go is the answer itself.
SinkMoves ==
    /\ pc = "ship"
    /\ sink = "http"
    /\ answer = "none"
    /\ answer' = "moved"
    /\ UNCHANGED <<sink, fileVars, pc, readVars, chunk, counters, sinkVars>>

\* The chunk is let go, and the loop sleeps.
Shipped ==
    /\ pc' = "poll"
    /\ chunk' = NoBytes
    /\ answer' = "none"

\* Whether an answer is a success: error_for_status knows 4xx and 5xx only, and
\* a redirect that was followed has left a 2xx; the same without the call.
AnyAnswer(a) == a # "none"
Accepted(a) == a \in {"ok", "moved"}

\* log_ship_success after a good answer, or after writing to the process's own
\* log.
ShipOk ==
    /\ pc = "ship"
    /\ \/ sink = "http" /\ Accepted(answer) /\ UNCHANGED sunk
       \/ sink = "log" /\ sunk' = sunk \union Bytes(chunk)
    /\ Shipped
    /\ counters' = [counters EXCEPT !.shipOks = @ + 1,
                                    !.shipped = @ + DecodedLength(chunk)]
    /\ diverted' = IF answer = "moved" THEN diverted \union Bytes(chunk)
                   ELSE diverted
    /\ UNCHANGED <<sink, fileVars, readVars>>

\* log_ship_failure; a loop that logs the error and counts nothing.
Uncounted == counters
FailureCounted == Count("shipFails")

\* An error, a lost answer, the 5 s timeout, or a sink that is not supported:
\* the chunk is gone, the offset is already past it.
ShipFail ==
    /\ pc = "ship"
    /\ sink # "log"
    /\ Shipped
    /\ counters' = FailureCounted
    /\ UNCHANGED <<sink, fileVars, readVars, sinkVars>>

-----------------------------------------------------------------------------
Next ==
    \/ Append \/ Truncate \/ Rename \/ Create
    \/ Start \/ Crash \/ Stat \/ Open \/ Read \/ Missing \/ IoError
    \/ SinkStores \/ SinkRefuses \/ SinkMoves \/ ShipOk \/ ShipFail

Spec == Init /\ [][Next]_vars

(***************************************************************************)
(* Fairness.  The sleep ends and file operations return; a POST ends, at   *)
(* the latest with the client's timeout; a dead container is restarted.    *)
(***************************************************************************)
Fairness ==
    /\ WF_vars(Start)
    /\ WF_vars(Stat \/ Open \/ Read \/ Missing)
    /\ WF_vars(ShipOk \/ ShipFail)

FairSpec == Spec /\ Fairness
-----------------------------------------------------------------------------
Intervals == [base : 0 .. MaxBytes, lo : 0 .. MaxBytes + 1, hi : 0 .. MaxBytes]

TypeOK ==
    /\ sink \in {"http", "log", "unsupported"}
    /\ present \in BOOLEAN
    /\ written \in 0 .. MaxBytes
    /\ base \in 0 .. written
    /\ pc \in {"down", "poll", "open", "read", "ship"}
    /\ offset \in 0 .. MaxBytes
    /\ pos \in 0 .. MaxBytes
    /\ handle \in Intervals
    /\ chunk \in Intervals
    /\ answer \in {"none", "ok", "moved", "err"}
    /\ counters \in [readFails : 0 .. MaxErrors, shipOks : Nat,
                     shipFails : Nat, shipped : Nat]
    /\ lastRead \in 0 .. written
    /\ before \in 0 .. written
    /\ sunk \subseteq 1 .. written
    /\ diverted \subseteq 1 .. written

\* A chunk begins right after the last byte read before it, or with its file's
\* first byte if rotation took what was in between: the offset is tracked
\* across reads and reset on rotation (src/collector.rs:37-38), so within a
\* life no byte is skipped in a file and none is read twice.
ResumesExactly ==
    pc = "ship" => chunk.lo = Larger(before, chunk.base) + 1

\* Bytes counted as shipped are in the sink, or the sink redirected the chunk
\* they came in; each is counted once in a life: as many as there are, and in a
\* log of wider characters two more for a half of one at either end of a chunk
\* (README.md:221-222: a chunk is "lossily decoded while the byte offset still
\* advances").
ShippedOrDiverted ==
    counters.shipped <=
        Cardinality(sunk \union diverted)
            + 4 * (CharWidth - 1) * counters.shipOks

\* The shipper is a tail of the log: the bytes of a life are taken in their
\* order, once each, and none is skipped that is still in the file.  A chunk the
\* sink did not take is never read again, so it is counted as a failure, or its
\* loss would show nowhere ("Visible background failures", README.md:219-221):
\* only that of a chunk the sink redirected does not.
Log == INSTANCE LogTail
           WITH mark <- lastRead,
                hand <- IF pc = "ship" THEN Bytes(chunk) ELSE {},
                failures <- counters.shipFails
ImplementsTail == Log!Spec

\* Once the file stays, reads stop failing and the sidecar stays up, everything
\* in the file is read in the end, whatever the sink does.
AllRead ==
    <>[](present /\ pc # "down") /\ <>[][~IoError]_vars
        => <>[](Larger(lastRead, base) = written)
=============================================================================

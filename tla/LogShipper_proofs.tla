------------------------- MODULE LogShipper_proofs -------------------------
(***************************************************************************)
(* Proofs about LogShipper, for logs and rotations of any length.          *)
(*                                                                         *)
(* Within a life the offset is where the last byte read ends in the file   *)
(* at the path, or the whole of that file is newer than that byte          *)
(* (PlaceInv): no byte is read twice.  That none is skipped either takes a *)
(* rotated file that is shorter than the offset whenever it is looked at   *)
(* (PaceInv); then the shipper implements LogTail, and with it that no     *)
(* byte is lost but a failure is counted.                                  *)
(***************************************************************************)
EXTENDS LogShipper, FiniteSetTheorems, TLAPS

\* The open file was renamed; its name is gone, or a newer file has it.
Renamed == handle # NoFile /\ handle # Path
Kept ==
    /\ handle.base <= handle.hi /\ handle.hi <= written
    /\ handle.lo = handle.base + 1
    /\ \/ ~present /\ handle.base = base /\ handle.hi = written
       \/ handle.hi <= base /\ lastRead <= base

\* A read that starts in the file above b starts at its beginning or at the
\* offset, and after the last byte read.
Begins(b) ==
    /\ pos \in {0, offset}
    /\ lastRead <= b \/ (pos = offset /\ lastRead = b + pos)

PlaceInv ==
    /\ pc = "read" <=> handle # NoFile
    /\ Renamed => Kept /\ Begins(handle.base)
    /\ pc = "open" \/ handle = Path => Begins(base)
    /\ lastRead <= base \/ lastRead = base + offset

ChunkInv ==
    pc = "ship" => /\ before < chunk.lo /\ chunk.lo <= chunk.hi
                   /\ chunk.hi = lastRead

\* With rotation seen in time: a file other than the one last read is shorter
\* than the offset, and than the file still open.
PaceInv ==
    /\ offset > 0 /\ lastRead # base + offset => written - base < offset
    /\ Renamed => \/ ~present /\ handle.base = base /\ handle.hi = written
                  \/ written = base
                  \/ written - base < handle.hi - handle.base
    /\ Renamed => \/ pos = 0
                  \/ handle.base + pos = lastRead
                  \/ handle.hi - handle.base < pos

IInv == TypeOK /\ PlaceInv /\ ChunkInv

-----------------------------------------------------------------------------
\* The parts of an interval.
LEMMA IntervalParts ==
    \A b, l, h : /\ Interval(b, l, h).base = b
                 /\ Interval(b, l, h).lo = l
                 /\ Interval(b, l, h).hi = h
BY DEF Interval

LEMMA IntervalType ==
    \A b \in 0 .. MaxBytes, l \in 0 .. MaxBytes + 1, h \in 0 .. MaxBytes :
        Interval(b, l, h) \in Intervals
BY DEF Interval, Intervals

\* A mark for no file, one for the path, and an interval of bytes differ.
LEMMA Marks ==
    /\ NoFile # Path
    /\ \A b, h : b \in Nat => /\ Interval(b, b + 1, h) # NoFile
                              /\ Interval(b, b + 1, h) # Path
<1>1. NoFile.hi = 0 /\ Path.hi = 1 /\ NoFile.lo = 0 /\ Path.lo = 0
    BY IntervalParts DEF NoFile, Path
<1>2. \A b, h : b \in Nat => Interval(b, b + 1, h).lo # 0
    BY IntervalParts
<1> QED BY <1>1, <1>2

LEMMA MarkTypes ==
    NoFile \in Intervals /\ Path \in Intervals /\ NoBytes \in Intervals
BY ConstantAssumption, IntervalType DEF NoFile, Path, NoBytes

\* What a read finds: the rest of one file, from the position on.
LEMMA ReadParts ==
    ASSUME TypeOK, PlaceInv, pc = "read"
    PROVE  \E b, e \in 0 .. written :
               /\ Rest = Interval(b, b + pos + 1, e)
               /\ b <= e
               /\ Begins(b)
               /\ handle = Path => b = base /\ e = written
               /\ Renamed => b = handle.base /\ e = handle.hi
               /\ Got = IF e > b + pos THEN e - (b + pos) ELSE 0
<1> USE DEF TypeOK
<1>1. CASE handle = Path
    <2>1. Rest = Interval(base, base + pos + 1, written)
        BY <1>1, IntervalParts DEF Rest
    <2>2. Length(Rest) = written - (base + pos)
        BY <2>1, IntervalParts, ConstantAssumption DEF Length
    <2>3. Begins(base) /\ base <= written /\ ~Renamed
        BY <1>1 DEF PlaceInv, Renamed
    <2> QED BY <1>1, <2>1, <2>2, <2>3, ConstantAssumption DEF Got
<1>2. CASE handle # Path
    <2>1. Renamed /\ Kept /\ Begins(handle.base)
        BY <1>2 DEF PlaceInv, Renamed
    <2>2. handle.base \in 0 .. written /\ handle.hi \in 0 .. written
        BY <2>1 DEF Kept, Intervals
    <2>3. Rest = Interval(handle.base, handle.base + pos + 1, handle.hi)
        BY <1>2 DEF Rest
    <2>4. Length(Rest) = handle.hi - (handle.base + pos)
        BY <2>2, <2>3, IntervalParts, ConstantAssumption DEF Length
    <2> QED BY <1>2, <2>1, <2>2, <2>3, <2>4, ConstantAssumption DEF Got, Kept
<1> QED BY <1>1, <1>2

\* Decoding replaces at most the two bytes at a chunk's ends, and none of a log
\* in ASCII.
LEMMA DecodedSmall ==
    ASSUME NEW i \in Intervals, i.lo <= i.hi
    PROVE  /\ DecodedLength(i) \in Nat
           /\ DecodedLength(i) <= Length(i) + 4 * (CharWidth - 1)
<1>1. i.lo \in Int /\ i.hi \in Int
    BY ConstantAssumption DEF Intervals
<1>2. Length(i) \in Nat
    BY <1>1 DEF Length
<1>3. CASE CharWidth = 1
    <2>1. Split(i) = {}
        <3>1. \A b, c \in Int : Char(c) = Char(b) => c = b
            BY <1>3 DEF Char
        <3> QED BY <1>1, <3>1 DEF Split, Bytes
    <2>2. Cardinality(Split(i)) = 0
        BY <2>1, FS_EmptySet
    <2> QED BY <1>2, <1>3, <2>2 DEF DecodedLength
<1>4. CASE CharWidth = 2
    <2>1. Split(i) \subseteq {i.lo, i.hi}
        BY <1>1 DEF Split, Bytes
    <2>2. IsFiniteSet({i.lo, i.hi}) /\ Cardinality({i.lo, i.hi}) <= 2
        <3>1. IsFiniteSet({i.lo}) /\ Cardinality({i.lo}) = 1
            BY FS_Singleton
        <3>2. {i.lo, i.hi} = {i.lo} \union {i.hi}
            OBVIOUS
        <3> QED BY <3>1, <3>2, FS_AddElement
    <2>3. Cardinality(Split(i)) \in Nat /\ Cardinality(Split(i)) <= 2
        BY <2>1, <2>2, FS_Subset, FS_CardinalityType
    <2> QED BY <1>2, <1>4, <2>3 DEF DecodedLength
<1> QED BY <1>3, <1>4, ConstantAssumption

-----------------------------------------------------------------------------
(***************************************************************************)
(* Types and places                                                        *)
(***************************************************************************)
LEMMA InitInv == Init => IInv
<1> SUFFICES ASSUME Init PROVE IInv
    OBVIOUS
<1> USE ConstantAssumption, MarkTypes, Marks DEF Init
<1>1. TypeOK
    BY DEF TypeOK, ZeroCounters
<1>2. PlaceInv /\ ChunkInv
    BY DEF PlaceInv, ChunkInv, Renamed
<1> QED BY <1>1, <1>2 DEF IInv

\* What the workload does to the file at the path.
LEMMA RotationKeeps ==
    ASSUME TypeOK, PlaceInv, ChunkInv, Append \/ Truncate \/ Rename \/ Create
    PROVE  TypeOK' /\ PlaceInv' /\ ChunkInv'
<1> USE ConstantAssumption, MarkTypes, Marks DEF readVars, sinkVars
<1>1. CASE Append
    <2>1. TypeOK' BY <1>1 DEF TypeOK, Append
    <2>2. /\ UNCHANGED <<present, base, pc, offset, pos, handle, lastRead>>
          /\ written' = written + 1 /\ present
          BY <1>1 DEF Append
    <2>4. Renamed => Kept'
        BY <2>2 DEF TypeOK, PlaceInv, Kept, Intervals
    <2>5. PlaceInv'
        BY <2>2, <2>4 DEF PlaceInv, Renamed, Begins
    <2>3. ChunkInv' BY <1>1 DEF Append, ChunkInv
    <2> QED BY <2>1, <2>5, <2>3
<1>2. CASE Truncate
    <2>1. TypeOK' BY <1>2 DEF TypeOK, Truncate
    <2>2. PlaceInv'
        BY <1>2 DEF TypeOK, Truncate, PlaceInv, Renamed, Kept, Begins
    <2>3. ChunkInv' BY <1>2 DEF Truncate, ChunkInv
    <2> QED BY <2>1, <2>2, <2>3
<1>3. CASE Rename
    <2>n. /\ base \in 0 .. MaxBytes /\ written \in 0 .. MaxBytes /\ base <= written
          /\ handle \in Intervals
        BY DEF TypeOK
    <2>p. /\ UNCHANGED <<sink, base, written, pc, offset, pos, lastRead, before,
                         chunk, answer, counters, sunk, diverted>>
          /\ present' = FALSE /\ present
        BY <1>3 DEF Rename
    <2>1. CASE handle = Path
        <3> DEFINE kept == Interval(base, base + 1, written)
        <3>1. handle' = kept
            BY <1>3, <2>1 DEF Rename
        <3>2. kept.base = base /\ kept.lo = base + 1 /\ kept.hi = written
            BY IntervalParts
        <3>3. kept # NoFile /\ kept # Path /\ kept \in Intervals
            <4>1. base \in Nat /\ base + 1 \in 0 .. MaxBytes + 1
                BY <2>n
            <4>2. kept \in Intervals
                BY <2>n, <4>1, IntervalType
            <4> QED BY <4>1, <4>2, Marks
        <3> HIDE DEF kept
        <3>4. TypeOK'
            BY <2>p, <3>1, <3>3 DEF TypeOK
        <3>5. pc = "read" /\ Begins(base) /\ (lastRead <= base \/ lastRead = base + offset)
            BY <2>1 DEF PlaceInv
        <3>6. Begins(base)'
            BY <2>p, <3>5 DEF Begins
        <3>7. Begins(handle.base)'
            BY <2>p, <3>1, <3>2, <3>6 DEF Begins
        <3>8. Kept'
            BY <2>n, <2>p, <3>1, <3>2 DEF Kept
        <3>9. PlaceInv'
            BY <2>p, <3>1, <3>3, <3>5, <3>6, <3>7, <3>8 DEF PlaceInv
        <3> QED BY <2>p, <3>4, <3>9 DEF ChunkInv
    <2>2. CASE handle # Path
        <3>1. handle' = handle
            BY <1>3, <2>2 DEF Rename
        <3>2. TypeOK'
            BY <2>p, <3>1 DEF TypeOK
        <3>3. Renamed => Kept'
            BY <2>p, <3>1 DEF PlaceInv, Kept
        <3>4. PlaceInv'
            BY <2>p, <3>1, <3>3 DEF PlaceInv, Renamed, Begins
        <3> QED BY <2>p, <3>2, <3>4 DEF ChunkInv
    <2> QED BY <2>1, <2>2
<1>4. CASE Create
    <2>1. TypeOK' BY <1>4 DEF TypeOK, Create
    <2>2. PlaceInv'
        BY <1>4 DEF TypeOK, Create, PlaceInv, Renamed, Kept, Begins
    <2>3. ChunkInv' BY <1>4 DEF Create, ChunkInv
    <2> QED BY <2>1, <2>2, <2>3
<1> QED BY <1>1, <1>2, <1>3, <1>4

\* The read: lastRead moves to the end of what was found.
LEMMA ReadKeeps ==
    ASSUME TypeOK, PlaceInv, ChunkInv, Read
    PROVE  TypeOK' /\ PlaceInv' /\ ChunkInv'
<1> USE ConstantAssumption, MarkTypes, Marks DEF sinkVars
<1>1. PICK b \in 0 .. written, e \in 0 .. written :
          /\ Rest = Interval(b, b + pos + 1, e)
          /\ b <= e
          /\ Begins(b)
          /\ handle = Path => b = base /\ e = written
          /\ Renamed => b = handle.base /\ e = handle.hi
          /\ Got = IF e > b + pos THEN e - (b + pos) ELSE 0
    BY ReadParts DEF Read
<1>2. Renamed => Kept
    BY DEF PlaceInv
<1>3. handle = Path \/ Renamed
    BY DEF PlaceInv, Read, Renamed
<1>n. /\ written \in 0 .. MaxBytes /\ base \in 0 .. written /\ pos \in 0 .. MaxBytes
      /\ lastRead \in 0 .. written /\ before \in 0 .. written
    BY DEF TypeOK
<1>4. CASE Got > 0
    <2>1. /\ e > b + pos /\ Got = e - (b + pos)
        BY <1>1, <1>4
    <2>2. /\ offset' = e - b /\ lastRead' = e /\ before' = lastRead
          /\ chunk' = Rest /\ pc' = "ship" /\ handle' = NoFile /\ pos' = 0
          /\ UNCHANGED <<sink, present, base, written, answer, counters, sunk,
                         diverted>>
        BY <1>1, <1>4, <1>n, <2>1, IntervalParts
           DEF Read, NextOffset, DropLocals, fileVars
    <2>3. chunk' \in Intervals
        BY <1>1, <1>n, <2>1, <2>2, IntervalType
    <2>4. TypeOK'
        BY <1>1, <1>n, <2>2, <2>3 DEF TypeOK
    <2>5. lastRead <= b + pos
        BY <1>1, <1>n DEF Begins
    <2>6. ChunkInv'
        BY <1>1, <1>n, <2>1, <2>2, <2>5, IntervalParts DEF ChunkInv
    <2>7. e <= base \/ e = base + (e - b)
        BY <1>1, <1>2, <1>3, <1>n DEF Kept
    <2>8. PlaceInv'
        BY <2>2, <2>7 DEF PlaceInv, Renamed
    <2> QED BY <2>4, <2>6, <2>8
<1>5. CASE ~(Got > 0)
    <2>1. Got = 0
        BY <1>1, <1>5, <1>n
    <2>2. /\ offset' = pos /\ pc' = "poll" /\ handle' = NoFile /\ pos' = 0
          /\ UNCHANGED <<chunk, before, lastRead>>
          /\ UNCHANGED <<sink, present, base, written, answer, counters, sunk,
                         diverted>>
        BY <1>5, <1>n, <2>1 DEF Read, NextOffset, DropLocals, fileVars
    <2>3. TypeOK'
        BY <1>n, <2>2 DEF TypeOK
    <2>4. lastRead <= base \/ lastRead = base + pos
        BY <1>1, <1>2, <1>3, <1>n DEF Kept, Begins
    <2>5. PlaceInv' /\ ChunkInv'
        BY <2>2, <2>4 DEF PlaceInv, ChunkInv, Renamed
    <2> QED BY <2>3, <2>5
<1> QED BY <1>4, <1>5

LEMMA StepKeeps == IInv /\ [Next]_vars => IInv'
<1> SUFFICES ASSUME TypeOK, PlaceInv, ChunkInv, [Next]_vars
             PROVE  TypeOK' /\ PlaceInv' /\ ChunkInv'
    BY DEF IInv
<1> USE ConstantAssumption, MarkTypes, Marks DEF sinkVars
<1>1. CASE Append \/ Truncate \/ Rename \/ Create
    BY <1>1, RotationKeeps
<1>2. CASE Start
    <2>1. TypeOK' BY <1>2 DEF TypeOK, Start, fileVars, readVars
    <2>2. PlaceInv' /\ ChunkInv'
        BY <1>2 DEF Start, fileVars, readVars, PlaceInv, ChunkInv, Renamed, Kept, Begins
    <2> QED BY <2>1, <2>2
<1>3. CASE Crash
    <2>1. TypeOK'
        BY <1>3 DEF TypeOK, Crash, DropLocals, ZeroCounters, fileVars
    <2>2. PlaceInv' /\ ChunkInv'
        BY <1>3 DEF TypeOK, Crash, DropLocals, fileVars, PlaceInv, ChunkInv, Renamed
    <2> QED BY <2>1, <2>2
<1>4. CASE Stat
    <2>1. TypeOK'
        BY <1>4 DEF TypeOK, Stat, StartsAt, fileVars
    <2>2. handle = NoFile
        BY <1>4 DEF Stat, PlaceInv
    <2>3. Begins(base)'
        <3>1. /\ pos' = IF written - base < offset THEN 0 ELSE offset
              /\ UNCHANGED <<base, offset, lastRead>>
            BY <1>4 DEF Stat, StartsAt, fileVars
        <3>2. lastRead <= base \/ lastRead = base + offset
            BY DEF PlaceInv
        <3>3. written - base < offset => lastRead <= base
            BY <3>2 DEF TypeOK
        <3> QED BY <3>1, <3>2, <3>3 DEF Begins
    <2>4. PlaceInv' /\ ChunkInv'
        BY <1>4, <2>2, <2>3 DEF Stat, fileVars, PlaceInv, ChunkInv, Renamed
    <2> QED BY <2>1, <2>4
<1>5. CASE Open
    <2>1. TypeOK'
        BY <1>5 DEF TypeOK, Open, fileVars
    <2>2. Begins(base)'
        BY <1>5 DEF Open, fileVars, PlaceInv, Begins
    <2>3. PlaceInv' /\ ChunkInv'
        BY <1>5, <2>2 DEF Open, fileVars, PlaceInv, ChunkInv, Renamed
    <2> QED BY <2>1, <2>3
<1>6. CASE Read
    BY <1>6, ReadKeeps
<1>7. CASE Missing \/ IoError
    <2>0. ReadError
        BY <1>7 DEF Missing, IoError
    <2>1. counters' \in [readFails : 0 .. MaxErrors, shipOks : Nat,
                         shipFails : Nat, shipped : Nat]
        BY <2>0 DEF TypeOK, ReadError, Count
    <2>2. TypeOK'
        BY <2>0, <2>1 DEF TypeOK, ReadError, DropLocals, fileVars
    <2>3. PlaceInv' /\ ChunkInv'
        BY <2>0 DEF ReadError, DropLocals, fileVars, PlaceInv, ChunkInv, Renamed
    <2> QED BY <2>2, <2>3
<1>8. CASE SinkStores \/ SinkRefuses \/ SinkMoves
    <2>1. sunk' \subseteq 1 .. written
        <3>1. pc = "ship" /\ chunk \in Intervals
            BY <1>8 DEF SinkStores, SinkRefuses, SinkMoves, TypeOK
        <3>2. Bytes(chunk) \subseteq 1 .. written
            BY <3>1 DEF ChunkInv, TypeOK, Bytes, Intervals
        <3> QED BY <1>8, <3>2 DEF SinkStores, SinkRefuses, SinkMoves, sinkVars, TypeOK
    <2>2. TypeOK'
        BY <1>8, <2>1 DEF SinkStores, SinkRefuses, SinkMoves, TypeOK, fileVars, readVars,
                          sinkVars
    <2>3. PlaceInv' /\ ChunkInv'
        BY <1>8 DEF SinkStores, SinkRefuses, SinkMoves, fileVars, readVars, PlaceInv,
                    ChunkInv, Renamed, Kept, Begins
    <2> QED BY <2>2, <2>3
<1>9. CASE ShipOk
    <2>1. sunk' \subseteq 1 .. written /\ diverted' \subseteq 1 .. written
        <3>1. pc = "ship" /\ chunk \in Intervals
            BY <1>9 DEF ShipOk, TypeOK
        <3>2. Bytes(chunk) \subseteq 1 .. written
            BY <3>1 DEF ChunkInv, TypeOK, Bytes, Intervals
        <3> QED BY <1>9, <3>2 DEF ShipOk, TypeOK
    <2>2. DecodedLength(chunk) \in Nat
        BY <1>9, DecodedSmall DEF ShipOk, TypeOK, ChunkInv
    <2>3. counters' \in [readFails : 0 .. MaxErrors, shipOks : Nat,
                         shipFails : Nat, shipped : Nat]
        <3>1. /\ counters.shipOks + 1 \in Nat
              /\ counters.shipped + DecodedLength(chunk) \in Nat
            BY <2>2 DEF TypeOK
        <3> DEFINE more == counters.shipped + DecodedLength(chunk)
        <3>2. counters' = [counters EXCEPT !.shipOks = counters.shipOks + 1,
                                           !.shipped = more]
            BY <1>9 DEF ShipOk
        <3> HIDE DEF more
        <3> QED BY <3>1, <3>2 DEF TypeOK, more
    <2>4. TypeOK'
        BY <1>9, <2>1, <2>3 DEF ShipOk, Shipped, TypeOK, fileVars, readVars
    <2>5. PlaceInv' /\ ChunkInv'
        BY <1>9 DEF ShipOk, Shipped, fileVars, readVars, PlaceInv, ChunkInv,
                    Renamed, Kept, Begins
    <2> QED BY <2>4, <2>5
<1>10. CASE ShipFail
    <2>1. counters' \in [readFails : 0 .. MaxErrors, shipOks : Nat,
                         shipFails : Nat, shipped : Nat]
        BY <1>10 DEF ShipFail, FailureCounted, TypeOK, Count
    <2>2. TypeOK'
        BY <1>10, <2>1 DEF ShipFail, Shipped, TypeOK, fileVars, readVars
    <2>3. PlaceInv' /\ ChunkInv'
        BY <1>10 DEF ShipFail, Shipped, fileVars, readVars, PlaceInv, ChunkInv,
                     Renamed, Kept, Begins
    <2> QED BY <2>2, <2>3
<1>11. CASE UNCHANGED vars
    <2>1. TypeOK' BY <1>11 DEF vars, fileVars, readVars, TypeOK
    <2>2. PlaceInv' /\ ChunkInv'
        BY <1>11 DEF vars, fileVars, readVars, PlaceInv, ChunkInv, Renamed, Kept, Begins
    <2> QED BY <2>1, <2>2
<1> QED BY <1>1, <1>2, <1>3, <1>4, <1>5, <1>6, <1>7, <1>8, <1>9, <1>10, <1>11
        DEF Next

LEMMA Invariant == Spec => []IInv
BY InitInv, StepKeeps, PTL DEF Spec

-----------------------------------------------------------------------------
(***************************************************************************)
(* What is counted has arrived                                             *)
(***************************************************************************)
\* The last byte of this life whose chunk is done with.
Settled == IF pc = "ship" THEN before ELSE lastRead

\* What is in the sink or was diverted.
Reached == sunk \union diverted
Arrived(n) == Cardinality(Reached \intersect (1 .. n))
Allowance == 4 * (CharWidth - 1) * counters.shipOks

CountInv ==
    /\ counters.shipped <= Arrived(Settled) + Allowance
    /\ pc = "ship" /\ answer = "ok" => Bytes(chunk) \subseteq sunk
    /\ sink # "http" => answer = "none"
    /\ pc # "ship" => answer = "none"

LEMMA ArrivedType ==
    ASSUME NEW S \in SUBSET Nat, NEW n \in Nat
    PROVE  /\ IsFiniteSet(S \intersect (1 .. n))
           /\ Cardinality(S \intersect (1 .. n)) \in Nat
<1>1. IsFiniteSet(1 .. n)
    BY FS_Interval
<1> QED BY <1>1, FS_Subset, FS_CardinalityType

\* More has arrived when more is looked at, or more was stored.
LEMMA ArrivedGrows ==
    ASSUME NEW S \in SUBSET Nat, NEW T \in SUBSET Nat, S \subseteq T,
           NEW m \in Nat, NEW n \in Nat, m <= n
    PROVE  Cardinality(S \intersect (1 .. m)) <= Cardinality(T \intersect (1 .. n))
<1>1. S \intersect (1 .. m) \subseteq T \intersect (1 .. n)
    OBVIOUS
<1> QED BY <1>1, ArrivedType, FS_Subset

\* A chunk that has arrived adds its length.
LEMMA ChunkArrives ==
    ASSUME NEW S \in SUBSET Nat, NEW m \in Nat, NEW l \in Nat, NEW h \in Nat,
           m < l, l <= h, l .. h \subseteq S
    PROVE  Cardinality(S \intersect (1 .. m)) + (h - l + 1)
               <= Cardinality(S \intersect (1 .. h))
<1> DEFINE old == S \intersect (1 .. m)
           new == l .. h
<1>1. IsFiniteSet(old) /\ Cardinality(old) \in Nat
    BY ArrivedType
<1>2. IsFiniteSet(new) /\ Cardinality(new) = h - l + 1
    BY FS_Interval
<1>3. old \intersect new = {}
    OBVIOUS
<1>4. old \union new \subseteq S \intersect (1 .. h)
    OBVIOUS
<1> HIDE DEF old, new
<1>5. Cardinality(old \intersect new) = 0
    BY <1>3, FS_EmptySet
<1>6. Cardinality(old \union new) = Cardinality(old) + (h - l + 1)
    BY <1>1, <1>2, <1>5, FS_Union
<1>7. Cardinality(old \union new) <= Cardinality(S \intersect (1 .. h))
    BY <1>4, ArrivedType, FS_Subset
<1> QED BY <1>6, <1>7 DEF old

LEMMA CountInit == Init => CountInv
<1> SUFFICES ASSUME Init PROVE CountInv
    OBVIOUS
<1>1. Arrived(Settled) \in Nat
    BY ArrivedType DEF Init, Arrived, Settled
<1>2. Allowance = 0 /\ counters.shipped = 0
    BY ConstantAssumption DEF Init, Allowance, ZeroCounters
<1> QED BY <1>1, <1>2 DEF CountInv, Init

LEMMA CountStep == IInv /\ CountInv /\ [Next]_vars => CountInv'
<1> SUFFICES ASSUME IInv, CountInv, [Next]_vars PROVE CountInv'
    OBVIOUS
<1> USE DEF IInv
<1>t. /\ Reached \in SUBSET Nat /\ lastRead \in Nat /\ before \in Nat
      /\ counters.shipped \in Nat /\ counters.shipOks \in Nat
      /\ chunk \in Intervals
    BY DEF TypeOK, Reached
<1>s. Settled \in Nat
    BY <1>t DEF Settled
<1>a. Arrived(Settled) \in Nat /\ Allowance \in Nat
    <2>1. Arrived(Settled) \in Nat
        BY <1>t, <1>s, ArrivedType DEF Arrived
    <2>2. CASE CharWidth = 1
        BY <1>t, <2>1, <2>2 DEF Allowance
    <2>3. CASE CharWidth = 2
        BY <1>t, <2>1, <2>3 DEF Allowance
    <2> QED BY <2>2, <2>3, ConstantAssumption
\* The step leaves the counters, and neither what is settled nor what has
\* arrived shrinks.
<1>g. ASSUME counters' = counters \/ counters' = Count("shipFails")
                 \/ counters' = Count("readFails"),
             Settled' \in Nat, Settled <= Settled', Reached' \in SUBSET Nat,
             Reached \subseteq Reached'
      PROVE  counters'.shipped <= Arrived(Settled)' + Allowance'
    <2>1. counters'.shipped = counters.shipped /\ counters'.shipOks = counters.shipOks
        BY <1>g DEF Count, TypeOK
    <2>2. Arrived(Settled) <= Arrived(Settled)'
        BY <1>g, <1>t, <1>s, ArrivedGrows DEF Arrived
    <2>3. Arrived(Settled)' \in Nat
        BY <1>g, ArrivedType DEF Arrived
    <2>4. Allowance' = Allowance
        BY <2>1 DEF Allowance
    <2> QED BY <1>t, <1>a, <2>1, <2>2, <2>3, <2>4 DEF CountInv
<1>1. CASE Append \/ Truncate \/ Rename \/ Create \/ Start \/ Stat \/ Open
    <2>1. /\ UNCHANGED <<sink, counters, Reached, sunk, chunk, answer, lastRead, before>>
          /\ pc' = "ship" <=> pc = "ship"
        BY <1>1 DEF Append, Truncate, Rename, Create, Start, Stat, Open,
                    readVars, fileVars, sinkVars, Reached
    <2>2. Settled' = Settled
        BY <2>1 DEF Settled
    <2>3. Bytes(chunk)' = Bytes(chunk)
        BY <2>1 DEF Bytes
    <2> QED BY <1>g, <1>t, <1>s, <2>1, <2>2, <2>3 DEF CountInv
<1>2. CASE Crash
    <2>1. counters'.shipped = 0 /\ counters'.shipOks = 0 /\ pc' = "down" /\ lastRead' = 0
          /\ Reached' \in SUBSET Nat /\ answer' = "none"
        BY <1>2, <1>t DEF Crash, ZeroCounters, Reached
    <2>2. Settled' = 0
        BY <2>1 DEF Settled
    <2>3. Arrived(Settled)' \in Nat
        BY <1>t, <2>1, <2>2, ArrivedType DEF Arrived
    <2>4. Allowance' = 0
        BY <2>1, ConstantAssumption DEF Allowance
    <2> QED BY <2>1, <2>3, <2>4 DEF CountInv
<1>3. CASE Read
    <2>1. pc = "read" /\ UNCHANGED <<sink, counters, Reached>>
        BY <1>3 DEF Read, sinkVars, Reached
    <2>2. Settled = lastRead
        BY <2>1 DEF Settled
    <2>3. \/ pc' = "ship" /\ before' = lastRead
          \/ pc' = "poll" /\ lastRead' = lastRead
        BY <1>3 DEF Read
    <2>4. Settled' = Settled
        BY <2>2, <2>3 DEF Settled
    <2>5. answer' = "none"
        BY <1>3, <2>1 DEF Read, CountInv
    <2> QED BY <1>g, <1>t, <1>s, <2>1, <2>4, <2>5 DEF CountInv
<1>4. CASE Missing \/ IoError
    <2>1. /\ pc' = "poll" /\ pc # "ship" /\ UNCHANGED <<sink, Reached, lastRead, answer>>
          /\ counters' = counters \/ counters' = Count("readFails")
        BY <1>4 DEF Missing, IoError, ReadError, sinkVars, Reached
    <2>2. Settled' = Settled
        BY <2>1 DEF Settled
    <2> QED BY <1>g, <1>t, <1>s, <2>1, <2>2 DEF CountInv
<1>5. CASE SinkStores \/ SinkRefuses \/ SinkMoves
    <2>1. /\ pc = "ship" /\ sink = "http"
          /\ UNCHANGED <<sink, counters, pc, before, lastRead, chunk, diverted>>
          /\ \/ sunk' = sunk \union Bytes(chunk) /\ answer' = "ok"
             \/ sunk' = sunk /\ answer' \in {"moved", "err"}
        BY <1>5 DEF SinkStores, SinkRefuses, SinkMoves, readVars, sinkVars
    <2>2. Settled' = Settled
        BY <2>1 DEF Settled
    <2>3. Bytes(chunk)' = Bytes(chunk)
        BY <2>1 DEF Bytes
    <2>4. Bytes(chunk) \subseteq sunk' \/ answer' # "ok"
        BY <2>1
    <2>5. Reached' \in SUBSET Nat
        BY StepKeeps DEF TypeOK, Reached
    <2>6. Reached \subseteq Reached'
        BY <2>1 DEF Reached
    <2> QED BY <1>g, <1>s, <2>1, <2>2, <2>3, <2>4, <2>5, <2>6 DEF CountInv
<1>6. CASE ShipOk
    <2>1. /\ pc = "ship" /\ pc' = "poll" /\ lastRead' = lastRead /\ answer' = "none"
          /\ Reached \subseteq Reached' /\ Bytes(chunk) \subseteq Reached'
        <3>1. CASE answer = "moved"
            BY <1>6, <3>1 DEF ShipOk, Shipped, readVars, Reached, CountInv
        <3>2. CASE answer # "moved"
            BY <1>6, <3>2 DEF ShipOk, Shipped, Accepted, CountInv, readVars, Reached
        <3> QED BY <3>1, <3>2
    <2>2. counters'.shipped = counters.shipped + DecodedLength(chunk)
          /\ counters'.shipOks = counters.shipOks + 1
        BY <1>6 DEF ShipOk, TypeOK
    <2>3. /\ before < chunk.lo /\ chunk.lo <= chunk.hi /\ chunk.hi = lastRead
        BY <2>1 DEF ChunkInv
    <2>4. chunk.lo \in Nat /\ chunk.hi \in Nat
        BY <1>t, ConstantAssumption DEF Intervals
    <2>5. Reached' \in SUBSET Nat
        BY StepKeeps DEF TypeOK, Reached
    <2>6. Settled = before /\ Settled' = chunk.hi
        BY <2>1, <2>3 DEF Settled
    <2>7. Arrived(Settled) <= Cardinality(Reached' \intersect (1 .. before))
        <3>1. Cardinality(Reached \intersect (1 .. before))
                  <= Cardinality(Reached' \intersect (1 .. before))
            BY <1>t, <2>1, <2>5, ArrivedGrows
        <3> QED BY <2>6, <3>1 DEF Arrived
    <2>8. Cardinality(Reached' \intersect (1 .. before)) \in Nat
        BY <1>t, <2>5, ArrivedType
    <2>9. Cardinality(Reached' \intersect (1 .. before)) + Length(chunk)
              <= Arrived(Settled)'
        BY <1>t, <2>1, <2>3, <2>4, <2>5, <2>6, ChunkArrives DEF Arrived, Bytes, Length
    <2>10. Arrived(Settled)' \in Nat
        BY <2>4, <2>5, <2>6, ArrivedType DEF Arrived
    <2>11. DecodedLength(chunk) \in Nat
           /\ DecodedLength(chunk) <= Length(chunk) + 4 * (CharWidth - 1)
        BY <1>t, <2>3, DecodedSmall
    <2>12. Length(chunk) \in Nat
        BY <2>3, <2>4 DEF Length
    <2>13. Allowance' = Allowance + 4 * (CharWidth - 1)
        <3>1. CASE CharWidth = 1 BY <1>t, <2>2, <3>1 DEF Allowance
        <3>2. CASE CharWidth = 2 BY <1>t, <2>2, <3>2 DEF Allowance
        <3> QED BY <3>1, <3>2, ConstantAssumption
    <2>14. counters'.shipped <= Arrived(Settled)' + Allowance'
        <3>1. counters.shipped <= Arrived(Settled) + Allowance
            BY DEF CountInv
        <3>2. 4 * (CharWidth - 1) \in Nat
            BY ConstantAssumption
        <3> QED BY <1>t, <1>a, <2>2, <2>7, <2>8, <2>9, <2>10, <2>11, <2>12, <2>13,
                   <3>1, <3>2
    <2> QED BY <2>1, <2>14 DEF CountInv
<1>7. CASE ShipFail
    <2>1. /\ pc = "ship" /\ pc' = "poll" /\ lastRead' = lastRead /\ answer' = "none"
          /\ UNCHANGED Reached /\ counters' = Count("shipFails")
        BY <1>7 DEF ShipFail, FailureCounted, Shipped, readVars, sinkVars, Reached
    <2>2. Settled = before /\ Settled' = lastRead /\ before <= lastRead
        BY <1>t, <2>1, ConstantAssumption DEF Settled, ChunkInv, Intervals
    <2> QED BY <1>g, <1>t, <2>1, <2>2 DEF CountInv
<1>8. CASE UNCHANGED vars
    <2>1. UNCHANGED <<sink, counters, Reached, sunk, chunk, answer, lastRead, before, pc>>
        BY <1>8 DEF vars, readVars, sinkVars, Reached
    <2>2. Settled' = Settled /\ Bytes(chunk)' = Bytes(chunk)
        BY <2>1 DEF Settled, Bytes
    <2> QED BY <1>g, <1>t, <1>s, <2>1, <2>2 DEF CountInv
<1> QED BY <1>1, <1>2, <1>3, <1>4, <1>5, <1>6, <1>7, <1>8 DEF Next

-----------------------------------------------------------------------------
(***************************************************************************)
(* Nothing is skipped                                                      *)
(***************************************************************************)
LEMMA PaceInit == Init => PaceInv
BY DEF Init, PaceInv, Renamed

LEMMA PaceStep ==
    ~Outgrows /\ IInv /\ PaceInv /\ ResumesExactly /\ [Next]_vars
        => PaceInv' /\ ResumesExactly'
<1> SUFFICES ASSUME ~Outgrows, IInv, PaceInv, ResumesExactly, [Next]_vars
             PROVE  PaceInv' /\ ResumesExactly'
    OBVIOUS
<1> USE ConstantAssumption
<1>i. TypeOK /\ PlaceInv /\ ChunkInv
    BY DEF IInv
<1>n. /\ written \in 0 .. MaxBytes /\ base \in 0 .. written /\ pos \in 0 .. MaxBytes
      /\ offset \in 0 .. MaxBytes /\ lastRead \in 0 .. written /\ before \in 0 .. written
      /\ handle.base \in Nat /\ handle.hi \in Nat /\ handle \in Intervals
    BY <1>i DEF TypeOK, Intervals
<1>1. CASE Append
    <2>1. /\ UNCHANGED <<present, base, pc, readVars, chunk>>
          /\ written' = written + 1 /\ present
          /\ ~MistakenFor(written + 1 - base)
        BY <1>1 DEF Append
    <2>2. PaceInv'
        BY <1>i, <1>n, <2>1 DEF PaceInv, MistakenFor, Renamed, readVars, PlaceInv
    <2> QED BY <2>1, <2>2 DEF ResumesExactly, readVars
<1>2. CASE Truncate
    <2>1. /\ UNCHANGED <<present, written, pc, readVars, chunk>> /\ base' = written
          /\ present
        BY <1>2 DEF Truncate
    <2>2. PaceInv'
        BY <1>n, <2>1 DEF PaceInv, Renamed, readVars
    <2> QED BY <2>1, <2>2 DEF ResumesExactly, readVars
<1>3. CASE Rename
    <2>1. /\ UNCHANGED <<base, written, pc, offset, pos, lastRead, before, chunk>>
          /\ present' = FALSE /\ present
        BY <1>3 DEF Rename
    <2>2. CASE handle = Path
        <3>1. handle'.base = base /\ handle'.hi = written
            BY <1>3, <2>2, IntervalParts DEF Rename
        <3>2. Begins(base)
            BY <1>i, <2>2 DEF PlaceInv
        <3>3. pos = 0 \/ base + pos = lastRead \/ written - base < pos
            BY <1>n, <3>2 DEF Begins, PaceInv
        <3> QED BY <2>1, <3>1, <3>3 DEF PaceInv, ResumesExactly
    <2>3. CASE handle # Path
        <3>1. handle' = handle
            BY <1>3, <2>3 DEF Rename
        <3> QED BY <2>1, <3>1 DEF PaceInv, ResumesExactly, Renamed
    <2> QED BY <2>2, <2>3
<1>4. CASE Create
    <2>1. /\ UNCHANGED <<written, pc, readVars, chunk>> /\ base' = written
          /\ present' = TRUE
        BY <1>4 DEF Create
    <2>2. PaceInv'
        BY <1>n, <2>1 DEF PaceInv, Renamed, readVars
    <2> QED BY <2>1, <2>2 DEF ResumesExactly, readVars
<1>5. CASE Start \/ Open \/ SinkStores \/ SinkRefuses \/ SinkMoves \/ ShipOk \/ ShipFail
    <2>1. /\ UNCHANGED <<present, base, written, offset, pos, lastRead, before>>
          /\ chunk' = chunk \/ pc' # "ship"
          /\ pc' = "ship" => pc = "ship"
          /\ handle' = handle \/ handle' = Path
        <3>1. CASE Start \/ Open
            BY <3>1 DEF Start, Open, fileVars, readVars
        <3>2. CASE SinkStores \/ SinkRefuses \/ SinkMoves
            <4>1. UNCHANGED <<fileVars, pc, readVars, chunk>>
                BY <3>2 DEF SinkStores, SinkRefuses, SinkMoves
            <4> QED BY <4>1 DEF fileVars, readVars
        <3>3. CASE ShipOk \/ ShipFail
            <4>1. pc' = "poll" /\ UNCHANGED <<fileVars, readVars>>
                BY <3>3 DEF ShipOk, ShipFail, Shipped
            <4> QED BY <4>1 DEF fileVars, readVars
        <3> QED BY <1>5, <3>1, <3>2, <3>3
    <2>2. Renamed' => Renamed /\ handle' = handle
        BY <2>1 DEF Renamed
    <2>3. PaceInv'
        BY <2>1, <2>2 DEF PaceInv
    <2> QED BY <2>1, <2>3 DEF ResumesExactly
<1>6. CASE Crash
    BY <1>6 DEF Crash, DropLocals, fileVars, PaceInv, ResumesExactly, Renamed
<1>7. CASE Stat
    <2>1. handle = NoFile
        BY <1>7, <1>i DEF Stat, PlaceInv
    <2> QED BY <1>7, <2>1 DEF Stat, fileVars, PaceInv, ResumesExactly, Renamed
<1>8. CASE Missing \/ IoError
    <2>1. ReadError
        BY <1>8 DEF Missing, IoError
    <2> QED BY <2>1 DEF ReadError, DropLocals, fileVars, PaceInv, ResumesExactly, Renamed
<1>9. CASE Read
    <2>1. PICK b \in 0 .. written, e \in 0 .. written :
              /\ Rest = Interval(b, b + pos + 1, e)
              /\ b <= e
              /\ Begins(b)
              /\ handle = Path => b = base /\ e = written
              /\ Renamed => b = handle.base /\ e = handle.hi
              /\ Got = IF e > b + pos THEN e - (b + pos) ELSE 0
        BY <1>i, <1>9, ReadParts DEF Read
    <2>2. Renamed => Kept
        BY <1>i DEF PlaceInv
    <2>3. handle = Path \/ Renamed
        BY <1>i, <1>9 DEF PlaceInv, Read, Renamed
    <2>4. ~Renamed' /\ UNCHANGED <<present, base, written>>
        BY <1>9 DEF Read, DropLocals, Renamed, fileVars
    <2>5. CASE Got > 0
        <3>1. /\ e > b + pos /\ Got = e - (b + pos)
            BY <2>1, <2>5
        <3>2. /\ offset' = e - b /\ lastRead' = e /\ before' = lastRead
              /\ chunk'.base = b /\ chunk'.lo = b + pos + 1
            BY <1>9, <1>n, <2>1, <2>5, <3>1, IntervalParts DEF Read, NextOffset
        <3>3. pos = 0 \/ b + pos = lastRead \/ e - b < pos
            <4>1. CASE handle = Path
                BY <1>n, <2>1, <4>1 DEF Begins, PaceInv
            <4>2. CASE Renamed
                BY <2>1, <4>2 DEF PaceInv
            <4> QED BY <2>3, <4>1, <4>2
        <3>4. (pos = 0 /\ lastRead <= b) \/ b + pos = lastRead
            BY <1>n, <2>1, <3>1, <3>3 DEF Begins
        <3>5. ResumesExactly'
            BY <1>n, <2>1, <3>2, <3>4 DEF ResumesExactly, Larger
        <3>6. e = base + (e - b) \/ written - base < e - b
            <4>1. CASE handle = Path
                BY <1>n, <2>1, <4>1
            <4>2. CASE Renamed
                BY <1>n, <2>1, <3>1, <4>2 DEF PaceInv
            <4> QED BY <2>3, <4>1, <4>2
        <3>7. PaceInv'
            BY <2>4, <3>2, <3>6 DEF PaceInv
        <3> QED BY <3>5, <3>7
    <2>6. CASE ~(Got > 0)
        <3>1. Got = 0
            BY <1>n, <2>1, <2>6
        <3>2. offset' = pos /\ pc' = "poll" /\ lastRead' = lastRead
            BY <1>9, <1>n, <2>6, <3>1 DEF Read, NextOffset
        <3>3. pos > 0 /\ lastRead # base + pos => written - base < pos
            BY <1>n, <2>1 DEF Begins, PaceInv
        <3> QED BY <2>4, <3>2, <3>3 DEF PaceInv, ResumesExactly
    <2> QED BY <2>5, <2>6
<1>10. CASE UNCHANGED vars
    BY <1>10 DEF vars, readVars, fileVars, PaceInv, ResumesExactly, Renamed
<1> QED BY <1>1, <1>2, <1>3, <1>4, <1>5, <1>6, <1>7, <1>8, <1>9, <1>10 DEF Next

-----------------------------------------------------------------------------
(***************************************************************************)
(* The shipper is a tail of the log                                        *)
(***************************************************************************)
\* The bytes in hand.
Hand == IF pc = "ship" THEN Bytes(chunk) ELSE {}
tailVars ==
    <<written, base, lastRead, Hand, sunk, diverted, counters.shipFails>>

LEMMA TailInit == Init => Log!Init
BY DEF Init, Log!Init, ZeroCounters

\* A chunk of at least one byte is in hand while it is shipped.
LEMMA HandFull ==
    ASSUME TypeOK, ChunkInv, pc = "ship"
    PROVE  Hand = Bytes(chunk) /\ Hand # {}
BY ConstantAssumption DEF TypeOK, ChunkInv, Intervals, Hand, Bytes

\* The read takes the next bytes, or finds none.
LEMMA TailRead ==
    ASSUME IInv, ResumesExactly', Read
    PROVE  Log!Take \/ UNCHANGED tailVars
<1> USE ConstantAssumption
<1>i. TypeOK /\ PlaceInv
    BY DEF IInv
<1>n. /\ written \in Nat /\ base \in 0 .. written
      /\ lastRead \in 0 .. written /\ pos \in Nat
    BY <1>i DEF TypeOK
<1>1. PICK b \in 0 .. written, e \in 0 .. written :
          /\ Rest = Interval(b, b + pos + 1, e)
          /\ b <= e
          /\ Begins(b)
          /\ handle = Path => b = base /\ e = written
          /\ Renamed => b = handle.base /\ e = handle.hi
          /\ Got = IF e > b + pos THEN e - (b + pos) ELSE 0
    BY <1>i, ReadParts DEF Read
<1>2. b <= base
    BY <1>i, <1>n, <1>1 DEF PlaceInv, Read, Renamed, Kept
<1>3. /\ pc = "read" /\ UNCHANGED <<written, base, sunk, diverted, counters>>
      /\ Hand = {}
    BY DEF Read, fileVars, sinkVars, Hand
<1>4. CASE Got > 0
    <2>1. /\ pc' = "ship" /\ before' = lastRead /\ lastRead' = e
          /\ chunk'.base = b /\ chunk'.lo = b + pos + 1 /\ chunk'.hi = e
        BY <1>1, <1>4, IntervalParts DEF Read
    <2>2. chunk'.lo = Larger(lastRead, b) + 1
        BY <2>1 DEF ResumesExactly
    <2>3. e > b + pos
        BY <1>1, <1>4
    <2> DEFINE from == chunk'.lo
    <2>4. /\ from \in (lastRead + 1) .. written
          /\ from - 1 = lastRead \/ from - 1 <= base
          /\ lastRead' \in from .. written
        BY <1>n, <1>2, <2>1, <2>2, <2>3 DEF Larger
    <2>5. Hand' = from .. lastRead'
        BY <2>1 DEF Hand, Bytes
    <2> HIDE DEF from
    <2> QED BY <1>3, <2>4, <2>5 DEF Log!Take, Hand
<1>5. CASE ~(Got > 0)
    <2>1. pc' = "poll" /\ UNCHANGED lastRead
        BY <1>5 DEF Read
    <2> QED BY <1>3, <2>1 DEF tailVars, Hand
<1> QED BY <1>4, <1>5

LEMMA TailStep ==
    IInv /\ CountInv /\ ResumesExactly' /\ [Next]_vars
        => [Log!Next]_tailVars
<1> SUFFICES ASSUME IInv, CountInv, ResumesExactly', [Next]_vars
             PROVE  Log!Next \/ UNCHANGED tailVars
    OBVIOUS
<1> USE DEF Log!Next, sinkVars
<1>i. TypeOK /\ ChunkInv
    BY DEF IInv
<1>h. UNCHANGED <<pc, chunk>> => UNCHANGED Hand
    BY DEF Hand, Bytes
<1>1. CASE Append
    <2>1. /\ written' = written + 1
          /\ UNCHANGED <<base, lastRead, pc, chunk, sunk, diverted, counters>>
        BY <1>1 DEF Append, readVars
    <2> QED BY <1>h, <2>1 DEF Log!Write, Hand
<1>2. CASE Truncate \/ Create
    <2>1. /\ base' = written
          /\ UNCHANGED <<written, lastRead, pc, chunk, sunk, diverted, counters>>
        BY <1>2 DEF Truncate, Create, readVars
    <2> QED BY <1>h, <2>1 DEF Log!Rotate, Hand
<1>3. CASE Rename \/ Start \/ Stat \/ Open
    <2>1. /\ UNCHANGED <<written, base, lastRead, chunk, sunk, diverted, counters>>
          /\ pc' = "ship" <=> pc = "ship"
        BY <1>3 DEF Rename, Start, Stat, Open, readVars, fileVars
    <2> QED BY <2>1 DEF tailVars, Hand, Bytes
<1>4. CASE Crash
    <2>1. /\ lastRead' = 0 /\ pc' = "down" /\ counters'.shipFails = 0
          /\ diverted' = {}
          /\ UNCHANGED <<written, base, sunk>>
        BY <1>4 DEF Crash, ZeroCounters, fileVars
    <2>2. Hand' = {}
        BY <2>1 DEF Hand
    <2> QED BY <2>1, <2>2 DEF Log!Restart, Hand
<1>5. CASE Missing \/ IoError
    <2>1. /\ UNCHANGED <<written, base, lastRead, chunk, sunk, diverted>>
          /\ pc # "ship" /\ pc' # "ship"
          /\ counters' = counters \/ counters' = Count("readFails")
        BY <1>5 DEF Missing, IoError, ReadError, fileVars
    <2>2. counters'.shipFails = counters.shipFails
        BY <1>i, <2>1 DEF Count, TypeOK
    <2> QED BY <2>1, <2>2 DEF tailVars, Hand
<1>6. CASE Read
    BY <1>6, TailRead
<1>7. CASE SinkStores
    <2>1. /\ pc = "ship" /\ sunk' = sunk \union Bytes(chunk)
          /\ UNCHANGED <<written, base, lastRead, pc, chunk, diverted, counters>>
        BY <1>7 DEF SinkStores, readVars, fileVars
    <2>2. Hand = Bytes(chunk) /\ Hand # {} /\ Hand' = Hand
        BY <1>i, <1>h, <2>1, HandFull
    <2> QED BY <2>1, <2>2 DEF Log!Deliver, Hand
<1>8. CASE SinkRefuses \/ SinkMoves
    <2>1. UNCHANGED <<written, base, lastRead, pc, chunk, sunk, diverted, counters>>
        BY <1>8 DEF SinkRefuses, SinkMoves, readVars, fileVars
    <2> QED BY <1>h, <2>1 DEF tailVars
<1>9. CASE ShipOk
    <2>1. /\ pc = "ship" /\ pc' = "poll" /\ UNCHANGED <<written, base, lastRead>>
        BY <1>9 DEF ShipOk, Shipped, readVars, fileVars
    <2>2. counters'.shipFails = counters.shipFails
        BY <1>9, <1>i DEF ShipOk, TypeOK
    <2>3. Hand = Bytes(chunk) /\ Hand # {}
        BY <1>i, <2>1, HandFull
    <2>4. Hand' = {}
        BY <2>1 DEF Hand
    <2>5. CASE answer = "moved"
        <3>1. diverted' = diverted \union Bytes(chunk) /\ sunk' = sunk
            BY <1>9, <2>5 DEF ShipOk, CountInv
        <3> QED BY <2>1, <2>2, <2>3, <2>4, <3>1 DEF Log!Divert, Hand
    <2>6. CASE answer # "moved"
        <3>1. diverted' = diverted /\ sunk' = sunk \union Bytes(chunk)
            BY <1>9, <2>1, <2>6 DEF ShipOk, Accepted, CountInv
        <3> QED BY <2>1, <2>2, <2>3, <2>4, <3>1 DEF Log!Deliver, Hand
    <2> QED BY <2>5, <2>6
<1>10. CASE ShipFail
    <2>1. /\ pc = "ship" /\ pc' = "poll"
          /\ UNCHANGED <<written, base, lastRead, sunk, diverted>>
        BY <1>10 DEF ShipFail, Shipped, readVars, fileVars
    <2>2. counters'.shipFails = counters.shipFails + 1
        BY <1>10, <1>i DEF ShipFail, FailureCounted, Count, TypeOK
    <2>3. Hand # {} /\ Hand' = {}
        BY <1>i, <2>1, HandFull DEF Hand
    <2> QED BY <2>1, <2>2, <2>3 DEF Log!GiveUp, Hand
<1>11. CASE UNCHANGED vars
    <2>1. UNCHANGED <<written, base, lastRead, pc, chunk, sunk, diverted, counters>>
        BY <1>11 DEF vars, readVars, fileVars
    <2> QED BY <1>h, <2>1 DEF tailVars
<1> QED BY <1>1, <1>2, <1>3, <1>4, <1>5, <1>6, <1>7, <1>8, <1>9, <1>10, <1>11
        DEF Next

\* In the tail, what is taken was written, and no loss goes uncounted.
TailInv ==
    /\ written \in Nat
    /\ base \in 0 .. written
    /\ lastRead \in 0 .. written
    /\ counters.shipFails \in Nat
    /\ Log!NothingLost

LEMMA TailLosesNothing == Log!Spec => []Log!NothingLost
<1>1. Log!Init => TailInv
    BY DEF Log!Init, TailInv, Log!NothingLost
<1>2. TailInv /\ [Log!Next]_tailVars => TailInv'
    <2> SUFFICES ASSUME TailInv, [Log!Next]_tailVars PROVE TailInv'
        OBVIOUS
    <2> USE DEF TailInv, Log!NothingLost
    <2>1. CASE Log!Write
        BY <2>1 DEF Log!Write
    <2>2. CASE Log!Rotate
        BY <2>2 DEF Log!Rotate
    <2>3. CASE Log!Take
        BY <2>3 DEF Log!Take
    <2>4. CASE Log!Deliver
        BY <2>4 DEF Log!Deliver
    <2>5. CASE Log!GiveUp
        BY <2>5 DEF Log!GiveUp
    <2>8. CASE Log!Divert
        BY <2>8 DEF Log!Divert
    <2>6. CASE Log!Restart
        BY <2>6 DEF Log!Restart
    <2>7. CASE UNCHANGED tailVars
        BY <2>7 DEF tailVars, Hand
    <2> QED BY <2>1, <2>2, <2>3, <2>4, <2>5, <2>6, <2>7, <2>8 DEF Log!Next
<1>3. TailInv => Log!NothingLost
    BY DEF TailInv
<1> QED BY <1>1, <1>2, <1>3, PTL DEF Log!Spec, Log!vars, tailVars, Hand

-----------------------------------------------------------------------------
(***************************************************************************)
(* The theorems                                                            *)
(***************************************************************************)
\* The task's state keeps its types: the offset never leaves what a file held.
THEOREM TypeCorrect == Spec => []TypeOK
<1>1. IInv => TypeOK
    BY DEF IInv
<1> QED BY Invariant, <1>1, PTL

\* What is counted as shipped has arrived or was redirected, whatever rotation
\* does.
THEOREM ShippedOrDivertedCorrect == Spec => []ShippedOrDiverted
<1>1. IInv /\ CountInv => ShippedOrDiverted
    <2> SUFFICES ASSUME IInv, CountInv PROVE ShippedOrDiverted
        OBVIOUS
    <2>1. /\ Reached \subseteq 1 .. written /\ written \in Nat /\ Settled \in Nat
          /\ counters.shipped \in Nat /\ counters.shipOks \in Nat
        <3>1. /\ Reached \subseteq 1 .. written /\ written \in Nat
              /\ lastRead \in Nat /\ before \in Nat
              /\ counters.shipped \in Nat /\ counters.shipOks \in Nat
            BY DEF IInv, TypeOK, Reached
        <3> QED BY <3>1 DEF Settled
    <2>2. IsFiniteSet(Reached)
        <3>1. IsFiniteSet(1 .. written)
            BY <2>1, FS_Interval
        <3> QED BY <2>1, <3>1, FS_Subset
    <2>3. Arrived(Settled) <= Cardinality(Reached)
        <3>1. Reached \intersect (1 .. Settled) \subseteq Reached
            OBVIOUS
        <3> QED BY <2>2, <3>1, FS_Subset DEF Arrived
    <2>4. Arrived(Settled) \in Nat /\ Cardinality(Reached) \in Nat
        <3>1. Reached \in SUBSET Nat
            BY <2>1
        <3> QED BY <2>1, <2>2, <3>1, ArrivedType, FS_CardinalityType DEF Arrived
    <2>5. Allowance \in Nat
        <3>1. CASE CharWidth = 1 BY <2>1, <3>1 DEF Allowance
        <3>2. CASE CharWidth = 2 BY <2>1, <3>2 DEF Allowance
        <3> QED BY <3>1, <3>2, ConstantAssumption
    <2>6. counters.shipped <= Cardinality(Reached) + Allowance
        BY <2>1, <2>3, <2>4, <2>5 DEF CountInv
    <2> QED BY <2>6 DEF ShippedOrDiverted, Allowance, Reached
<1> QED BY Invariant, CountInit, CountStep, <1>1, PTL DEF Spec

\* Where rotation is seen in time, no byte is skipped and none is read twice.
THEOREM ResumesExactlyCorrect ==
    ASSUME ~Outgrows
    PROVE  Spec => []ResumesExactly
<1>1. Init => ResumesExactly
    BY DEF Init, ResumesExactly
<1>2. IInv /\ PaceInv /\ ResumesExactly /\ [Next]_vars => PaceInv' /\ ResumesExactly'
    BY PaceStep
<1> QED BY Invariant, PaceInit, <1>1, <1>2, PTL DEF Spec

\* However files are rotated, no byte is read twice within a life: a chunk
\* begins after everything read before it.
TakenOnce == pc = "ship" => before < chunk.lo /\ lastRead \in Bytes(chunk)

THEOREM ReadsOnce == Spec => []TakenOnce
<1>1. IInv => TakenOnce
    BY ConstantAssumption DEF TakenOnce, IInv, TypeOK, ChunkInv, Intervals, Bytes
<1> QED BY Invariant, <1>1, PTL

\* Where rotation is seen in time, the shipper implements a tail of the log:
\* every step takes the next bytes, delivers or diverts them, counts their loss,
\* starts over after a restart, or changes nothing the tail speaks of.
THEOREM TailImplemented ==
    ASSUME ~Outgrows
    PROVE  Spec => ImplementsTail
<1>1. IInv /\ CountInv /\ ResumesExactly' /\ [Next]_vars => [Log!Next]_tailVars
    BY TailStep
<1>2. Spec => []ResumesExactly
    BY ResumesExactlyCorrect
<1> QED BY Invariant, CountInit, CountStep, TailInit, <1>1, <1>2, PTL
        DEF Spec, ImplementsTail, Log!Spec, Log!vars, tailVars, Hand

\* Then a loss shows in the failure counter: while a life has counted none, what
\* it read of the file at the path is in the sink, was redirected or is in hand.
THEOREM NoSilentLoss ==
    ASSUME ~Outgrows
    PROVE  Spec => []Log!NothingLost
BY TailImplemented, TailLosesNothing, PTL DEF ImplementsTail
=============================================================================

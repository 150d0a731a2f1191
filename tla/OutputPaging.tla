---- MODULE OutputPaging ----
(***************************************************************************)
(* Output of processes and how clients page through it.  A job's stream    *)
(* goes to a rolling buffer that forgets its oldest bytes; a finished      *)
(* process leaves a retained prefix in a private file.  A byte is its      *)
(* position in the stream, so what a client received can be compared with  *)
(* what was written.  Offsets never come near 2^64 within the lifetime of  *)
(* a job, so the saturating additions are plain ones.                      *)
(***************************************************************************)
EXTENDS Naturals, Sequences

CONSTANTS Capacity,      \* of the rolling buffer
          InlineMax, RetainedMax,
          Written,       \* how much a process writes at most
          ReadMax        \* the largest range a client may ask for

VARIABLES buffer, total, earliest, closed,   \* RollingBuffer
          kept,                              \* RetainedBytes of a run
          reader,                            \* a client following next_offset
          last                               \* the range it was given last

pagingVars == <<buffer, total, earliest, closed, kept, reader, last>>

ASSUME PagingConstants ==
    /\ {Capacity, InlineMax, RetainedMax, Written, ReadMax} \subseteq Nat
    /\ InlineMax <= RetainedMax /\ ReadMax > 0

Least(a, b) == IF a < b THEN a ELSE b
Greatest(a, b) == IF a < b THEN b ELSE a
Bytes(from, n) == [i \in 1..n |-> from + i - 1]

NoRange == [bytes |-> <<>>, requested |-> 0, earliest |-> 0, next |-> 0, total |-> 0,
            eof |-> FALSE, gap |-> FALSE, truncated |-> FALSE]

PagingInit ==
    /\ buffer = <<>> /\ total = 0 /\ earliest = 0 /\ closed = FALSE
    /\ kept = [inline |-> <<>>, retained |-> <<>>, inlineCut |-> FALSE, retainedCut |-> FALSE]
    /\ reader = [source |-> "none", offset |-> 0, got |-> <<>>, gaps |-> FALSE, done |-> FALSE]
    /\ last = NoRange

-----------------------------------------------------------------------------
(* Writing.                                                                *)

\* append: all bytes are pushed, then the front is dropped down to capacity.
AppendBytes(n) ==
    LET pushed == buffer \o Bytes(total, n)
        lost == IF Len(pushed) > Capacity THEN Len(pushed) - Capacity ELSE 0
    IN /\ buffer' = SubSeq(pushed, lost + 1, Len(pushed))
       /\ earliest' = earliest + lost
       /\ total' = total + n

\* drain_retained: the inline and the retained prefix, each with its flag.
Drained(n) ==
    LET inline == Least(n, InlineMax - Len(kept.inline))
        retained == Least(n, RetainedMax - Len(kept.retained))
    IN [inline |-> kept.inline \o Bytes(total, inline),
        retained |-> kept.retained \o Bytes(total, retained),
        inlineCut |-> kept.inlineCut \/ inline < n,
        retainedCut |-> kept.retainedCut \/ retained < n]

\* A reader thread gets a chunk.  Jobs and runs have their own readers; one
\* step feeds both, for the comparison is with the same stream.
WriteOutput(n) ==
    /\ ~closed /\ total + n <= Written
    /\ AppendBytes(n) /\ kept' = Drained(n)
    /\ UNCHANGED <<closed, reader, last>>

\* End of file, or a read error: the stream is closed either way.
CloseStream ==
    /\ ~closed /\ closed' = TRUE
    /\ UNCHANGED <<buffer, total, earliest, kept, reader, last>>

-----------------------------------------------------------------------------
(* Reading.                                                                *)

\* Mutant: the bytes are those at the front of the buffer.
RangeFromFront(offset, max) ==
    LET first == Least(Greatest(offset, earliest), total)
        bytes == SubSeq(buffer, 1, Least(max, Len(buffer) - (first - earliest)))
    IN [bytes |-> bytes, requested |-> offset, earliest |-> earliest,
        next |-> first + Len(bytes), total |-> total,
        eof |-> closed /\ first + Len(bytes) >= total,
        gap |-> offset < earliest, truncated |-> earliest > 0]

\* RollingBuffer::read.
RollingRange(offset, max) ==
    LET first == Least(Greatest(offset, earliest), total)
        bytes == SubSeq(buffer, first - earliest + 1,
                        Least(first - earliest + max, Len(buffer)))
    IN [bytes |-> bytes, requested |-> offset, earliest |-> earliest,
        next |-> first + Len(bytes), total |-> total,
        eof |-> closed /\ first + Len(bytes) >= total,
        gap |-> offset < earliest, truncated |-> earliest > 0]

\* validate_managed_job_output, with the range the Hub asked for.
Validated(r, offset, max) ==
    /\ r.requested = offset /\ r.earliest <= r.total /\ r.next <= r.total
    /\ r.total - r.earliest <= Capacity /\ Len(r.bytes) <= max
    /\ r.gap = (offset < r.earliest) /\ r.truncated = (r.earliest > 0)
    /\ ~(r.eof /\ r.next < r.total)
    /\ r.next = Least(Greatest(offset, r.earliest), r.total) + Len(r.bytes)

\* AgentEphemeralDataStore::read_range over the retained bytes of a run.
RetainedRange(offset, max) ==
    LET size == Len(kept.retained)
        bytes == SubSeq(kept.retained, offset + 1, Least(offset + max, size))
    IN [NoRange EXCEPT !.bytes = bytes, !.requested = offset, !.total = size,
                       !.next = offset + Len(bytes), !.eof = offset + Len(bytes) >= size]

Receive(r) ==
    /\ last' = r
    /\ reader' = [reader EXCEPT !.offset = r.next, !.got = @ \o r.bytes,
                                !.gaps = @ \/ r.gap, !.done = r.eof]
    /\ UNCHANGED <<buffer, total, earliest, closed, kept>>

\* A client picks its stream: a running job, or a run whose output was cut
\* and so has a ref.
Follow(source) ==
    /\ reader.source = "none"
    /\ source = "run" => closed /\ kept.inlineCut
    /\ reader' = [reader EXCEPT !.source = source]
    /\ UNCHANGED <<buffer, total, earliest, closed, kept, last>>

\* managed_job_output: a range the Hub does not accept is an error.
PageJob(max) ==
    /\ reader.source = "job" /\ ~reader.done
    /\ IF Validated(RollingRange(reader.offset, max), reader.offset, max)
       THEN Receive(RollingRange(reader.offset, max))
       ELSE UNCHANGED pagingVars

\* read_process_output: the same bytes every time, the total known before.
PageRun(max) ==
    /\ reader.source = "run" /\ ~reader.done
    /\ Receive(RetainedRange(reader.offset, max))

PagingNext ==
    \/ \E n \in 1..Written : WriteOutput(n)
    \/ CloseStream
    \/ \E s \in {"job", "run"} : Follow(s)
    \/ \E max \in 1..ReadMax : PageJob(max) \/ PageRun(max)

PagingSpec == PagingInit /\ [][PagingNext]_pagingVars

-----------------------------------------------------------------------------
(* A client that follows next_offset receives bytes of the stream in        *)
(* order, none twice, and with no gap unless it was told of one             *)
(* (RollingBuffer::read while the buffer forgets).                         *)
InOrderOrTold ==
    \A i, j \in DOMAIN reader.got : i < j =>
        /\ reader.got[i] < reader.got[j]
        /\ ~reader.gaps => reader.got[j] - reader.got[i] = j - i

(* Told the end of the stream, it has every byte that was written, unless   *)
(* it was told of a gap; of a finished run it has exactly what was kept,    *)
(* and the run's own flag says whether that is everything.                 *)
EndMeansAll ==
    reader.done =>
        /\ reader.source = "job" /\ ~reader.gaps => reader.got = Bytes(0, total)
        /\ reader.source = "run" => /\ reader.got = kept.retained
                                    /\ ~kept.retainedCut => reader.got = Bytes(0, total)

(* validate_managed_job_output, which recomputes the range, never refuses   *)
(* what the rolling buffer answers, wherever a client starts.              *)
HonestRangesPass ==
    \A offset \in 0..total, max \in 1..ReadMax : Validated(RollingRange(offset, max), offset, max)

\* A reader of output gets it in order or is told of the gap, is told the end only at
\* the end, and gets no range refused that the device answered honestly.
PagingSafe == InOrderOrTold /\ EndMeansAll /\ HonestRangesPass
====

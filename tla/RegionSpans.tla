----------------------------- MODULE RegionSpans -----------------------------
(***************************************************************************)
(* The byte-level side of the eager data-plane handlers of                 *)
(* src/src/ProviderImpl.hpp on one region of one target: what              *)
(* createRPC, createWriteEagerRPC, writeEagerRPC, readEagerRPC and         *)
(* eraseRPC hand to the backend, and what the backend copies.              *)
(*                                                                         *)
(* A span list is a sequence of <<offset, size>> pairs.  readEagerRPC      *)
(* sizes its reply buffer with std::accumulate over the sizes in size_t    *)
(* (W bits here, so the sum wraps modulo 2^W), then lets the backend copy  *)
(* every span into it.  writeEagerRPC passes buffer.data() to the backend  *)
(* with the spans and never compares buffer.size() with their total.       *)
(*                                                                         *)
(* The backends are not in src/: their region read and write follow the   *)
(* spec (4.1): spans are copied in list order, overlaps allowed, a span    *)
(* past the region's length fails the call.  A byte the backend reads past *)
(* the end of the request buffer is whatever lies there: Garbage.          *)
(***************************************************************************)
EXTENDS Naturals, Sequences, SequencesExt

CONSTANTS
    Data,       \* the byte values clients send
    Zero,       \* the byte a created region is filled with
    Garbage,    \* a byte read from outside any request buffer
    W,          \* width of size_t in bits
    MaxSize,    \* largest region, offset and span size a request names
    MaxSpans,   \* longest span list
    MaxBuf      \* longest inline buffer a client sends

ASSUME Zero \notin Data /\ Garbage \notin Data \cup {Zero}

Word     == 2^W
Byte     == Data \cup {Zero, Garbage}
Span     == (0..MaxSize) \X (0..MaxSize)
SpanList == SeqOf(Span, MaxSpans)
Buffer   == SeqOf(Data, MaxBuf)
NoRegion == <<"none">>     \* the region id names no region (never created, or erased)

VARIABLES
    region, \* the region's bytes, or NoRegion
    last    \* the last handler run: its name, inputs, success and reply bytes

vars == <<region, last>>

Init ==
    /\ region = NoRegion
    /\ last = [op |-> "none", spans |-> <<>>, ok |-> TRUE, data |-> <<>>]

-----------------------------------------------------------------------------
(* Span arithmetic                                                         *)

\* std::accumulate(..., (size_t)0, [](acc, p) { return acc + p.second; })
Accumulate(spans) == FoldLeft(LAMBDA acc, p : (acc + p[2]) % Word, 0, spans)

InRegion(bytes, spans) == \A i \in DOMAIN spans : spans[i][1] + spans[i][2] <= Len(bytes)

\* Byte i of a request buffer as the backend reads it through a raw pointer.
BufByte(buf, i) == IF i <= Len(buf) THEN buf[i] ELSE Garbage

\* Backend::Region::write(spans, data): span by span, in list order, from
\* the buffer cursor c onwards.
RECURSIVE CopyIn(_, _, _, _)
CopyIn(bytes, spans, buf, c) ==
    IF spans = <<>> THEN bytes
    ELSE LET o == Head(spans)[1]
             s == Head(spans)[2]
         IN CopyIn([k \in DOMAIN bytes |->
                      IF o < k /\ k <= o + s THEN BufByte(buf, c + k - o - 1) ELSE bytes[k]],
                   Tail(spans), buf, c + s)

\* Backend::Region::read(spans, data): the spans' bytes one after another,
\* written from the start of a buffer of n bytes; what does not fit lands
\* past its end, and the reply carries the n bytes allocated.
RECURSIVE CopyOut(_, _)
CopyOut(bytes, spans) ==
    IF spans = <<>> THEN <<>>
    ELSE SubSeq(bytes, Head(spans)[1] + 1, Head(spans)[1] + Head(spans)[2])
         \o CopyOut(bytes, Tail(spans))

BackendRead(bytes, spans, n) == SubSeq(CopyOut(bytes, spans), 1, n)

-----------------------------------------------------------------------------
(* The handlers                                                            *)

Reply(op, spans, ok, data) == last' = [op |-> op, spans |-> spans, ok |-> ok, data |-> data]

CreateRPC(size) ==
    /\ region = NoRegion
    /\ region' = [k \in 1..size |-> Zero]
    /\ Reply("create", <<>>, TRUE, <<>>)

\* createWriteEagerRPC(buffer): create(buffer.size()), then
\* region->write({{0, buffer.size()}}, buffer.data(), persist).
CreateWriteEagerRPC(buf) ==
    /\ region = NoRegion
    /\ region' = CopyIn([k \in 1..Len(buf) |-> Zero], <<<<0, Len(buf)>>>>, buf, 1)
    /\ Reply("create_write_eager", <<>>, TRUE, <<>>)

\* writeEagerRPC(region_id, spans, buffer): write(region_id) fails for an
\* unknown region; region->write(spans, buffer.data(), persist).
WriteEagerRPC(spans, buf) ==
    LET ok == region # NoRegion /\ InRegion(region, spans)
    IN /\ region' = IF ok THEN CopyIn(region, spans, buf, 1) ELSE region
       /\ Reply("write_eager", <<>>, ok, <<>>)

\* readEagerRPC(region_id, spans): read(region_id); the accumulated size;
\* result.value().allocate(size); region->read(spans, data).
ReadEagerRPC(spans) ==
    LET ok == region # NoRegion /\ InRegion(region, spans)
    IN /\ Reply("read_eager", spans, ok,
                IF ok THEN BackendRead(region, spans, Accumulate(spans)) ELSE <<>>)
       /\ UNCHANGED region

\* eraseRPC(region_id): (*target)->erase(region_id).
EraseRPC ==
    /\ region' = NoRegion
    /\ Reply("erase", <<>>, region # NoRegion, <<>>)

Next ==
    \/ \E size \in 0..MaxSize : CreateRPC(size)
    \/ \E buf \in Buffer : CreateWriteEagerRPC(buf)
    \/ \E spans \in SpanList : ReadEagerRPC(spans) \/ \E buf \in Buffer : WriteEagerRPC(spans, buf)
    \/ EraseRPC

Spec == Init /\ [][Next]_vars

-----------------------------------------------------------------------------
(* Properties                                                              *)

\* Type invariant: the region never outgrows MaxSize (createRPC sizes it, no
\* write resizes it) and the last reply is well formed.
TypeOK ==
    /\ region = NoRegion \/ region \in SeqOf(Byte, MaxSize)
    /\ last.op \in {"none", "create", "create_write_eager", "write_eager", "read_eager", "erase"}
    /\ last.spans \in SpanList /\ last.ok \in BOOLEAN /\ last.data \in Seq(Byte)

\* No byte of a region comes from outside the buffers clients sent:
\* writeEagerRPC hands buffer.data() to region->write with spans whose
\* total it never checks against buffer.size().
NoForeignBytes ==
    region # NoRegion => \A k \in DOMAIN region : region[k] # Garbage

=============================================================================

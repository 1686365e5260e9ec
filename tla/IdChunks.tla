------------------------------- MODULE IdChunks -------------------------------
(***************************************************************************)
(* How internal/parallel/manager.go splits a table into chunks of primary  *)
(* key ranges: optimizeChunkSize and createIDBasedChunks.                  *)
(*                                                                         *)
(* Keys are int64 in the code.  The arithmetic is exact here: it differs   *)
(* only for a table whose key range exceeds 2^63 - 1.                      *)
(***************************************************************************)
EXTENDS Integers

Smaller(a, b) == IF a < b THEN a ELSE b

\* optimizeChunkSize: smaller chunks for smaller tables.
OptimizeChunkSize(base, totalRows) ==
    IF totalRows < 10000 THEN Smaller(base, 1000)
    ELSE IF totalRows < 100000 THEN Smaller(base, 5000)
    ELSE IF totalRows < 1000000 THEN Smaller(base, 10000)
    ELSE base

\* Chunks of `size' keys, but at least one and at most `limit' of them.  A table
\* that is empty or has one row is one chunk.
ChunkCount(lo, hi, size, limit) ==
    LET n == (hi - lo + 1) \div size
    IN  IF lo = hi \/ n = 0 THEN 1 ELSE Smaller(n, limit)

\* The keys per chunk; the last chunk takes the remainder.
Step(lo, hi, size, limit) == (hi - lo + 1) \div ChunkCount(lo, hi, size, limit)

\* Mutant of EndID: the last chunk is like the others.
EndIDWithoutRest(lo, hi, size, limit, i) == lo + (i + 1) * Step(lo, hi, size, limit)

\* Chunk i holds the keys from StartID up to, and without, EndID.
StartID(lo, hi, size, limit, i) == lo + i * Step(lo, hi, size, limit)

EndID(lo, hi, size, limit, i) ==
    IF i = ChunkCount(lo, hi, size, limit) - 1 THEN hi + 1
    ELSE lo + (i + 1) * Step(lo, hi, size, limit)

\* The keys buildChunkQuery selects for chunk i.
InChunk(lo, hi, size, limit, i, id) ==
    StartID(lo, hi, size, limit, i) <= id /\ id < EndID(lo, hi, size, limit, i)

=============================================================================

----------------------------- MODULE ReadRange ------------------------------
(***************************************************************************)
(* How a read fills a response of at most about limit bytes from the       *)
(* records below the tail: readRange and its two assemblers (read.go), and *)
(* the cached read that must agree with them (livecache.go).               *)
(*                                                                         *)
(* size[i] is the length of record i - 1 of the log, the concatenation of  *)
(* a stream's segments; a byte is the pair of its record and its index.    *)
(***************************************************************************)
EXTENDS Integers, Sequences

Offset(s, b) == [seq |-> s, byte |-> b]
Bytes(s, from, n) == [i \in 1..n |-> <<s, from + i>>]
Page(body, next, tail) ==
  [body |-> body, next |-> next, upToDate |-> next.seq >= tail]

\* A scan of the records from .. tail - 1 that the log holds, folding Take.
Scan(size, from, tail, init, Take(_, _)) ==
  LET hi == IF tail < Len(size) THEN tail ELSE Len(size)
      f[s \in from..hi] == IF s = from THEN init
                           ELSE CHOOSE r \in {Take(acc, s - 1) : acc \in {f[s - 1]}} : TRUE
  IN IF hi <= from THEN init ELSE f[hi]

readSegmentsBinary_noSkip(size, start, tail, limit) ==
  LET Take(acc, s) ==
        LET avail == size[s + 1]
            room == limit - Len(acc.body)
        IN IF Len(acc.body) >= limit THEN acc
           ELSE IF avail <= room
             THEN [body |-> acc.body \o Bytes(s, 0, avail), next |-> Offset(s + 1, 0)]
             ELSE [body |-> acc.body \o Bytes(s, 0, room), next |-> Offset(s, room)]
      r == Scan(size, start.seq, tail, [body |-> << >>, next |-> start], Take)
  IN Page(r.body, r.next, tail)
\* readSegmentsBinary: a record that does not fit is cut, and the next offset
\* points into it.
readSegmentsBinary(size, start, tail, limit) ==
  LET Take(acc, s) ==
        LET skip == IF s # start.seq THEN 0
                    ELSE IF start.byte > size[s + 1] THEN size[s + 1] ELSE start.byte
            avail == size[s + 1] - skip
            room == limit - Len(acc.body)
        IN IF Len(acc.body) >= limit THEN acc
           ELSE IF avail <= room
             THEN [body |-> acc.body \o Bytes(s, skip, avail), next |-> Offset(s + 1, 0)]
             ELSE [body |-> acc.body \o Bytes(s, skip, room), next |-> Offset(s, skip + room)]
      r == Scan(size, start.seq, tail, [body |-> << >>, next |-> start], Take)
  IN Page(r.body, r.next, tail)

readSegmentsJSON_capped(size, start, tail, limit) ==
  LET Take(acc, s) ==
        IF acc.stop \/ Len(acc.body) + size[s + 1] > limit
          THEN [acc EXCEPT !.stop = TRUE]
          ELSE LET b == acc.body \o Bytes(s, 0, size[s + 1])
               IN [body |-> b, next |-> s + 1, any |-> TRUE, stop |-> Len(b) >= limit]
      r == Scan(size, start.seq, tail,
                [body |-> << >>, next |-> start.seq, any |-> FALSE, stop |-> FALSE], Take)
  IN Page(r.body, Offset(r.next, 0), tail)
\* readSegmentsJSON: whole messages, at least one whatever its length.
readSegmentsJSON(size, start, tail, limit) ==
  LET Take(acc, s) ==
        IF \/ acc.stop
           \/ acc.any /\ Len(acc.body) + size[s + 1] > limit
          THEN [acc EXCEPT !.stop = TRUE]
          ELSE LET b == acc.body \o Bytes(s, 0, size[s + 1])
               IN [body |-> b, next |-> s + 1, any |-> TRUE, stop |-> Len(b) >= limit]
      r == Scan(size, start.seq, tail,
                [body |-> << >>, next |-> start.seq, any |-> FALSE, stop |-> FALSE], Take)
  IN Page(r.body, Offset(r.next, 0), tail)

readRange(json, size, start, tail, limit) ==
  IF start.seq >= tail THEN [body |-> << >>, next |-> start, upToDate |-> TRUE]
  ELSE IF json THEN readSegmentsJSON(size, start, tail, limit)
  ELSE readSegmentsBinary(size, start, tail, limit)

-----------------------------------------------------------------------------
\* liveCache.tryRead's results: a page, or "fall back to the store".
Hit(p) == [ok |-> TRUE, page |-> p]
Miss(start) == [ok |-> FALSE, page |-> [body |-> << >>, next |-> start, upToDate |-> FALSE]]

Whole(size, from, to) ==
  Scan(size, from, to, << >>, LAMBDA b, s : b \o Bytes(s, 0, size[s + 1]))

tryRead_atLimit(size, lo, hi, start, tail, limit) ==
  IF \/ start.byte # 0 \/ start.seq >= tail
     \/ lo >= hi \/ start.seq < lo \/ tail > hi
     \/ Len(Whole(size, start.seq, tail)) > limit
    THEN Miss(start)
    ELSE Hit(Page(Whole(size, start.seq, tail), Offset(tail, 0), tail))
\* liveCache.tryRead with the window lo .. hi - 1.
tryRead(size, lo, hi, start, tail, limit) ==
  IF \/ start.byte # 0 \/ start.seq >= tail
     \/ lo >= hi \/ start.seq < lo \/ tail > hi
     \/ Len(Whole(size, start.seq, tail)) >= limit
    THEN Miss(start)
    ELSE Hit(Page(Whole(size, start.seq, tail), Offset(tail, 0), tail))
=============================================================================

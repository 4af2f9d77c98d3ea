------------------------- MODULE GoatMalloc_proofs -------------------------
(***************************************************************************)
(* Proofs about GoatMalloc, for every size of header, page, arena and       *)
(* request.                                                                 *)
(***************************************************************************)
EXTENDS GoatMalloc, TLAPS

(* A well-formed list tiles the arena, and no header, not even that of an
   empty block, reaches the end of it. *)
HasRoom(N, top) == \A h \in DOMAIN N : h + HeaderSize < top

GoodList(N, top) ==
    /\ DOMAIN N \subseteq Nat /\ N \in [DOMAIN N -> Chunk]
    /\ Tiles(N, top)
    /\ HasRoom(N, top)

Allocated(N) == {h \in DOMAIN N : ~N[h].is_free}

(* No free chunk has a free neighbour, but for the two pairs h is part of.   *)
CoalescedBut(N, h) ==
    \A g \in DOMAIN N : g # h /\ N[g].is_free /\ N[g].fwd # h => ~IsFree(N, N[g].fwd)
AllCoalesced(N) == \A g \in DOMAIN N : N[g].is_free => ~IsFree(N, N[g].fwd)

-----------------------------------------------------------------------------
(* What each operation does to a well-formed list.                          *)

LEMMA ListFacts ==
    ASSUME NEW N, NEW top \in Nat, GoodList(N, top), NEW h \in DOMAIN N
    PROVE  /\ HeaderSize \in Nat /\ HeaderSize > 0
           /\ h \in Nat /\ N[h].size \in Nat /\ N[h].is_free \in BOOLEAN
           /\ End(N, h) = h + HeaderSize + N[h].size
           /\ N[h].fwd = NULL \/ N[h].fwd \in DOMAIN N
           /\ N[h].fwd # NULL => /\ N[h].fwd \in DOMAIN N /\ N[h].fwd \in Nat
                                 /\ N[h].fwd = End(N, h) /\ N[h].fwd > h
                                 /\ N[N[h].fwd].bwd = h
           /\ N[h].fwd = NULL => End(N, h) = top /\ N[h].size > 0
           /\ h = 0 => N[h].bwd = NULL
           /\ h # 0 => N[h].bwd \in DOMAIN N /\ N[N[h].bwd].fwd = h
           /\ h # NULL
           /\ End(N, h) <= top /\ h + HeaderSize < top
<1>1. HeaderSize \in Nat /\ HeaderSize > 0
  BY SizesAssumption
<1>2. h \in Nat /\ N[h] \in Chunk
  BY DEF GoodList
<1>3. LinkedForward(N, top, h) /\ LinkedBack(N, h) /\ h + HeaderSize < top
  BY DEF GoodList, Tiles, HasRoom
<1>4. N[h].size \in Nat /\ N[h].is_free \in BOOLEAN
  BY <1>2 DEF Chunk
<1>5. N[h].fwd # NULL => N[h].fwd \in Nat /\ N[h].fwd + HeaderSize < top
  BY <1>3 DEF GoodList, HasRoom, LinkedForward
<1> QED BY <1>1, <1>2, <1>3, <1>4, <1>5 DEF LinkedForward, LinkedBack, End, NULL

(* M is N but for h, which has swallowed the chunk behind it.                *)
Merged(M, N, h) ==
    LET next == N[h].fwd
    IN  /\ DOMAIN M = (DOMAIN N) \ {next} /\ h \in DOMAIN M
        /\ M[h].size = N[h].size + HeaderSize + N[next].size
        /\ M[h].fwd = N[next].fwd
        /\ \A g \in DOMAIN M : /\ M[g].is_free = N[g].is_free
                               /\ g # h => M[g].size = N[g].size /\ M[g].fwd = N[g].fwd

LEMMA MergeNextGood ==
    ASSUME NEW N, NEW top \in Nat, GoodList(N, top), NEW h \in DOMAIN N, N[h].fwd # NULL
    PROVE  GoodList(MergeNext(N, h), top) /\ Merged(MergeNext(N, h), N, h)
<1> DEFINE next  == N[h].fwd
           after == N[next].fwd
           M     == MergeNext(N, h)
<1>1. /\ next \in DOMAIN N /\ next > h /\ next = End(N, h) /\ N[next].bwd = h
      /\ h \in Nat /\ next \in Nat
  BY ListFacts
<1>2. /\ after # NULL => after \in DOMAIN N /\ after > next /\ after = End(N, next)
                         /\ N[after].bwd = next
      /\ after = NULL => End(N, next) = top /\ N[next].size > 0
      /\ after \in Nat \cup {NULL} /\ N[next].size \in Nat
  <2>1. next \in Nat /\ N[next] \in Chunk
    BY <1>1 DEF GoodList
  <2>2. after \in Nat \cup {NULL} /\ N[next].size \in Nat
    BY <2>1 DEF Chunk
  <2> HIDE DEF next
  <2> QED BY <1>1, <2>2, ListFacts
<1>3. /\ DOMAIN M = (DOMAIN N) \ {next}
      /\ \A g \in DOMAIN M : M[g] =
            IF g = h THEN [size |-> N[h].size + HeaderSize + N[next].size,
                           is_free |-> N[h].is_free, fwd |-> after, bwd |-> N[h].bwd]
            ELSE IF g = after THEN WithBwd(N[g], h) ELSE N[g]
  BY DEF MergeNext
<1>4. M \in [DOMAIN M -> Chunk]
  <2>1. N[h] \in Chunk /\ h \in Nat /\ HeaderSize \in Nat
    BY ListFacts DEF GoodList
  <2>2. \A g \in DOMAIN M : M[g] \in Chunk
    <3> TAKE g \in DOMAIN M
    <3>1. g \in DOMAIN N /\ N[g] \in Chunk
      BY <1>3 DEF GoodList
    <3> HIDE DEF M, next, after
    <3> QED BY <1>2, <1>3, <2>1, <3>1 DEF Chunk, WithBwd
  <2>3. M = [g \in DOMAIN M |-> M[g]]
    BY DEF MergeNext
  <2> HIDE DEF M
  <2> QED BY <2>2, <2>3
<1> HIDE DEF next, after, M
<1>5. h \in DOMAIN M /\ next \notin DOMAIN M /\ \A g \in DOMAIN M : g \in DOMAIN N /\ g \in Nat
  BY <1>1, <1>3 DEF GoodList
<1>6. /\ M[h].size = N[h].size + HeaderSize + N[next].size
      /\ M[h].fwd = after /\ M[h].bwd = N[h].bwd
  BY <1>3, <1>5
<1>7. \A g \in DOMAIN M : /\ M[g].is_free = N[g].is_free
                          /\ g # h => /\ M[g].size = N[g].size /\ M[g].fwd = N[g].fwd
                                      /\ M[g].bwd = IF g = after THEN h ELSE N[g].bwd
  BY <1>3, <1>5 DEF WithBwd
<1>8. End(M, h) = End(N, next) /\ \A g \in DOMAIN M : g # h => End(M, g) = End(N, g)
  <2>1. End(N, h) = h + HeaderSize + N[h].size /\ h \in Nat /\ N[h].size \in Nat
        /\ HeaderSize \in Nat
    BY ListFacts
  <2> QED BY <1>1, <1>2, <1>6, <1>7, <2>1 DEF End
<1>9. ASSUME NEW g \in DOMAIN M PROVE LinkedForward(M, top, g) /\ LinkedBack(M, g)
  <2>0. g \in DOMAIN N /\ g # next /\ g \in Nat
    BY <1>5
  <2>1. LinkedForward(M, top, g)
    <3>1. CASE g = h
      <4>1. CASE after = NULL
        BY <1>2, <1>6, <1>8, <3>1, <4>1 DEF LinkedForward
      <4>2. CASE after # NULL
        <5>1. after \in DOMAIN M /\ after # h /\ M[after].bwd = h
          BY <1>1, <1>2, <1>3, <1>5, <1>7, <4>2
        <5> QED BY <1>2, <1>6, <1>8, <3>1, <4>2, <5>1 DEF LinkedForward
      <4> QED BY <4>1, <4>2
    <3>2. CASE g # h
      <4>1. M[g].fwd = N[g].fwd /\ End(M, g) = End(N, g)
        BY <1>7, <1>8, <3>2
      <4>2. CASE N[g].fwd = NULL
        BY <2>0, <4>1, <4>2, ListFacts DEF LinkedForward
      <4>3. CASE N[g].fwd # NULL
        <5> DEFINE f == N[g].fwd
        <5>1. f \in DOMAIN N /\ f = End(N, g) /\ N[f].bwd = g
          BY <2>0, <4>3, ListFacts
        <5>2. f # next
          BY <1>1, <3>2, <5>1
        <5>3. f # after
          BY <1>2, <2>0, <4>3, <5>1
        <5>4. f \in DOMAIN M
          BY <1>3, <5>1, <5>2
        <5>5. M[f].bwd = g
          <6>1. CASE f = h
            BY <1>6, <5>1, <6>1
          <6>2. CASE f # h
            BY <1>7, <5>1, <5>3, <5>4, <6>2
          <6> QED BY <6>1, <6>2
        <5> QED BY <4>1, <4>3, <5>1, <5>4, <5>5 DEF LinkedForward
      <4> QED BY <4>2, <4>3
    <3> QED BY <3>1, <3>2
  <2>2. LinkedBack(M, g)
    <3>1. CASE g = after
      <4>1. M[g].bwd = h /\ g # 0 /\ g # h
        BY <1>1, <1>2, <1>7, <2>0, <3>1 DEF NULL
      <4> QED BY <1>5, <1>6, <3>1, <4>1 DEF LinkedBack
    <3>2. CASE g # after
      <4>1. M[g].bwd = N[g].bwd
        BY <1>6, <1>7, <3>2
      <4>2. CASE g = 0
        BY <2>0, <4>1, <4>2, ListFacts DEF LinkedBack
      <4>3. CASE g # 0
        <5> DEFINE p == N[g].bwd
        <5>1. p \in DOMAIN N /\ N[p].fwd = g
          BY <2>0, <4>3, ListFacts
        <5>2. p # next /\ p # h
          BY <2>0, <3>2, <5>1 DEF next, after
        <5>3. p \in DOMAIN M /\ M[p].fwd = g
          BY <1>3, <1>7, <5>1, <5>2
        <5> QED BY <4>1, <4>3, <5>3 DEF LinkedBack
      <4> QED BY <4>2, <4>3
    <3> QED BY <3>1, <3>2
  <2> QED BY <2>1, <2>2
<1>10. ASSUME NEW g \in DOMAIN M, NEW f \in DOMAIN M, g > f PROVE g >= End(M, f)
  <2>1. g \in DOMAIN N /\ f \in DOMAIN N /\ g # next
    BY <1>5
  <2>2. g >= End(N, f)
    BY <1>10, <2>1 DEF GoodList, Tiles
  <2>3. CASE f # h
    BY <1>8, <2>2, <2>3
  <2>4. CASE f = h
    <3>1. g > next
      BY <1>1, <1>5, <2>1, <2>2, <2>4
    <3>2. g >= End(N, next)
      BY <1>1, <2>1, <3>1 DEF GoodList, Tiles
    <3> QED BY <1>8, <2>4, <3>2
  <2> QED BY <2>3, <2>4
<1>11. Tiles(M, top)
  <2>1. 0 \in DOMAIN M
    BY <1>1, <1>3 DEF GoodList, Tiles
  <2> QED BY <1>9, <1>10, <2>1 DEF Tiles
<1>12. HasRoom(M, top)
  BY <1>5 DEF GoodList, HasRoom
<1>13. GoodList(M, top)
  BY <1>4, <1>5, <1>11, <1>12 DEF GoodList
<1>14. Merged(M, N, h)
  BY <1>3, <1>5, <1>6, <1>7 DEF Merged, next, after
<1> QED BY <1>13, <1>14 DEF M

LEMMA MarkGood ==
    ASSUME NEW N, NEW top \in Nat, GoodList(N, top), NEW h \in DOMAIN N
    PROVE  /\ GoodList(Mark(N, h), top)
           /\ DOMAIN Mark(N, h) = DOMAIN N
           /\ Mark(N, h)[h].is_free
           /\ \A g \in DOMAIN N :
                /\ Mark(N, h)[g].size = N[g].size
                /\ Mark(N, h)[g].fwd = N[g].fwd /\ Mark(N, h)[g].bwd = N[g].bwd
                /\ g # h => Mark(N, h)[g].is_free = N[g].is_free
<1> DEFINE M == Mark(N, h)
<1>1. N \in [DOMAIN N -> Chunk]
  BY DEF GoodList
<1>2. /\ DOMAIN M = DOMAIN N
      /\ M[h] = [size |-> N[h].size, is_free |-> TRUE, fwd |-> N[h].fwd, bwd |-> N[h].bwd]
      /\ \A g \in DOMAIN N : g # h => M[g] = N[g]
  BY <1>1 DEF Mark
<1>3. M \in [DOMAIN M -> Chunk]
  BY <1>1 DEF Mark, Chunk
<1> HIDE DEF M
<1>4. \A g \in DOMAIN N : M[g].size = N[g].size /\ M[g].fwd = N[g].fwd /\ M[g].bwd = N[g].bwd
  BY <1>2
<1>5. \A g \in DOMAIN N : LinkedForward(M, top, g) /\ LinkedBack(M, g) /\ End(M, g) = End(N, g)
  <2> TAKE g \in DOMAIN N
  <2>1. LinkedForward(N, top, g) /\ LinkedBack(N, g)
    BY DEF GoodList, Tiles
  <2>2. End(M, g) = End(N, g)
    BY <1>4 DEF End
  <2>3. LinkedForward(M, top, g)
    BY <1>2, <1>4, <2>1, <2>2 DEF LinkedForward
  <2>4. LinkedBack(M, g)
    BY <1>2, <1>4, <2>1 DEF LinkedBack
  <2> QED BY <2>2, <2>3, <2>4
<1>6. Tiles(M, top) /\ HasRoom(M, top) /\ DOMAIN M \subseteq Nat
  BY <1>2, <1>5 DEF GoodList, Tiles, HasRoom
<1>7. GoodList(M, top)
  BY <1>3, <1>6 DEF GoodList
<1> QED BY <1>2, <1>4, <1>7 DEF M

(* Cutting a block of size bytes out of h.                                   *)
LEMMA CarveGood ==
    ASSUME NEW N, NEW top \in Nat, GoodList(N, top), NEW h \in DOMAIN N,
           NEW size \in Nat, size <= N[h].size
    PROVE  LET M   == Carve(N, h, size)
               new == h + HeaderSize + size
           IN  /\ GoodList(M, top)
               /\ DOMAIN N \subseteq DOMAIN M /\ DOMAIN M \subseteq (DOMAIN N) \cup {new}
               /\ ~M[h].is_free /\ M[h].size >= size
               /\ \A g \in DOMAIN N : g # h => /\ M[g].is_free = N[g].is_free
                                               /\ M[g].size = N[g].size /\ M[g].fwd = N[g].fwd
               /\ new \in DOMAIN M /\ new \notin DOMAIN N =>
                    M[new].is_free /\ M[new].fwd = N[h].fwd
<1> DEFINE M     == Carve(N, h, size)
           new   == h + HeaderSize + size
           after == N[h].fwd
<1>1. /\ h \in Nat /\ HeaderSize \in Nat /\ HeaderSize > 0 /\ N[h].size \in Nat
      /\ End(N, h) = h + HeaderSize + N[h].size
      /\ End(N, h) <= top
  BY ListFacts
<1>2. N \in [DOMAIN N -> Chunk] /\ N[h] \in Chunk
  BY DEF GoodList
<1>3. CASE ~Splits(N[h].size, size)
  <2>1. M = [N EXCEPT ![h] = [size |-> N[h].size, is_free |-> FALSE, fwd |-> N[h].fwd,
                              bwd |-> N[h].bwd]]
    BY <1>3 DEF Carve
  <2>2. /\ DOMAIN M = DOMAIN N
        /\ M[h] = [size |-> N[h].size, is_free |-> FALSE, fwd |-> N[h].fwd, bwd |-> N[h].bwd]
        /\ \A g \in DOMAIN N : g # h => M[g] = N[g]
    BY <1>2, <2>1
  <2>3. M \in [DOMAIN M -> Chunk]
    BY <1>2, <2>1 DEF Chunk
  <2> HIDE DEF M
  <2>4. \A g \in DOMAIN N : M[g].size = N[g].size /\ M[g].fwd = N[g].fwd /\ M[g].bwd = N[g].bwd
    BY <2>2
  <2>5. \A g \in DOMAIN N : LinkedForward(M, top, g) /\ LinkedBack(M, g) /\ End(M, g) = End(N, g)
    <3> TAKE g \in DOMAIN N
    <3>1. LinkedForward(N, top, g) /\ LinkedBack(N, g)
      BY DEF GoodList, Tiles
    <3>2. End(M, g) = End(N, g)
      BY <2>4 DEF End
    <3>3. LinkedForward(M, top, g)
      BY <2>2, <2>4, <3>1, <3>2 DEF LinkedForward
    <3>4. LinkedBack(M, g)
      BY <2>2, <2>4, <3>1 DEF LinkedBack
    <3> QED BY <3>2, <3>3, <3>4
  <2>6. Tiles(M, top) /\ HasRoom(M, top) /\ DOMAIN M \subseteq Nat
    BY <2>2, <2>5 DEF GoodList, Tiles, HasRoom
  <2>7. GoodList(M, top)
    BY <2>3, <2>6 DEF GoodList
  <2> QED BY <1>1, <2>2, <2>7 DEF M
<1>4. CASE Splits(N[h].size, size)
  <2>1. /\ DOMAIN M = (DOMAIN N) \cup {new}
        /\ \A g \in DOMAIN M : M[g] =
              IF g = h THEN [size |-> size, is_free |-> FALSE, fwd |-> new, bwd |-> N[h].bwd]
              ELSE IF g = new THEN [size |-> N[h].size - size - HeaderSize, is_free |-> TRUE,
                                    fwd |-> after, bwd |-> h]
              ELSE IF g = after THEN WithBwd(N[g], new) ELSE N[g]
        /\ M = [g \in DOMAIN M |-> M[g]]
    BY <1>4 DEF Carve
  <2>2. /\ new \in Nat /\ new > h /\ new + HeaderSize < End(N, h)
        /\ N[h].size - size - HeaderSize \in Nat
    BY <1>1, <1>4 DEF Splits
  <2>3. \A g \in DOMAIN N : g \in Nat /\ (g > h => g >= End(N, h))
    BY DEF GoodList, Tiles
  <2>4. new \notin DOMAIN N
    BY <1>1, <2>2, <2>3
  <2>5. /\ after # NULL => after \in DOMAIN N /\ after = End(N, h) /\ after > new
                           /\ after \in Nat /\ N[after].bwd = h
        /\ after = NULL => End(N, h) = top
        /\ after \in Nat \cup {NULL}
    BY <1>1, <2>2, ListFacts
  <2> HIDE DEF M, new, after
  <2>6. /\ h \in DOMAIN M /\ new \in DOMAIN M /\ h # new
        /\ M[h] = [size |-> size, is_free |-> FALSE, fwd |-> new, bwd |-> N[h].bwd]
        /\ M[new] = [size |-> N[h].size - size - HeaderSize, is_free |-> TRUE, fwd |-> after,
                     bwd |-> h]
    BY <1>1, <2>1, <2>2
  <2>7. \A g \in DOMAIN N : g # h =>
            /\ g \in DOMAIN M /\ g # new
            /\ M[g].is_free = N[g].is_free /\ M[g].size = N[g].size /\ M[g].fwd = N[g].fwd
            /\ M[g].bwd = IF g = after THEN new ELSE N[g].bwd
    <3> TAKE g \in DOMAIN N
    <3> HAVE g # h
    <3>1. g \in DOMAIN M /\ g # new
      BY <2>1, <2>4
    <3>2. M[g] = IF g = after THEN WithBwd(N[g], new) ELSE N[g]
      BY <2>1, <3>1
    <3>3. CASE g = after
      <4>1. M[g] = [size |-> N[g].size, is_free |-> N[g].is_free, fwd |-> N[g].fwd, bwd |-> new]
        BY <3>2, <3>3 DEF WithBwd
      <4> QED BY <3>1, <3>3, <4>1
    <3>4. CASE g # after
      BY <3>1, <3>2, <3>4
    <3> QED BY <3>3, <3>4
  <2>8. M \in [DOMAIN M -> Chunk]
    <3>1. \A g \in DOMAIN M : M[g] \in Chunk
      <4> TAKE g \in DOMAIN M
      <4>0. N[h].bwd \in Nat \cup {NULL}
        BY <1>2 DEF Chunk
      <4>1. CASE g = h
        <5>1. [size |-> size, is_free |-> FALSE, fwd |-> new, bwd |-> N[h].bwd] \in Chunk
          BY <2>2, <4>0 DEF Chunk
        <5> QED BY <2>6, <4>1, <5>1
      <4>2. CASE g = new
        <5>1. [size |-> N[h].size - size - HeaderSize, is_free |-> TRUE, fwd |-> after,
               bwd |-> h] \in Chunk
          BY <1>1, <2>2, <2>5 DEF Chunk
        <5> QED BY <2>6, <4>2, <5>1
      <4>3. CASE g # h /\ g # new
        <5>1. g \in DOMAIN N /\ N[g] \in Chunk
          BY <1>2, <2>1, <4>3
        <5>2. WithBwd(N[g], new) \in Chunk
          BY <2>2, <5>1 DEF Chunk, WithBwd
        <5> QED BY <2>1, <4>3, <5>1, <5>2
      <4> QED BY <4>1, <4>2, <4>3
    <3> QED BY <2>1, <3>1
  <2>9. /\ End(M, h) = new /\ End(M, new) = End(N, h)
        /\ \A g \in DOMAIN N : g # h => End(M, g) = End(N, g)
    <3>1. End(M, h) = new
      BY <2>6 DEF End, new
    <3>2. M[new].size = N[h].size - size - HeaderSize
      BY <2>6
    <3>3. End(M, new) = new + HeaderSize + (N[h].size - size - HeaderSize)
      BY <3>2 DEF End
    <3>4. End(M, new) = End(N, h)
      BY <1>1, <3>3 DEF new
    <3>5. \A g \in DOMAIN N : g # h => End(M, g) = End(N, g)
      BY <2>7 DEF End
    <3> QED BY <3>1, <3>4, <3>5
  <2>10. ASSUME NEW g \in DOMAIN M PROVE LinkedForward(M, top, g) /\ LinkedBack(M, g)
    <3>1. CASE g = h
      <4>1. LinkedForward(M, top, h)
        BY <2>2, <2>6, <2>9 DEF LinkedForward, NULL
      <4>2. LinkedBack(M, h)
        <5>1. CASE h = 0
          BY <2>6, <5>1, ListFacts DEF LinkedBack
        <5>2. CASE h # 0
          <6> DEFINE p == N[h].bwd
          <6>1. p \in DOMAIN N /\ N[p].fwd = h
            BY <5>2, ListFacts
          <6>2. p # h
            BY <1>1, <2>2, <2>5, <6>1 DEF after, NULL
          <6>3. p \in DOMAIN M /\ M[p].fwd = h
            BY <2>7, <6>1, <6>2
          <6> QED BY <2>6, <5>2, <6>3 DEF LinkedBack
        <5> QED BY <5>1, <5>2
      <4> QED BY <3>1, <4>1, <4>2
    <3>2. CASE g = new
      <4>1. LinkedForward(M, top, new)
        <5>1. CASE after = NULL
          BY <2>5, <2>6, <2>9, <5>1 DEF LinkedForward
        <5>2. CASE after # NULL
          <6>1. after \in DOMAIN N /\ after # h /\ after = End(N, h)
            BY <1>1, <2>2, <2>5, <5>2
          <6>2. after \in DOMAIN M /\ M[after].bwd = new
            BY <2>7, <6>1
          <6> QED BY <2>6, <2>9, <5>2, <6>1, <6>2 DEF LinkedForward
        <5> QED BY <5>1, <5>2
      <4>2. LinkedBack(M, new)
        BY <1>1, <2>2, <2>6 DEF LinkedBack
      <4> QED BY <3>2, <4>1, <4>2
    <3>3. CASE g # h /\ g # new
      <4>0. g \in DOMAIN N /\ g \in Nat
        BY <2>1, <2>3, <3>3
      <4>1. M[g].fwd = N[g].fwd /\ End(M, g) = End(N, g)
        BY <2>7, <2>9, <3>3, <4>0
      <4>2. LinkedForward(M, top, g)
        <5>1. CASE N[g].fwd = NULL
          BY <4>0, <4>1, <5>1, ListFacts DEF LinkedForward
        <5>2. CASE N[g].fwd # NULL
          <6> DEFINE f == N[g].fwd
          <6>1. f \in DOMAIN N /\ f = End(N, g) /\ N[f].bwd = g
            BY <4>0, <5>2, ListFacts
          <6>2. f # after
            BY <2>5, <3>3, <5>2, <6>1
          <6>3. f \in DOMAIN M /\ M[f].bwd = g
            BY <2>6, <2>7, <6>1, <6>2
          <6> QED BY <4>1, <5>2, <6>1, <6>3 DEF LinkedForward
        <5> QED BY <5>1, <5>2
      <4>3. LinkedBack(M, g)
        <5>1. CASE g = after
          <6>1. M[g].bwd = new /\ g # 0 /\ M[new].fwd = g
            BY <1>1, <2>2, <2>5, <2>6, <2>7, <3>3, <4>0, <5>1 DEF NULL
          <6> QED BY <2>6, <6>1 DEF LinkedBack
        <5>2. CASE g # after
          <6>1. M[g].bwd = N[g].bwd
            BY <2>7, <3>3, <4>0, <5>2
          <6>2. CASE g = 0
            BY <4>0, <6>1, <6>2, ListFacts DEF LinkedBack
          <6>3. CASE g # 0
            <7> DEFINE p == N[g].bwd
            <7>1. p \in DOMAIN N /\ N[p].fwd = g
              BY <4>0, <6>3, ListFacts
            <7>2. p # h
              BY <5>2, <7>1 DEF after
            <7>3. p \in DOMAIN M /\ M[p].fwd = g
              BY <2>7, <7>1, <7>2
            <7> QED BY <6>1, <6>3, <7>3 DEF LinkedBack
          <6> QED BY <6>2, <6>3
        <5> QED BY <5>1, <5>2
      <4> QED BY <4>2, <4>3
    <3> QED BY <3>1, <3>2, <3>3
  <2>11. ASSUME NEW g \in DOMAIN M, NEW f \in DOMAIN M, g > f PROVE g >= End(M, f)
    <3>1. \A a, b \in DOMAIN N : a > b => a >= End(N, b)
      BY DEF GoodList, Tiles
    <3>2. CASE f = h
      <4>1. CASE g = new
        BY <2>2, <2>9, <3>2, <4>1
      <4>2. CASE g # new
        BY <1>1, <2>1, <2>2, <2>3, <2>9, <2>11, <3>2, <4>2
      <4> QED BY <4>1, <4>2
    <3>3. CASE f = new
      <4>1. g \in DOMAIN N /\ g > h
        BY <1>1, <2>1, <2>2, <2>3, <2>11, <3>3
      <4> QED BY <2>3, <2>9, <3>3, <4>1
    <3>4. CASE f # h /\ f # new
      <4>1. f \in DOMAIN N /\ f \in Nat /\ End(M, f) = End(N, f)
        BY <2>1, <2>3, <2>9, <3>4
      <4>2. CASE g # new
        BY <2>1, <2>11, <3>1, <4>1, <4>2
      <4>3. CASE g = new
        <5>1. f < h
          BY <1>1, <2>2, <2>3, <2>11, <3>4, <4>1, <4>3
        <5>2. h >= End(N, f)
          BY <1>1, <3>1, <4>1, <5>1
        <5>3. End(N, f) = f + HeaderSize + N[f].size /\ N[f].size \in Nat
          BY <4>1, ListFacts
        <5> QED BY <1>1, <2>2, <4>1, <4>3, <5>2, <5>3
      <4> QED BY <4>2, <4>3
    <3> QED BY <3>2, <3>3, <3>4
  <2>12. Tiles(M, top)
    <3>1. 0 \in DOMAIN M
      BY <2>1 DEF GoodList, Tiles
    <3> QED BY <2>10, <2>11, <3>1 DEF Tiles
  <2>13. HasRoom(M, top) /\ DOMAIN M \subseteq Nat
    <3>1. \A g \in DOMAIN N : g \in Nat /\ g + HeaderSize < top
      BY DEF GoodList, HasRoom
    <3>2. new + HeaderSize < top
      BY <1>1, <2>2
    <3> QED BY <2>1, <2>2, <3>1, <3>2 DEF HasRoom
  <2>14. GoodList(M, top)
    BY <2>8, <2>12, <2>13 DEF GoodList
  <2>15. /\ DOMAIN N \subseteq DOMAIN M /\ DOMAIN M \subseteq (DOMAIN N) \cup {new}
         /\ ~M[h].is_free /\ M[h].size >= size
         /\ M[new].is_free /\ M[new].fwd = after
    BY <2>1, <2>6
  <2> QED BY <2>7, <2>14, <2>15 DEF M, new, after
<1> QED BY <1>3, <1>4

-----------------------------------------------------------------------------
(* The allocated chunks, and coalescing.                                    *)

(* The list M has the allocated chunks A and keeps the sizes they had in N.  *)
Keeps(M, N, A) == Allocated(M) = A /\ \A g \in A : M[g].size >= N[g].size

LEMMA MarkFrees ==
    ASSUME NEW N, NEW top \in Nat, GoodList(N, top), AllCoalesced(N), NEW h \in DOMAIN N
    PROVE  Keeps(Mark(N, h), N, Allocated(N) \ {h}) /\ CoalescedBut(Mark(N, h), h)
<1> DEFINE M == Mark(N, h)
<1>1. /\ DOMAIN M = DOMAIN N
      /\ M[h].is_free
      /\ \A g \in DOMAIN N : /\ M[g].size = N[g].size /\ M[g].fwd = N[g].fwd
                             /\ N[g].size \in Nat
                             /\ g # h => M[g].is_free = N[g].is_free
                             /\ N[g].fwd = NULL \/ N[g].fwd \in DOMAIN N
  BY MarkGood, ListFacts
<1> HIDE DEF M
<1>2. Allocated(M) = Allocated(N) \ {h}
  BY <1>1 DEF Allocated
<1>3. \A g \in Allocated(M) : M[g].size >= N[g].size
  BY <1>1, <1>2 DEF Allocated
<1>4. CoalescedBut(M, h)
  BY <1>1 DEF CoalescedBut, AllCoalesced, IsFree
<1> QED BY <1>2, <1>3, <1>4 DEF Keeps, M

(* Swallowing a free chunk frees nothing and takes nothing.                  *)
LEMMA MergeFree ==
    ASSUME NEW N, NEW top \in Nat, GoodList(N, top), NEW h \in DOMAIN N, IsFree(N, N[h].fwd)
    PROVE  Keeps(MergeNext(N, h), N, Allocated(N))
<1> DEFINE M == MergeNext(N, h)
           next == N[h].fwd
<1>0. next # NULL /\ N[next].is_free
  BY DEF IsFree
<1>1. next \in DOMAIN N /\ N[next].size \in Nat /\ N[h].size \in Nat /\ HeaderSize \in Nat
  <2>1. next \in DOMAIN N
    BY <1>0, ListFacts
  <2> QED BY <2>1, ListFacts
<1>2. /\ DOMAIN M = (DOMAIN N) \ {next}
      /\ M[h].size = N[h].size + HeaderSize + N[next].size
      /\ \A g \in DOMAIN M : /\ M[g].is_free = N[g].is_free
                             /\ g # h => M[g].size = N[g].size
  <2>1. Merged(M, N, h)
    BY <1>0, MergeNextGood
  <2> HIDE DEF M
  <2> QED BY <2>1 DEF Merged
<1> HIDE DEF M, next
<1>3. Allocated(M) = Allocated(N)
  BY <1>0, <1>2 DEF Allocated
<1>4. \A g \in Allocated(N) : M[g].size >= N[g].size
  <2> TAKE g \in Allocated(N)
  <2>1. g \in DOMAIN M /\ g \in DOMAIN N
    BY <1>3 DEF Allocated
  <2>2. N[g].size \in Nat
    BY <2>1, ListFacts
  <2>3. CASE g = h
    BY <1>1, <1>2, <2>3
  <2>4. CASE g # h
    BY <1>2, <2>1, <2>2, <2>4
  <2> QED BY <2>3, <2>4
<1> QED BY <1>3, <1>4 DEF Keeps, M

LEMMA CarveAllocates ==
    ASSUME NEW N, NEW top \in Nat, GoodList(N, top), AllCoalesced(N), NEW h \in DOMAIN N,
           ~IsFree(N, N[h].fwd), NEW size \in Nat, size <= N[h].size
    PROVE  /\ Allocated(Carve(N, h, size)) = Allocated(N) \cup {h}
           /\ AllCoalesced(Carve(N, h, size))
           /\ Carve(N, h, size)[h].size >= size
           /\ \A g \in Allocated(N) : g # h => Carve(N, h, size)[g].size = N[g].size
<1> DEFINE M   == Carve(N, h, size)
           new == h + HeaderSize + size
<1>1. /\ GoodList(M, top)
      /\ DOMAIN N \subseteq DOMAIN M /\ DOMAIN M \subseteq (DOMAIN N) \cup {new}
      /\ ~M[h].is_free /\ M[h].size >= size
      /\ \A g \in DOMAIN N : g # h => /\ M[g].is_free = N[g].is_free
                                      /\ M[g].size = N[g].size /\ M[g].fwd = N[g].fwd
      /\ new \in DOMAIN M /\ new \notin DOMAIN N => M[new].is_free /\ M[new].fwd = N[h].fwd
  BY CarveGood
<1>2. \A g \in DOMAIN N : /\ N[g].fwd = NULL \/ N[g].fwd \in DOMAIN N
                          /\ N[g].fwd = g => N[g].fwd = NULL
  <2> TAKE g \in DOMAIN N
  <2>1. /\ g \in Nat /\ (N[g].fwd = NULL \/ N[g].fwd \in DOMAIN N)
        /\ N[g].fwd # NULL => N[g].fwd > g
    BY ListFacts
  <2> QED BY <2>1
<1> HIDE DEF M, new
<1>3. Allocated(M) = Allocated(N) \cup {h}
  BY <1>1 DEF Allocated
<1>4. ASSUME NEW g \in DOMAIN M, M[g].is_free PROVE ~IsFree(M, M[g].fwd)
  <2>1. g # h
    BY <1>1, <1>4
  <2>2. CASE g \in DOMAIN N
    <3>1. N[g].is_free /\ M[g].fwd = N[g].fwd
      BY <1>1, <1>4, <2>1, <2>2
    <3>2. ~IsFree(N, N[g].fwd)
      BY <2>2, <3>1 DEF AllCoalesced
    <3>3. CASE N[g].fwd = NULL
      BY <3>1, <3>3 DEF IsFree
    <3>4. CASE N[g].fwd \in DOMAIN N
      BY <1>1, <3>1, <3>2, <3>4 DEF IsFree
    <3> QED BY <1>2, <2>2, <3>3, <3>4
  <2>3. CASE g \notin DOMAIN N
    <3>1. M[g].fwd = N[h].fwd
      BY <1>1, <2>3
    <3>2. CASE N[h].fwd = NULL
      BY <3>1, <3>2 DEF IsFree
    <3>3. CASE N[h].fwd \in DOMAIN N /\ N[h].fwd # NULL
      <4>1. N[h].fwd # h
        BY <1>2, <3>3
      <4> QED BY <1>1, <3>1, <3>3, <4>1 DEF IsFree
    <3> QED BY <1>2, <3>2, <3>3
  <2> QED BY <2>2, <2>3
<1>5. \A g \in Allocated(N) : g # h => M[g].size = N[g].size
  BY <1>1 DEF Allocated
<1> QED BY <1>1, <1>3, <1>4, <1>5 DEF AllCoalesced, M

(* After the first of wfree's two looks only the pair before h may be free.  *)
LEMMA NextCoalesced ==
    ASSUME NEW N, NEW top \in Nat, GoodList(N, top), NEW h \in DOMAIN N, N[h].is_free,
           CoalescedBut(N, h)
    PROVE  LET M == CoalesceNext(N, h)
           IN  /\ GoodList(M, top) /\ h \in DOMAIN M /\ M[h].is_free
               /\ CoalescedBut(M, h) /\ ~IsFree(M, M[h].fwd)
               /\ Keeps(M, N, Allocated(N))
<1>1. CASE ~IsFree(N, N[h].fwd)
  <2>1. CoalesceNext(N, h) = N
    BY <1>1 DEF CoalesceNext
  <2>2. \A g \in Allocated(N) : N[g].size >= N[g].size
    <3> TAKE g \in Allocated(N)
    <3>1. N[g].size \in Nat
      BY ListFacts DEF Allocated
    <3> QED BY <3>1
  <2> QED BY <1>1, <2>1, <2>2 DEF Keeps
<1>2. CASE IsFree(N, N[h].fwd)
  <2> DEFINE M     == MergeNext(N, h)
             next  == N[h].fwd
             after == N[next].fwd
  <2>1. CoalesceNext(N, h) = M
    BY <1>2 DEF CoalesceNext
  <2>2. next # NULL /\ N[next].is_free
    BY <1>2 DEF IsFree
  <2>3. /\ next \in DOMAIN N /\ next > h /\ next \in Nat /\ h \in Nat
        /\ after # NULL => after \in DOMAIN N /\ after \in Nat /\ after > next
    <3>1. next \in DOMAIN N /\ next > h /\ next \in Nat /\ h \in Nat
      BY <2>2, ListFacts
    <3> QED BY <3>1, ListFacts
  <2>4. /\ GoodList(M, top) /\ DOMAIN M = (DOMAIN N) \ {next} /\ h \in DOMAIN M
        /\ M[h].fwd = after
        /\ \A g \in DOMAIN M : /\ M[g].is_free = N[g].is_free
                               /\ g # h => M[g].fwd = N[g].fwd
    <3>1. GoodList(M, top) /\ Merged(M, N, h)
      BY <2>2, MergeNextGood
    <3> HIDE DEF M
    <3> QED BY <3>1 DEF Merged
  <2>5. Keeps(M, N, Allocated(N))
    BY <1>2, MergeFree
  <2> HIDE DEF M
  <2>6. ~IsFree(M, after)
    <3>1. next # h /\ N[next].fwd # h
      BY <2>3 DEF NULL
    <3>2. ~IsFree(N, after)
      BY <2>2, <2>3, <3>1 DEF CoalescedBut
    <3>3. after # NULL => after \in DOMAIN M
      BY <2>3, <2>4
    <3> QED BY <2>4, <3>2, <3>3 DEF IsFree
  <2>7. CoalescedBut(M, h)
    <3> SUFFICES ASSUME NEW g \in DOMAIN M, g # h, M[g].is_free, M[g].fwd # h
                 PROVE  ~IsFree(M, M[g].fwd)
      BY DEF CoalescedBut
    <3>1. g \in DOMAIN N /\ N[g].is_free /\ M[g].fwd = N[g].fwd
      BY <2>4
    <3>2. ~IsFree(N, N[g].fwd)
      BY <3>1 DEF CoalescedBut
    <3>3. N[g].fwd = NULL \/ N[g].fwd \in DOMAIN N
      BY <3>1, ListFacts
    <3>4. N[g].fwd # next
      BY <1>2, <3>2
    <3> QED BY <2>4, <3>1, <3>2, <3>3, <3>4 DEF IsFree
  <2> QED BY <2>1, <2>4, <2>5, <2>6, <2>7
<1> QED BY <1>1, <1>2

(* The second look takes care of that pair.                                  *)
LEMMA PrevCoalesced ==
    ASSUME NEW N, NEW top \in Nat, GoodList(N, top), NEW h \in DOMAIN N, N[h].is_free,
           CoalescedBut(N, h), ~IsFree(N, N[h].fwd)
    PROVE  LET M == CoalescePrev(N, h)
           IN  GoodList(M, top) /\ AllCoalesced(M) /\ Keeps(M, N, Allocated(N))
<1> DEFINE prev == N[h].bwd
<1>1. /\ h = 0 => prev = NULL
      /\ h # 0 => prev \in DOMAIN N /\ N[prev].fwd = h
  BY ListFacts
<1>2. \A g \in DOMAIN N : N[g].fwd = h => g = prev /\ prev # NULL
  <2> TAKE g \in DOMAIN N
  <2> HAVE N[g].fwd = h
  <2>1. h # NULL /\ g # NULL
    BY ListFacts
  <2>2. N[N[g].fwd].bwd = g
    BY <2>1, ListFacts
  <2> QED BY <2>1, <2>2
<1>3. CASE ~IsFree(N, prev)
  <2>1. CoalescePrev(N, h) = N
    BY <1>3 DEF CoalescePrev
  <2>2. AllCoalesced(N)
    <3> SUFFICES ASSUME NEW g \in DOMAIN N, N[g].is_free PROVE ~IsFree(N, N[g].fwd)
      BY DEF AllCoalesced
    <3>1. CASE g = h
      BY <3>1
    <3>2. CASE N[g].fwd = h
      BY <1>2, <1>3, <3>2 DEF IsFree
    <3>3. CASE g # h /\ N[g].fwd # h
      BY <3>3 DEF CoalescedBut
    <3> QED BY <3>1, <3>2, <3>3
  <2>3. \A g \in Allocated(N) : N[g].size >= N[g].size
    <3> TAKE g \in Allocated(N)
    <3>1. N[g].size \in Nat
      BY ListFacts DEF Allocated
    <3> QED BY <3>1
  <2> QED BY <2>1, <2>2, <2>3 DEF Keeps
<1>4. CASE IsFree(N, prev)
  <2> DEFINE M == MergeNext(N, prev)
  <2>1. CoalescePrev(N, h) = M
    BY <1>4 DEF CoalescePrev
  <2>2. prev \in DOMAIN N /\ N[prev].fwd = h /\ N[prev].is_free
    BY <1>1, <1>4 DEF IsFree
  <2>3. h # NULL /\ IsFree(N, N[prev].fwd)
    BY <2>2, ListFacts DEF IsFree
  <2>4. /\ GoodList(M, top) /\ DOMAIN M = (DOMAIN N) \ {h} /\ prev \in DOMAIN M
        /\ M[prev].fwd = N[h].fwd
        /\ \A g \in DOMAIN M : /\ M[g].is_free = N[g].is_free
                               /\ g # prev => M[g].fwd = N[g].fwd
    <3>1. N[prev].fwd # NULL
      BY <2>2, <2>3
    <3>2. GoodList(M, top) /\ Merged(M, N, prev)
      BY <2>2, <3>1, MergeNextGood
    <3> HIDE DEF M, prev
    <3> QED BY <2>2, <3>2 DEF Merged
  <2>5. Keeps(M, N, Allocated(N))
    BY <2>2, <2>3, MergeFree
  <2> HIDE DEF M, prev
  <2>6. \A g \in DOMAIN N : /\ N[g].fwd = NULL \/ N[g].fwd \in DOMAIN N
                            /\ N[h].fwd # h \/ N[h].fwd = NULL
    <3>1. h \in Nat /\ (N[h].fwd # NULL => N[h].fwd > h /\ N[h].fwd \in Nat)
      BY ListFacts
    <3>2. N[h].fwd # h \/ N[h].fwd = NULL
      BY <3>1
    <3> QED BY <3>2, ListFacts
  <2>7. AllCoalesced(M)
    <3> SUFFICES ASSUME NEW g \in DOMAIN M, M[g].is_free PROVE ~IsFree(M, M[g].fwd)
      BY DEF AllCoalesced
    <3>0. g \in DOMAIN N /\ g # h /\ N[g].is_free
      BY <2>4
    <3>1. CASE g = prev
      BY <2>4, <2>6, <3>0, <3>1 DEF IsFree
    <3>2. CASE g # prev
      <4>1. N[g].fwd # h
        BY <1>2, <3>0, <3>2 DEF prev
      <4>2. ~IsFree(N, N[g].fwd)
        BY <3>0, <4>1 DEF CoalescedBut
      <4> QED BY <2>4, <2>6, <3>0, <3>2, <4>1, <4>2 DEF IsFree
    <3> QED BY <3>1, <3>2
  <2> QED BY <2>1, <2>4, <2>5, <2>7
<1> QED BY <1>3, <1>4

(* wfree gives up one chunk, and leaves a well-formed list in which every
   free chunk has been merged with its neighbours. *)
LEMMA FreedGood ==
    ASSUME NEW N, NEW top \in Nat, GoodList(N, top), AllCoalesced(N), NEW h \in DOMAIN N
    PROVE  /\ GoodList(Freed(N, h), top)
           /\ AllCoalesced(Freed(N, h))
           /\ Keeps(Freed(N, h), N, Allocated(N) \ {h})
<1> DEFINE A == Mark(N, h)
           B == CoalesceNext(A, h)
           C == CoalescePrev(B, h)
<1>1. GoodList(A, top) /\ h \in DOMAIN A /\ A[h].is_free /\ DOMAIN A = DOMAIN N
  BY MarkGood
<1>2. Keeps(A, N, Allocated(N) \ {h}) /\ CoalescedBut(A, h)
  BY MarkFrees
<1> HIDE DEF A
<1>3. /\ GoodList(B, top) /\ h \in DOMAIN B /\ B[h].is_free
      /\ CoalescedBut(B, h) /\ ~IsFree(B, B[h].fwd) /\ Keeps(B, A, Allocated(A))
  BY <1>1, <1>2, NextCoalesced
<1> HIDE DEF B
<1>4. GoodList(C, top) /\ AllCoalesced(C) /\ Keeps(C, B, Allocated(B))
  BY <1>3, PrevCoalesced
<1> HIDE DEF C
<1>5. Keeps(C, N, Allocated(N) \ {h})
  <2>1. /\ Allocated(C) = Allocated(N) \ {h}
        /\ Allocated(B) = Allocated(C) /\ Allocated(A) = Allocated(C)
    BY <1>2, <1>3, <1>4 DEF Keeps
  <2>2. ASSUME NEW g \in Allocated(C) PROVE C[g].size >= N[g].size
    <3>1. g \in DOMAIN C /\ g \in DOMAIN B /\ g \in DOMAIN A /\ g \in DOMAIN N
      BY <2>1 DEF Allocated
    <3>2. C[g].size \in Nat /\ B[g].size \in Nat /\ A[g].size \in Nat /\ N[g].size \in Nat
      BY <1>1, <1>3, <1>4, <3>1, ListFacts
    <3>3. C[g].size >= B[g].size /\ B[g].size >= A[g].size /\ A[g].size >= N[g].size
      BY <1>2, <1>3, <1>4, <2>1 DEF Keeps
    <3> QED BY <3>2, <3>3
  <2> QED BY <2>1, <2>2 DEF Keeps
<1> QED BY <1>4, <1>5 DEF Freed, A, B, C

(* wrealloc in place: the block and the free chunk behind it, cut to size.   *)
LEMMA ExtendGood ==
    ASSUME NEW N, NEW top \in Nat, GoodList(N, top), AllCoalesced(N), NEW h \in Allocated(N),
           IsFree(N, N[h].fwd), NEW size \in Nat,
           size <= N[h].size + HeaderSize + N[N[h].fwd].size
    PROVE  LET E == Extend(N, h, size)
           IN  /\ GoodList(E, top) /\ AllCoalesced(E) /\ Allocated(E) = Allocated(N)
               /\ E[h].size >= size
               /\ \A g \in Allocated(N) : g # h => E[g].size = N[g].size
<1> DEFINE M    == MergeNext(N, h)
           next == N[h].fwd
<1>1. h \in DOMAIN N /\ ~N[h].is_free /\ next # NULL /\ N[next].is_free
  BY DEF Allocated, IsFree
<1>2. next \in DOMAIN N /\ next \in Nat /\ h \in Nat /\ next > h
  BY <1>1, ListFacts
<1>3. \A g \in DOMAIN N : /\ N[g].fwd = NULL \/ N[g].fwd \in DOMAIN N
                          /\ N[g].fwd = next => g = h
  <2> TAKE g \in DOMAIN N
  <2>1. N[g].fwd # NULL => N[g].fwd \in DOMAIN N /\ N[N[g].fwd].bwd = g
    BY ListFacts
  <2>2. N[next].bwd = h
    BY <1>1, ListFacts
  <2> QED BY <1>1, <2>1, <2>2
<1>4. GoodList(M, top) /\ Merged(M, N, h) /\ Keeps(M, N, Allocated(N))
  BY <1>1, MergeNextGood, MergeFree
<1> HIDE DEF M
<1>5. /\ DOMAIN M = (DOMAIN N) \ {next} /\ h \in DOMAIN M
      /\ M[h].size = N[h].size + HeaderSize + N[next].size
      /\ M[h].fwd = N[next].fwd
      /\ \A g \in DOMAIN M : /\ M[g].is_free = N[g].is_free
                             /\ g # h => M[g].size = N[g].size /\ M[g].fwd = N[g].fwd
  BY <1>4 DEF Merged
<1>6. ~IsFree(M, M[h].fwd)
  <2>1. ~IsFree(N, N[next].fwd)
    BY <1>1, <1>2 DEF AllCoalesced
  <2>2. N[next].fwd # next
    BY <1>1, <2>1 DEF IsFree
  <2> QED BY <1>2, <1>3, <1>5, <2>1, <2>2 DEF IsFree
<1>7. AllCoalesced(M)
  <2> SUFFICES ASSUME NEW g \in DOMAIN M, M[g].is_free PROVE ~IsFree(M, M[g].fwd)
    BY DEF AllCoalesced
  <2>1. g \in DOMAIN N /\ g # h /\ N[g].is_free /\ M[g].fwd = N[g].fwd
    BY <1>1, <1>5
  <2>2. ~IsFree(N, N[g].fwd) /\ N[g].fwd # next
    BY <1>3, <2>1 DEF AllCoalesced
  <2> QED BY <1>3, <1>5, <2>1, <2>2 DEF IsFree
<1>8. size <= M[h].size
  BY <1>5
<1>9. /\ GoodList(Carve(M, h, size), top)
      /\ Allocated(Carve(M, h, size)) = Allocated(M) \cup {h}
      /\ AllCoalesced(Carve(M, h, size))
      /\ Carve(M, h, size)[h].size >= size
      /\ \A g \in Allocated(M) : g # h => Carve(M, h, size)[g].size = M[g].size
  <2>1. GoodList(Carve(M, h, size), top)
    BY <1>4, <1>5, <1>8, CarveGood
  <2> QED BY <1>4, <1>5, <1>6, <1>7, <1>8, <2>1, CarveAllocates
<1>10. Allocated(M) = Allocated(N)
  BY <1>4 DEF Keeps
<1>11. \A g \in Allocated(N) : g # h => Carve(M, h, size)[g].size = N[g].size
  BY <1>5, <1>9, <1>10 DEF Allocated
<1> QED BY <1>9, <1>10, <1>11 DEF Extend, M

-----------------------------------------------------------------------------
(* The invariant.                                                           *)

Byte == Tag \cup {Header, Junk}

ArenaInv ==
    /\ arena \in {"NULL", "mapped", "MAP_FAILED"} /\ arena_size \in Nat /\ statusno \in Int
    /\ broken \in {"no", "walloc", "wrealloc"}
    /\ arena = "mapped" => GoodList(node, arena_size) /\ DOMAIN mem = 0 .. arena_size - 1
    /\ arena # "mapped" => node = Empty /\ held = Empty /\ mem = Empty
    /\ AllCoalesced(node)

HeldInv ==
    /\ DOMAIN held = Allocated(node)
    /\ held \in [DOMAIN held -> [len : Nat, tag : Tag]]
    /\ \A h \in DOMAIN held : held[h].len <= node[h].size

Inv ==
    /\ ArenaInv
    /\ HeldInv
    /\ mem \in [DOMAIN mem -> Byte]

LEMMA EmptyList ==
    Allocated(Empty) = {} /\ AllCoalesced(Empty) /\ DOMAIN Empty = {}
  BY DEF Empty, Allocated, AllCoalesced

LEMMA InitInv == Init => Inv
<1> SUFFICES ASSUME Init PROVE Inv
  OBVIOUS
<1>1. node = Empty /\ mem = Empty /\ held = Empty /\ arena = "NULL"
  BY DEF Init
<1>2. ArenaInv
  BY <1>1, EmptyList DEF Init, ArenaInv
<1>3. HeldInv
  BY <1>1, EmptyList DEF HeldInv, Empty
<1>4. mem \in [DOMAIN mem -> Byte]
  BY <1>1 DEF Empty
<1> QED BY <1>2, <1>3, <1>4 DEF Inv

LEMMA PageRoom ==
    ASSUME NEW size \in Nat, size > 0
    PROVE  RoundToPage(size) \in Nat /\ RoundToPage(size) > HeaderSize
<1>1. PageSize \in Nat /\ HeaderSize \in Nat /\ PageSize > HeaderSize /\ PageSize > 0
  BY SizesAssumption
<1> DEFINE q == (size + PageSize - 1) \div PageSize
<1>2. q \in Nat /\ q >= 1
  BY <1>1, SMTT(30)
<1> HIDE DEF q
<1>3. q * PageSize \in Nat /\ q * PageSize >= PageSize
  BY <1>1, <1>2, SMTT(30)
<1> QED BY <1>1, <1>3 DEF RoundToPage, q

(* The bytes written are bytes, when those carried over come from the arena. *)
LEMMA WrittenBytes ==
    ASSUME mem \in [DOMAIN mem -> Byte], NEW N, NEW h, NEW size, NEW tag \in Tag \cup {Junk},
           NEW src, NEW carried, NEW promised, NEW gone,
           \A b \in Bytes(h + HeaderSize, carried) : b - h + src \in DOMAIN mem
    PROVE  /\ Written(N, h, size, tag, src, carried, promised, gone) \in [DOMAIN mem -> Byte]
           /\ DOMAIN Written(N, h, size, tag, src, carried, promised, gone) = DOMAIN mem
  BY DEF Written, Byte

(* The bytes of a block lie in the arena.                                    *)
LEMMA BlockInArena ==
    ASSUME NEW N, NEW top \in Nat, GoodList(N, top), NEW h \in DOMAIN N, NEW n \in Int,
           n <= N[h].size
    PROVE  \A b \in Bytes(h + HeaderSize, n) : b \in 0 .. top - 1
<1>1. /\ h \in Nat /\ HeaderSize \in Nat /\ N[h].size \in Nat /\ End(N, h) <= top
      /\ End(N, h) = h + HeaderSize + N[h].size
  BY ListFacts
<1> QED BY <1>1 DEF Bytes

(* A call that leaves the client with size bytes at h, and without the block
   gone it may have had, keeps the invariant. *)
LEMMA HoldKeepsInv ==
    ASSUME Inv, arena = "mapped", NEW h, NEW size \in Nat, NEW tag \in Tag, NEW gone,
           GoodList(node', arena_size), AllCoalesced(node)',
           Allocated(node)' = (Allocated(node) \ {gone}) \cup {h},
           node'[h].size >= size,
           \A g \in Allocated(node) : g # gone /\ g # h => node'[g].size >= node[g].size,
           held' = Hold(h, size, tag, gone),
           mem' \in [DOMAIN mem -> Byte], DOMAIN mem' = DOMAIN mem,
           UNCHANGED <<arena, arena_size, statusno, broken>>
    PROVE  Inv'
<1>1. ArenaInv'
  BY DEF Inv, ArenaInv
<1>2. HeldInv'
  <2>1. DOMAIN held' = Allocated(node)'
    BY DEF Hold, Inv, HeldInv
  <2>2. held' \in [DOMAIN held' -> [len : Nat, tag : Tag]]
    BY DEF Hold, Inv, HeldInv
  <2>3. ASSUME NEW g \in DOMAIN held' PROVE held'[g].len <= node'[g].size
    <3>1. CASE g = h
      <4>1. held'[g].len = size
        BY <3>1 DEF Hold
      <4>2. node'[h] \in Chunk
        <5>1. h \in DOMAIN node'
          BY DEF Allocated
        <5> QED BY <5>1 DEF GoodList
      <4> QED BY <3>1, <4>1, <4>2 DEF Chunk
    <3>2. CASE g # h
      <4>1. g \in DOMAIN held /\ g # gone /\ held'[g] = held[g] /\ g \in Allocated(node)
        BY <2>1, <3>2 DEF Hold, Inv, HeldInv
      <4>2. held[g].len <= node[g].size /\ held[g].len \in Nat
        BY <4>1 DEF Inv, HeldInv
      <4>3. node'[g].size >= node[g].size
        BY <3>2, <4>1
      <4>4. g \in DOMAIN node /\ g \in DOMAIN node'
        BY <2>1, <4>1 DEF Allocated
      <4>5. node[g] \in Chunk /\ node'[g] \in Chunk
        BY <4>4 DEF Inv, ArenaInv, GoodList
      <4>6. node[g].size \in Nat /\ node'[g].size \in Nat
        BY <4>5 DEF Chunk
      <4> QED BY <4>1, <4>2, <4>3, <4>6
    <3> QED BY <3>1, <3>2
  <2> QED BY <2>1, <2>2, <2>3 DEF HeldInv
<1>3. mem' \in [DOMAIN mem' -> Byte]
  OBVIOUS
<1> QED BY <1>1, <1>2, <1>3 DEF Inv

(* What first fit finds is a free chunk that is large enough.                *)
LEMMA FirstFitFacts ==
    ASSUME NEW N, NEW top \in Nat, GoodList(N, top), AllCoalesced(N), NEW size \in Nat,
           NEW h, FirstFit(N, size, h)
    PROVE  /\ h \in DOMAIN N /\ N[h].is_free /\ size <= N[h].size /\ h \notin Allocated(N)
           /\ ~IsFree(N, N[h].fwd)
<1>1. h \in DOMAIN N /\ N[h].is_free /\ N[h].size >= size
  BY DEF FirstFit, Fits
<1>2. N[h].size \in Nat
  BY <1>1, ListFacts
<1> QED BY <1>1, <1>2 DEF Allocated, AllCoalesced

(* No block is turned down by the range check.                               *)
LEMMA HeldInArena ==
    ASSUME Inv, NEW h \in DOMAIN held
    PROVE  arena = "mapped" /\ arena_size \in Nat /\ h \in Allocated(node)
           /\ h \in DOMAIN node /\ h \in Nat /\ InArena(h)
           /\ held[h].len \in Nat /\ held[h].len <= node[h].size /\ held[h].tag \in Tag
<1>1. arena = "mapped"
  BY DEF Inv, ArenaInv, Empty
<1>2. GoodList(node, arena_size) /\ arena_size \in Nat
  BY <1>1 DEF Inv, ArenaInv
<1>3. h \in Allocated(node) /\ h \in DOMAIN node
  BY DEF Inv, HeldInv, Allocated
<1>4. InArena(h) /\ h \in Nat
  BY <1>2, <1>3, ListFacts DEF InArena
<1>5. held[h].len \in Nat /\ held[h].len <= node[h].size /\ held[h].tag \in Tag
  BY DEF Inv, HeldInv
<1> QED BY <1>1, <1>2, <1>3, <1>4, <1>5

LEMMA InitOKInv ==
    ASSUME Inv, NEW size \in InitSizes, InitOK(size)
    PROVE  Inv'
<1> DEFINE adjusted == RoundToPage(size)
           first    == [size |-> adjusted - HeaderSize, is_free |-> TRUE,
                        fwd |-> NULL, bwd |-> NULL]
<1>1. size \in Nat /\ size > 0
  BY SizesAssumption DEF InitOK
<1>2. adjusted \in Nat /\ adjusted > HeaderSize /\ HeaderSize \in Nat /\ IntMax \in Nat
  BY <1>1, PageRoom, SizesAssumption
<1> HIDE DEF adjusted
<1>3. /\ arena' = "mapped" /\ arena_size' = adjusted /\ statusno' = ToInt(adjusted)
      /\ node' = [h \in {0} |-> first] /\ held' = Empty /\ broken' = broken
      /\ mem' = [b \in 0 .. adjusted - 1 |-> IF b < HeaderSize THEN Header ELSE Junk]
  BY DEF InitOK, adjusted
<1>4. statusno' \in Int
  BY <1>2, <1>3 DEF ToInt
<1>5. DOMAIN node' = {0} /\ node'[0] = first
  BY <1>3
<1>6. first \in Chunk
  BY <1>2 DEF Chunk
<1>7. Tiles(node', adjusted)
  <2>1. End(node', 0) = adjusted
    BY <1>2, <1>5 DEF End
  <2> QED BY <1>5, <2>1 DEF Tiles, LinkedForward, LinkedBack
<1>8. HasRoom(node', adjusted) /\ DOMAIN node' \subseteq Nat /\ node' \in [DOMAIN node' -> Chunk]
  BY <1>2, <1>3, <1>5, <1>6 DEF HasRoom
<1>9. GoodList(node', arena_size')
  BY <1>3, <1>7, <1>8 DEF GoodList
<1>10. AllCoalesced(node)' /\ Allocated(node)' = {}
  BY <1>5 DEF AllCoalesced, Allocated, IsFree
<1>11. ArenaInv'
  BY <1>2, <1>3, <1>4, <1>9, <1>10 DEF Inv, ArenaInv
<1>12. HeldInv'
  BY <1>3, <1>10 DEF HeldInv, Empty
<1>13. mem' \in [DOMAIN mem' -> Byte]
  BY <1>3 DEF Byte
<1> QED BY <1>11, <1>12, <1>13 DEF Inv

LEMMA DestroyInv ==
    ASSUME Inv, Destroy PROVE Inv'
<1>1. CASE arena = "mapped"
  <2>1. /\ arena' = "NULL" /\ arena_size' = 0 /\ statusno' = 0 /\ broken' = broken
        /\ node' = Empty /\ mem' = Empty /\ held' = Empty
    BY <1>1 DEF Destroy
  <2>2. ArenaInv'
    BY <2>1, EmptyList DEF ArenaInv, Inv
  <2>3. HeldInv' /\ mem' \in [DOMAIN mem' -> Byte]
    BY <2>1, EmptyList DEF HeldInv, Empty
  <2> QED BY <2>2, <2>3 DEF Inv
<1>2. CASE arena # "mapped"
  <2>1. UNCHANGED <<arena, arena_size, node, mem, held, broken>> /\ statusno' \in Int
    BY <1>2 DEF Destroy, ERR_UNINITIALIZED, ERR_SYSCALL_FAILED
  <2> QED BY <2>1 DEF Inv, ArenaInv, HeldInv
<1> QED BY <1>1, <1>2

LEMMA WallocInv ==
    ASSUME Inv, NEW size \in Sizes, NEW tag \in Tag, Walloc(size, tag)
    PROVE  Inv'
<1>1. PICK h \in Chunks :
        /\ FirstFit(node, size, h)
        /\ node' = Carve(node, h, size)
        /\ mem' = Written(Carve(node, h, size), h, size, tag, h, 0, 0, NULL)
        /\ held' = Hold(h, size, tag, NULL)
  BY DEF Walloc
<1>2. /\ arena = "mapped" /\ arena_size \in Nat /\ size \in Nat
      /\ GoodList(node, arena_size) /\ AllCoalesced(node)
      /\ UNCHANGED <<arena, arena_size, statusno, broken>>
  BY SizesAssumption DEF Walloc, Inv, ArenaInv
<1>3. h \in DOMAIN node /\ size <= node[h].size /\ ~IsFree(node, node[h].fwd) /\ h \in Nat
  BY <1>1, <1>2, FirstFitFacts, ListFacts
<1>4. GoodList(node', arena_size)
  BY <1>1, <1>2, <1>3, CarveGood
<1>5. /\ Allocated(node)' = Allocated(node) \cup {h} /\ AllCoalesced(node)'
      /\ node'[h].size >= size
      /\ \A g \in Allocated(node) : g # h => node'[g].size = node[g].size
  BY <1>1, <1>2, <1>3, CarveAllocates
<1>6. NULL \notin Allocated(node) /\ \A g \in Allocated(node) : node[g].size \in Nat
  BY <1>2, ListFacts DEF Allocated
<1>7. mem' \in [DOMAIN mem -> Byte] /\ DOMAIN mem' = DOMAIN mem
  <2>1. \A b \in Bytes(h + HeaderSize, 0) : b - h + h \in DOMAIN mem
    BY <1>3, SizesAssumption DEF Bytes
  <2> QED BY <1>1, <2>1, WrittenBytes DEF Inv
<1>8. \A g \in Allocated(node) : g # NULL /\ g # h => node'[g].size >= node[g].size
  BY <1>5, <1>6
<1>9. Allocated(node)' = (Allocated(node) \ {NULL}) \cup {h}
  BY <1>5, <1>6
<1> QED BY <1>1, <1>2, <1>4, <1>5, <1>7, <1>8, <1>9, HoldKeepsInv

LEMMA WfreeInv ==
    ASSUME Inv, NEW h \in DOMAIN held, Wfree(h)
    PROVE  Inv'
<1>1. /\ arena = "mapped" /\ arena_size \in Nat /\ h \in DOMAIN node /\ h \in Nat /\ InArena(h)
  BY HeldInArena
<1>2. /\ node' = Freed(node, h) /\ held' = GiveUp(h)
      /\ mem' = Written(node, h, 0, Junk, h, 0, 0, h)
      /\ UNCHANGED <<arena, arena_size, statusno, broken>>
  BY <1>1 DEF Wfree
<1>3. GoodList(node, arena_size) /\ AllCoalesced(node)
  BY <1>1 DEF Inv, ArenaInv
<1>4. /\ GoodList(node', arena_size) /\ AllCoalesced(node)'
      /\ Allocated(node)' = Allocated(node) \ {h}
      /\ \A g \in Allocated(node) \ {h} : node'[g].size >= node[g].size
  BY <1>1, <1>2, <1>3, FreedGood DEF Keeps
<1>5. mem' \in [DOMAIN mem -> Byte] /\ DOMAIN mem' = DOMAIN mem
  <2>1. \A b \in Bytes(h + HeaderSize, 0) : b - h + h \in DOMAIN mem
    BY <1>1, SizesAssumption DEF Bytes
  <2> QED BY <1>2, <2>1, WrittenBytes DEF Inv
<1>6. ArenaInv'
  BY <1>1, <1>2, <1>4, <1>5 DEF Inv, ArenaInv
<1>7. HeldInv'
  <2>1. DOMAIN held' = Allocated(node)'
    BY <1>2, <1>4 DEF GiveUp, Inv, HeldInv
  <2>2. held' \in [DOMAIN held' -> [len : Nat, tag : Tag]]
    BY <1>2 DEF GiveUp, Inv, HeldInv
  <2>3. ASSUME NEW g \in DOMAIN held' PROVE held'[g].len <= node'[g].size
    <3>1. g \in DOMAIN held /\ g # h /\ held'[g] = held[g] /\ g \in Allocated(node)
      BY <1>2 DEF GiveUp, Inv, HeldInv
    <3>2. held[g].len <= node[g].size /\ held[g].len \in Nat
      BY <3>1 DEF Inv, HeldInv
    <3>3. g \in DOMAIN node /\ g \in DOMAIN node'
      BY <2>1, <3>1 DEF Allocated
    <3>4. node[g].size \in Nat /\ node'[g].size \in Nat
      BY <1>1, <1>3, <1>4, <3>3, ListFacts
    <3>5. node'[g].size >= node[g].size
      BY <1>4, <3>1
    <3> QED BY <3>1, <3>2, <3>4, <3>5
  <2> QED BY <2>1, <2>2, <2>3 DEF HeldInv
<1>8. mem' \in [DOMAIN mem' -> Byte]
  BY <1>5
<1> QED BY <1>6, <1>7, <1>8 DEF Inv

LEMMA SmallerFacts ==
    ASSUME NEW m \in Nat, NEW n \in Nat
    PROVE  Smaller(m, n) \in Nat /\ Smaller(m, n) <= m /\ Smaller(m, n) <= n
  BY DEF Smaller

LEMMA WreallocInPlaceInv ==
    ASSUME Inv, NEW h \in DOMAIN held, NEW size \in Sizes, WreallocInPlace(h, size)
    PROVE  Inv'
<1> DEFINE kept == Smaller(held[h].len, size)
<1>1. /\ arena = "mapped" /\ arena_size \in Nat /\ h \in DOMAIN node /\ h \in Nat
      /\ h \in Allocated(node) /\ held[h].len \in Nat /\ held[h].len <= node[h].size
      /\ held[h].tag \in Tag /\ size \in Nat
  BY HeldInArena, SizesAssumption
<1>2. GoodList(node, arena_size) /\ AllCoalesced(node) /\ DOMAIN mem = 0 .. arena_size - 1
  BY <1>1 DEF Inv, ArenaInv
<1>3. /\ IsFree(node, node[h].fwd)
      /\ node[h].size + HeaderSize + node[node[h].fwd].size >= size
      /\ node' = Extend(node, h, size)
      /\ mem' = Written(Extend(node, h, size), h, size, held[h].tag, h, kept, kept, NULL)
      /\ held' = Hold(h, size, held[h].tag, NULL)
      /\ UNCHANGED <<arena, arena_size, statusno, broken>>
  BY DEF WreallocInPlace, NextIsEnough
<1>4. size <= node[h].size + HeaderSize + node[node[h].fwd].size
  <2>1. node[h].fwd # NULL
    BY <1>3 DEF IsFree
  <2>2. node[h].fwd \in DOMAIN node /\ node[h].size \in Nat /\ HeaderSize \in Nat
    BY <1>1, <1>2, <2>1, ListFacts
  <2>3. node[node[h].fwd].size \in Nat
    BY <1>1, <1>2, <2>2, ListFacts
  <2> QED BY <1>1, <1>3, <2>2, <2>3
<1>5. /\ GoodList(node', arena_size) /\ AllCoalesced(node)'
      /\ Allocated(node)' = Allocated(node) /\ node'[h].size >= size
      /\ \A g \in Allocated(node) : g # h => node'[g].size = node[g].size
  BY <1>1, <1>2, <1>3, <1>4, ExtendGood
<1>6. NULL \notin Allocated(node) /\ \A g \in Allocated(node) : node[g].size \in Nat
  BY <1>1, <1>2, ListFacts DEF Allocated
<1>7. kept \in Nat /\ kept <= node[h].size
  <2>1. kept \in Nat /\ kept <= held[h].len
    BY <1>1, SmallerFacts
  <2>2. node[h].size \in Nat
    BY <1>1, <1>6
  <2> QED BY <1>1, <2>1, <2>2
<1> HIDE DEF kept
<1>8. mem' \in [DOMAIN mem -> Byte] /\ DOMAIN mem' = DOMAIN mem
  <2>1. \A b \in Bytes(h + HeaderSize, kept) : b \in 0 .. arena_size - 1
    BY <1>1, <1>2, <1>7, BlockInArena
  <2>2. \A b \in Bytes(h + HeaderSize, kept) : b - h + h \in DOMAIN mem
    <3> TAKE b \in Bytes(h + HeaderSize, kept)
    <3>1. b \in 0 .. arena_size - 1 /\ b \in Int
      BY <2>1
    <3>2. b - h + h = b
      BY <1>1, <3>1
    <3> QED BY <1>2, <3>1, <3>2
  <2> QED BY <1>1, <1>3, <2>2, WrittenBytes DEF Inv
<1>9. \A g \in Allocated(node) : g # NULL /\ g # h => node'[g].size >= node[g].size
  BY <1>5, <1>6
<1>10. Allocated(node)' = (Allocated(node) \ {NULL}) \cup {h}
  BY <1>1, <1>5, <1>6
<1> QED BY <1>1, <1>3, <1>5, <1>8, <1>9, <1>10, HoldKeepsInv

LEMMA WreallocMovesInv ==
    ASSUME Inv, NEW h \in DOMAIN held, NEW size \in Sizes, WreallocMoves(h, size)
    PROVE  Inv'
<1> DEFINE kept    == Smaller(held[h].len, size)
           carried == Smaller(CopySize(h, size), kept)
<1>1. /\ arena = "mapped" /\ arena_size \in Nat /\ h \in DOMAIN node /\ h \in Nat
      /\ h \in Allocated(node) /\ held[h].len \in Nat /\ held[h].len <= node[h].size
      /\ held[h].tag \in Tag /\ size \in Nat /\ InArena(h)
  BY HeldInArena, SizesAssumption
<1>2. GoodList(node, arena_size) /\ AllCoalesced(node) /\ DOMAIN mem = 0 .. arena_size - 1
  BY <1>1 DEF Inv, ArenaInv
<1>3. PICK to \in Chunks :
        /\ FirstFit(node, size, to)
        /\ node' = Freed(Carve(node, to, size), h)
        /\ mem' = Written(Carve(node, to, size), to, size, held[h].tag, h, carried, kept, h)
        /\ held' = Hold(to, size, held[h].tag, h)
  BY <1>1 DEF WreallocMoves
<1>4. UNCHANGED <<arena, arena_size, statusno, broken>>
  BY DEF WreallocMoves
<1>5. /\ to \in DOMAIN node /\ size <= node[to].size /\ ~IsFree(node, node[to].fwd)
      /\ to \in Nat /\ to \notin Allocated(node) /\ to # h
  BY <1>1, <1>2, <1>3, FirstFitFacts, ListFacts
<1> DEFINE N == Carve(node, to, size)
<1>6. GoodList(N, arena_size)
  BY <1>1, <1>2, <1>5, CarveGood
<1>7. /\ Allocated(N) = Allocated(node) \cup {to} /\ AllCoalesced(N) /\ N[to].size >= size
      /\ \A g \in Allocated(node) : g # to => N[g].size = node[g].size
  BY <1>1, <1>2, <1>5, CarveAllocates
<1>8. node' = Freed(N, h)
  BY <1>3
<1> HIDE DEF N
<1>9. h \in DOMAIN N
  BY <1>1, <1>7 DEF Allocated
<1>10. /\ GoodList(node', arena_size) /\ AllCoalesced(node)'
       /\ Allocated(node)' = Allocated(N) \ {h}
       /\ \A g \in Allocated(N) \ {h} : node'[g].size >= N[g].size
  BY <1>1, <1>6, <1>7, <1>8, <1>9, FreedGood DEF Keeps
<1>11. Allocated(node)' = (Allocated(node) \ {h}) \cup {to}
  BY <1>5, <1>7, <1>10
<1>12. node'[to].size >= size
  <2>1. to \in Allocated(N) \ {h} /\ to \in DOMAIN N /\ to \in DOMAIN node'
    BY <1>5, <1>7, <1>11 DEF Allocated
  <2>2. N[to].size \in Nat /\ node'[to].size \in Nat
    BY <1>1, <1>6, <1>10, <2>1, ListFacts
  <2> QED BY <1>1, <1>7, <1>10, <2>1, <2>2
<1>13. \A g \in Allocated(node) : g # h /\ g # to => node'[g].size >= node[g].size
  BY <1>7, <1>10
<1>14. kept \in Nat /\ carried \in Nat /\ carried <= kept /\ carried <= node[h].size
  <2>1. node[h].size \in Nat
    BY <1>1, <1>2, ListFacts
  <2>2. kept \in Nat /\ kept <= held[h].len
    BY <1>1, SmallerFacts
  <2>3. CopySize(h, size) \in Nat
    BY <1>1, <2>1, SmallerFacts DEF CopySize
  <2> HIDE DEF kept
  <2>4. carried \in Nat /\ carried <= kept
    BY <2>2, <2>3, SmallerFacts
  <2> HIDE DEF carried
  <2> QED BY <1>1, <2>1, <2>2, <2>4
<1> HIDE DEF kept, carried
<1>15. mem' \in [DOMAIN mem -> Byte] /\ DOMAIN mem' = DOMAIN mem
  <2>1. \A b \in Bytes(h + HeaderSize, carried) : b \in 0 .. arena_size - 1
    BY <1>1, <1>2, <1>14, BlockInArena
  <2>2. HeaderSize \in Nat
    BY SizesAssumption
  <2>3. \A b \in Bytes(to + HeaderSize, carried) : b - to + h \in Bytes(h + HeaderSize, carried)
    BY <1>1, <1>5, <1>14, <2>2 DEF Bytes
  <2>4. \A b \in Bytes(to + HeaderSize, carried) : b - to + h \in DOMAIN mem
    BY <1>2, <2>1, <2>3
  <2> QED BY <1>1, <1>3, <2>4, WrittenBytes DEF Inv
<1> QED BY <1>1, <1>3, <1>4, <1>10, <1>11, <1>12, <1>13, <1>15, HoldKeepsInv

LEMMA WreallocZeroInv ==
    ASSUME Inv, NEW h \in DOMAIN held, WreallocZero(h, held[h].tag)
    PROVE  Inv'
<1> DEFINE N == Freed(node, h)
<1>1. /\ arena = "mapped" /\ arena_size \in Nat /\ h \in DOMAIN node /\ h \in Nat
      /\ h \in Allocated(node) /\ held[h].tag \in Tag /\ InArena(h)
  BY HeldInArena
<1>2. GoodList(node, arena_size) /\ AllCoalesced(node)
  BY <1>1 DEF Inv, ArenaInv
<1>3. PICK to \in DOMAIN N :
        /\ FirstFit(N, 0, to)
        /\ node' = Carve(N, to, 0)
        /\ mem' = Written(Carve(N, to, 0), to, 0, held[h].tag, to, 0, 0, h)
        /\ held' = Hold(to, 0, held[h].tag, h)
  BY <1>1 DEF WreallocZero
<1>4. UNCHANGED <<arena, arena_size, statusno, broken>>
  BY DEF WreallocZero
<1>5. /\ GoodList(N, arena_size) /\ AllCoalesced(N)
      /\ Allocated(N) = Allocated(node) \ {h}
      /\ \A g \in Allocated(node) \ {h} : N[g].size >= node[g].size
  BY <1>1, <1>2, FreedGood DEF Keeps
<1> HIDE DEF N
<1>6. to \in Nat /\ 0 <= N[to].size /\ ~IsFree(N, N[to].fwd)
  BY <1>1, <1>3, <1>5, FirstFitFacts, ListFacts
<1>7. GoodList(node', arena_size)
  BY <1>1, <1>3, <1>5, <1>6, CarveGood
<1>8. /\ Allocated(node)' = Allocated(N) \cup {to} /\ AllCoalesced(node)' /\ node'[to].size >= 0
      /\ \A g \in Allocated(N) : g # to => node'[g].size = N[g].size
  BY <1>1, <1>3, <1>5, <1>6, CarveAllocates
<1>9. \A g \in Allocated(node) : g # h /\ g # to => node'[g].size >= node[g].size
  BY <1>5, <1>8
<1>10. Allocated(node)' = (Allocated(node) \ {h}) \cup {to}
  BY <1>5, <1>8
<1>11. mem' \in [DOMAIN mem -> Byte] /\ DOMAIN mem' = DOMAIN mem
  <2>1. \A b \in Bytes(to + HeaderSize, 0) : b - to + to \in DOMAIN mem
    BY <1>6, SizesAssumption DEF Bytes
  <2> QED BY <1>1, <1>3, <2>1, WrittenBytes DEF Inv
<1> QED BY <1>1, <1>3, <1>4, <1>7, <1>8, <1>9, <1>10, <1>11, HoldKeepsInv

(* The calls that leave the arena and the client's blocks alone.             *)
LEMMA QuietInv ==
    ASSUME Inv, UNCHANGED <<arena, arena_size, node, mem, held>>, statusno' \in Int,
           broken' \in {"no", "walloc", "wrealloc"}
    PROVE  Inv'
  BY DEF Inv, ArenaInv, HeldInv

LEMMA NextInv == Inv /\ [Next]_vars => Inv'
<1> SUFFICES ASSUME Inv, [Next]_vars PROVE Inv'
  OBVIOUS
<1>0. statusno \in Int /\ broken \in {"no", "walloc", "wrealloc"}
  BY DEF Inv, ArenaInv
<1>1. ASSUME NEW size \in InitSizes, InitBadSize(size) PROVE Inv'
  BY <1>0, <1>1, QuietInv DEF InitBadSize, ERR_BAD_ARGUMENTS
<1>2. ASSUME NEW size \in InitSizes, InitOpenFails(size) PROVE Inv'
  BY <1>0, <1>2, QuietInv DEF InitOpenFails, ERR_SYSCALL_FAILED
<1>3. ASSUME NEW size \in InitSizes, InitMmapFails(size) PROVE Inv'
  <2>1. /\ arena' = "MAP_FAILED" /\ statusno' = ERR_SYSCALL_FAILED /\ arena_size' = arena_size
        /\ node' = Empty /\ mem' = Empty /\ held' = Empty /\ broken' = broken
    BY <1>3 DEF InitMmapFails
  <2>2. ArenaInv'
    BY <2>1, EmptyList DEF Inv, ArenaInv, ERR_SYSCALL_FAILED
  <2>3. HeldInv'
    BY <2>1, EmptyList DEF HeldInv, Empty
  <2>4. mem' \in [DOMAIN mem' -> Byte]
    BY <2>1 DEF Empty
  <2> QED BY <2>2, <2>3, <2>4 DEF Inv
<1>4. ASSUME NEW size \in InitSizes, InitOK(size) PROVE Inv'
  BY <1>4, InitOKInv
<1>5. CASE Destroy
  BY <1>5, DestroyInv
<1>6. ASSUME NEW size \in Sizes, NEW tag \in Tag, Walloc(size, tag) PROVE Inv'
  BY <1>6, WallocInv
<1>7. ASSUME NEW size \in Sizes, WallocFails(size) PROVE Inv'
  BY <1>0, <1>7, QuietInv DEF WallocFails, ERR_UNINITIALIZED, ERR_OUT_OF_MEMORY
<1>8. ASSUME NEW size \in Sizes, WallocCrashes(size) PROVE Inv'
  BY <1>0, <1>8, QuietInv DEF WallocCrashes
<1>9. ASSUME NEW h \in DOMAIN held, Wfree(h) PROVE Inv'
  BY <1>9, WfreeInv
<1>10. ASSUME NEW h \in DOMAIN held, NEW size \in Sizes, WreallocInPlace(h, size) PROVE Inv'
  BY <1>10, WreallocInPlaceInv
<1>11. ASSUME NEW h \in DOMAIN held, NEW size \in Sizes, WreallocBreaks(h, size) PROVE Inv'
  BY <1>0, <1>11, QuietInv DEF WreallocBreaks
<1>12. ASSUME NEW h \in DOMAIN held, NEW size \in Sizes, WreallocMoves(h, size) PROVE Inv'
  BY <1>12, WreallocMovesInv
<1>13. ASSUME NEW h \in DOMAIN held, NEW size \in Sizes, WreallocFails(h, size) PROVE Inv'
  BY <1>0, <1>13, QuietInv DEF WreallocFails, ERR_OUT_OF_MEMORY
<1>14. ASSUME NEW h \in DOMAIN held, WreallocZero(h, held[h].tag) PROVE Inv'
  BY <1>14, WreallocZeroInv
<1>15. CASE UNCHANGED vars
  BY <1>0, <1>15, QuietInv DEF vars
<1> QED BY <1>1, <1>2, <1>3, <1>4, <1>5, <1>6, <1>7, <1>8, <1>9, <1>10, <1>11, <1>12, <1>13,
           <1>14, <1>15 DEF Next, Call, Dead

LEMMA Invariance == Spec => []Inv
  BY InitInv, NextInv, PTL DEF Spec

-----------------------------------------------------------------------------
(* The properties.                                                          *)

(* Every variable keeps its type, whatever the client asks for.              *)
THEOREM TypeCorrect == Spec => []TypeOK
<1>1. Inv => TypeOK
  <2> SUFFICES ASSUME Inv PROVE TypeOK
    OBVIOUS
  <2>1. Chunks \subseteq Nat /\ node \in [Chunks -> Chunk] /\ DOMAIN mem \subseteq Nat
    <3>1. CASE arena = "mapped"
      BY <3>1 DEF Inv, ArenaInv, GoodList, Chunks
    <3>2. CASE arena # "mapped"
      BY <3>2 DEF Inv, ArenaInv, Empty, Chunks
    <3> QED BY <3>1, <3>2
  <2>2. DOMAIN held \subseteq Chunks
    BY DEF Inv, HeldInv, Allocated, Chunks
  <2> QED BY <2>1, <2>2 DEF Inv, ArenaInv, HeldInv, TypeOK, Byte
<1> QED BY <1>1, Invariance, PTL

(* The headers always cut the arena into adjacent chunks: splitting and
   coalescing lose no byte and give none out twice. *)
THEOREM ArenaTiled == Spec => []Tiling
<1>1. Inv => Tiling
  BY DEF Inv, ArenaInv, GoodList, Tiling
<1> QED BY <1>1, Invariance, PTL

(* Two free chunks are never neighbours.                                     *)
THEOREM FullyCoalesced == Spec => []Coalesced
<1>1. Inv => Coalesced
  BY DEF Inv, ArenaInv, AllCoalesced, Coalesced, Chunks
<1> QED BY <1>1, Invariance, PTL

(* The allocated chunks are the blocks the client holds, and each is large
   enough for what the client keeps there. *)
THEOREM NoLeakNoDoubleGrant == Spec => []HeldIsAllocated
<1>1. Inv => HeldIsAllocated
  <2> SUFFICES ASSUME Inv PROVE HeldIsAllocated
    OBVIOUS
  <2>1. \A h \in Chunks : node[h].is_free \in BOOLEAN
    <3>1. CASE arena = "mapped"
      BY <3>1, ListFacts DEF Inv, ArenaInv, Chunks
    <3>2. CASE arena # "mapped"
      BY <3>2 DEF Inv, ArenaInv, Empty, Chunks
    <3> QED BY <3>1, <3>2
  <2> QED BY <2>1 DEF Inv, HeldInv, HeldIsAllocated, Allocated, Chunks
<1> QED BY <1>1, Invariance, PTL

(* wfree's range check accepts every pointer walloc gave out.                *)
THEOREM EveryBlockAccepted == Spec => []NoBlockRefused
<1>1. Inv => NoBlockRefused
  BY HeldInArena DEF NoBlockRefused
<1> QED BY <1>1, Invariance, PTL


-----------------------------------------------------------------------------
(* What the client has written.                                             *)

(* The header and the block of a chunk share no byte with another chunk.     *)
LEMMA ChunksApart ==
    ASSUME NEW N, NEW top \in Nat, GoodList(N, top), NEW g \in DOMAIN N, NEW h \in DOMAIN N,
           NEW m \in Int, m <= N[g].size, NEW n \in Int, n <= N[h].size, NEW b
    PROVE  /\ b \in Bytes(g, HeaderSize) => b \notin Bytes(h + HeaderSize, n)
           /\ g # h /\ b \in Bytes(g + HeaderSize, m) => /\ b \notin Bytes(h, HeaderSize)
                                                        /\ b \notin Bytes(h + HeaderSize, n)
<1>1. /\ g \in Nat /\ h \in Nat /\ HeaderSize \in Nat /\ N[g].size \in Nat /\ N[h].size \in Nat
      /\ End(N, g) = g + HeaderSize + N[g].size /\ End(N, h) = h + HeaderSize + N[h].size
  BY ListFacts
<1>2. (g > h => g >= End(N, h)) /\ (h > g => h >= End(N, g))
  BY DEF GoodList, Tiles
<1> PICK s \in Nat : s = N[g].size
  BY <1>1
<1> PICK t \in Nat : t = N[h].size
  BY <1>1
<1>3. (g > h => g >= h + HeaderSize + t) /\ (h > g => h >= g + HeaderSize + s)
  BY <1>1, <1>2
<1>4. m <= s /\ n <= t
  OBVIOUS
<1>5. ASSUME b \in Bytes(g, HeaderSize) PROVE b \notin Bytes(h + HeaderSize, n)
  BY <1>1, <1>3, <1>4, <1>5 DEF Bytes
<1>6. ASSUME g # h, b \in Bytes(g + HeaderSize, m)
      PROVE  b \notin Bytes(h, HeaderSize) /\ b \notin Bytes(h + HeaderSize, n)
  BY <1>1, <1>3, <1>4, <1>6 DEF Bytes
<1> QED BY <1>5, <1>6

LEMMA MovedBytes ==
    ASSUME NEW h \in Int, NEW src \in Int, NEW n \in Int, NEW len \in Int, n <= len,
           NEW b \in Bytes(h + HeaderSize, n)
    PROVE  b - h + src \in Bytes(src + HeaderSize, len)
<1>1. HeaderSize \in Int
  BY SizesAssumption
<1> QED BY <1>1 DEF Bytes

(* A call that writes the new headers of N and the block it gives to the client
   at h, of which the first kept bytes come from a block the client had, and
   that takes the block gone from it, leaves everything else alone. *)
LEMMA WrittenIntact ==
    ASSUME Inv, DataIntact, arena = "mapped", NEW N, GoodList(N, arena_size),
           NEW h \in DOMAIN N, NEW size \in Nat, size <= N[h].size, NEW tag,
           NEW src \in Int, NEW kept \in Nat, kept <= size,
           kept = 0 \/ (src \in DOMAIN held /\ kept <= held[src].len /\ tag = held[src].tag),
           NEW gone, gone = NULL \/ gone \in DOMAIN node,
           \A g \in DOMAIN held : g # gone /\ g # h => g \in DOMAIN N /\ N[g].size >= node[g].size,
           DOMAIN node' \subseteq DOMAIN N,
           mem' = Written(N, h, size, tag, src, kept, kept, gone),
           held' = Hold(h, size, tag, gone)
    PROVE  DataIntact'
<1>1. /\ arena_size \in Nat /\ GoodList(node, arena_size) /\ DOMAIN mem = 0 .. arena_size - 1
      /\ HeaderSize \in Nat /\ HeaderSize > 0
  BY SizesAssumption DEF Inv, ArenaInv
<1>2. /\ h \in Nat /\ N[h].size \in Nat
      /\ \A g \in DOMAIN N : g \in Nat /\ N[g].size \in Nat /\ g + HeaderSize < arena_size
  BY <1>1, ListFacts
<1>3. \A g \in DOMAIN held : /\ g \in DOMAIN node /\ g \in Nat /\ held[g].len \in Nat
                             /\ held[g].len <= node[g].size /\ node[g].size \in Nat
  BY <1>1, HeldInArena, ListFacts
<1> DEFINE W(b) == IF \E g \in DOMAIN N \ Chunks : b \in Bytes(g, HeaderSize) THEN Header
                   ELSE IF b \in Bytes(h + HeaderSize, kept) THEN mem[b - h + src]
                   ELSE IF b \in Bytes(h + HeaderSize, size) THEN tag
                   ELSE IF gone # NULL /\ b \in Bytes(gone + HeaderSize, node[gone].size) THEN Junk
                   ELSE mem[b]
<1>4. \A b \in 0 .. arena_size - 1 : mem'[b] = W(b)
  BY <1>1 DEF Written
<1>5. \A b : b \in Bytes(h + HeaderSize, kept) => b \in Bytes(h + HeaderSize, size)
  BY <1>1, <1>2 DEF Bytes
<1>6. ASSUME NEW g \in DOMAIN node', NEW b \in Bytes(g, HeaderSize) PROVE mem'[b] = Header
  <2>1. g \in DOMAIN N /\ b \in 0 .. arena_size - 1
    BY <1>1, <1>2 DEF Bytes
  <2>2. CASE g \in DOMAIN N \ Chunks
    BY <1>4, <2>1, <2>2
  <2>3. CASE g \in Chunks
    <3>1. b \notin Bytes(h + HeaderSize, size)
      BY <1>1, <2>1, <1>2, ChunksApart
    <3>2. gone # NULL => b \notin Bytes(gone + HeaderSize, node[gone].size)
      <4> SUFFICES ASSUME gone # NULL PROVE b \notin Bytes(gone + HeaderSize, node[gone].size)
        OBVIOUS
      <4>1. gone \in DOMAIN node /\ g \in DOMAIN node
        BY <2>3 DEF Chunks
      <4>2. /\ node[gone].size \in Int /\ node[gone].size <= node[gone].size
            /\ node[g].size \in Int /\ node[g].size <= node[g].size
        <5>1. node[gone].size \in Nat /\ node[g].size \in Nat
          BY <1>1, <4>1, ListFacts
        <5> QED BY <5>1
      <4>3. b \in Bytes(g, HeaderSize) => b \notin Bytes(gone + HeaderSize, node[gone].size)
        BY <1>1, <4>1, <4>2, ChunksApart, Zenon
      <4> QED BY <4>3
    <3>3. mem[b] = Header
      BY <2>3 DEF DataIntact
    <3> QED BY <1>4, <1>5, <2>1, <3>1, <3>2, <3>3
  <2> QED BY <2>1, <2>2, <2>3
<1>7. ASSUME NEW b \in Bytes(h + HeaderSize, size) PROVE mem'[b] = tag
  <2>1. b \in 0 .. arena_size - 1
    BY <1>1, BlockInArena
  <2>2. \A g \in DOMAIN N : b \notin Bytes(g, HeaderSize)
    BY <1>1, <1>2, ChunksApart
  <2>3. b \in Bytes(h + HeaderSize, kept) => mem[b - h + src] = tag
    <3> SUFFICES ASSUME b \in Bytes(h + HeaderSize, kept) PROVE mem[b - h + src] = tag
      OBVIOUS
    <3>1. kept > 0
      BY <1>1, <1>2 DEF Bytes
    <3> PICK len : len = held[src].len
      OBVIOUS
    <3>2. src \in DOMAIN held /\ tag = held[src].tag /\ len \in Nat /\ kept <= len
      BY <1>3, <3>1
    <3>3. b - h + src \in Bytes(src + HeaderSize, len)
      <4>1. h \in Int /\ kept \in Int /\ len \in Int /\ kept <= len
        BY <1>2, <3>2
      <4> QED BY <4>1, MovedBytes
    <3> QED BY <3>2, <3>3 DEF DataIntact
  <2> QED BY <1>4, <2>1, <2>2, <2>3
<1>8. ASSUME NEW g \in DOMAIN held, g # gone, g # h, NEW b \in Bytes(g + HeaderSize, held[g].len)
      PROVE  mem'[b] = held[g].tag
  <2>1. g \in DOMAIN N /\ held[g].len \in Int /\ held[g].len <= node[g].size
        /\ N[g].size >= node[g].size /\ N[g].size \in Nat /\ node[g].size \in Nat
        /\ g \in DOMAIN node
    BY <1>2, <1>3, <1>8
  <2>2. held[g].len <= N[g].size
    BY <2>1
  <2>3. b \in 0 .. arena_size - 1
    BY <1>1, <2>1, <2>2, BlockInArena
  <2>4. \A f \in DOMAIN N \ Chunks : b \notin Bytes(f, HeaderSize)
    <3> TAKE f \in DOMAIN N \ Chunks
    <3>1. f # g /\ N[f].size \in Int /\ N[f].size <= N[f].size
      BY <1>2, <2>1 DEF Chunks
    <3> QED BY <1>1, <2>1, <2>2, <3>1, ChunksApart
  <2>5. b \notin Bytes(h + HeaderSize, size)
    BY <1>1, <1>8, <2>1, <2>2, ChunksApart
  <2>6. gone # NULL => b \notin Bytes(gone + HeaderSize, node[gone].size)
    <3>1. ASSUME gone # NULL PROVE gone \in DOMAIN node /\ node[gone].size \in Int
                                   /\ node[gone].size <= node[gone].size
      BY <1>1, <3>1, ListFacts
    <3> QED BY <1>1, <1>8, <2>1, <3>1, ChunksApart
  <2>7. mem[b] = held[g].tag
    BY <1>8 DEF DataIntact
  <2> QED BY <1>4, <1>5, <2>3, <2>4, <2>5, <2>6, <2>7
<1> HIDE DEF W
<1>9. ASSUME NEW g \in DOMAIN held', NEW b \in Bytes(g + HeaderSize, held'[g].len)
      PROVE  mem'[b] = held'[g].tag
  <2>1. CASE g = h
    <3>1. held'[g] = [len |-> size, tag |-> tag]
      BY <2>1 DEF Hold
    <3> QED BY <1>7, <1>9, <2>1, <3>1
  <2>2. CASE g # h
    <3>1. g \in DOMAIN held /\ g # gone /\ held'[g] = held[g]
      BY <2>2 DEF Hold
    <3> QED BY <1>8, <1>9, <2>2, <3>1
  <2> QED BY <2>1, <2>2
<1> QED BY <1>6, <1>9 DEF DataIntact, Chunks

LEMMA FreedShrinks ==
    ASSUME NEW N, NEW h
    PROVE  DOMAIN Freed(N, h) \subseteq DOMAIN N
<1> DEFINE A == Mark(N, h)
           B == CoalesceNext(A, h)
<1>1. ASSUME NEW M, NEW g PROVE DOMAIN MergeNext(M, g) \subseteq DOMAIN M
  BY DEF MergeNext
<1>2. DOMAIN A \subseteq DOMAIN N
  BY DEF Mark
<1> HIDE DEF A
<1>3. DOMAIN B \subseteq DOMAIN A
  BY <1>1 DEF CoalesceNext
<1> HIDE DEF B
<1>4. DOMAIN CoalescePrev(B, h) \subseteq DOMAIN B
  BY <1>1 DEF CoalescePrev
<1> QED BY <1>2, <1>3, <1>4 DEF Freed, A, B

LEMMA HeldAllocated ==
    ASSUME Inv, arena = "mapped"
    PROVE  /\ arena_size \in Nat /\ GoodList(node, arena_size) /\ AllCoalesced(node)
           /\ DOMAIN held = Allocated(node) /\ NULL \notin DOMAIN held
           /\ \A g \in DOMAIN held : g \in DOMAIN node /\ node[g].size \in Nat
<1>1. arena_size \in Nat /\ GoodList(node, arena_size) /\ AllCoalesced(node)
  BY DEF Inv, ArenaInv
<1>2. DOMAIN held = Allocated(node) /\ \A g \in DOMAIN held : g \in DOMAIN node
  BY DEF Inv, HeldInv, Allocated
<1> QED BY <1>1, <1>2, ListFacts

LEMMA WallocIntact ==
    ASSUME Inv, DataIntact, NEW size \in Sizes, NEW tag \in Tag, Walloc(size, tag)
    PROVE  DataIntact'
<1>1. PICK h \in Chunks :
        /\ FirstFit(node, size, h)
        /\ node' = Carve(node, h, size)
        /\ mem' = Written(Carve(node, h, size), h, size, tag, h, 0, 0, NULL)
        /\ held' = Hold(h, size, tag, NULL)
  BY DEF Walloc
<1>2. arena = "mapped" /\ size \in Nat
  BY SizesAssumption DEF Walloc
<1>3. /\ arena_size \in Nat /\ GoodList(node, arena_size) /\ AllCoalesced(node)
      /\ DOMAIN held = Allocated(node) /\ \A g \in DOMAIN held : node[g].size \in Nat
  BY <1>2, HeldAllocated
<1>4. h \in DOMAIN node /\ size <= node[h].size /\ ~IsFree(node, node[h].fwd) /\ h \in Nat
  BY <1>1, <1>2, <1>3, FirstFitFacts, ListFacts
<1> PICK N : N = Carve(node, h, size)
  OBVIOUS
<1>5. GoodList(N, arena_size)
  BY <1>2, <1>3, <1>4, CarveGood
<1>6. /\ Allocated(N) = Allocated(node) \cup {h} /\ N[h].size >= size
      /\ \A g \in Allocated(node) : g # h => N[g].size = node[g].size
  BY <1>2, <1>3, <1>4, CarveAllocates
<1>7. h \in DOMAIN N /\ N[h].size \in Nat /\ \A g \in DOMAIN held : g \in DOMAIN N
  BY <1>3, <1>5, <1>6, ListFacts DEF Allocated
<1>8. size <= N[h].size /\ h \in Int /\ 0 \in Nat /\ 0 <= size
  BY <1>2, <1>4, <1>6, <1>7
<1>9. \A g \in DOMAIN held : g # NULL /\ g # h => g \in DOMAIN N /\ N[g].size >= node[g].size
  BY <1>3, <1>6, <1>7
<1>10. /\ DOMAIN node' \subseteq DOMAIN N
       /\ mem' = Written(N, h, size, tag, h, 0, 0, NULL) /\ held' = Hold(h, size, tag, NULL)
  BY <1>1
<1> QED BY <1>2, <1>5, <1>7, <1>8, <1>9, <1>10, WrittenIntact

LEMMA WfreeIntact ==
    ASSUME Inv, DataIntact, NEW h \in DOMAIN held, Wfree(h)
    PROVE  DataIntact'
<1>1. arena = "mapped" /\ arena_size \in Nat /\ h \in DOMAIN node /\ InArena(h)
  BY HeldInArena
<1>2. GoodList(node, arena_size) /\ AllCoalesced(node) /\ DOMAIN mem = 0 .. arena_size - 1
  BY <1>1 DEF Inv, ArenaInv
<1>3. /\ node' = Freed(node, h) /\ held' = GiveUp(h)
      /\ mem' = Written(node, h, 0, Junk, h, 0, 0, h)
  BY <1>1 DEF Wfree
<1>4. DOMAIN node' \subseteq DOMAIN node
  BY <1>3, FreedShrinks
<1>5. \A g \in DOMAIN node : /\ g \in Nat /\ node[g].size \in Int /\ node[g].size <= node[g].size
                             /\ g + HeaderSize < arena_size /\ HeaderSize \in Nat
  BY <1>1, <1>2, ListFacts
<1>6. ASSUME NEW b \in DOMAIN mem, b \notin Bytes(h + HeaderSize, node[h].size)
      PROVE  mem'[b] = mem[b]
  <2>1. ~\E g \in DOMAIN node \ Chunks : b \in Bytes(g, HeaderSize)
    BY DEF Chunks
  <2>2. b \notin Bytes(h + HeaderSize, 0)
    BY <1>1, <1>5 DEF Bytes
  <2> QED BY <1>3, <1>6, <2>1, <2>2 DEF Written
<1>7. ASSUME NEW g \in DOMAIN node', NEW b \in Bytes(g, HeaderSize) PROVE mem'[b] = Header
  <2>1. g \in DOMAIN node /\ b \in DOMAIN mem
    BY <1>1, <1>2, <1>4, <1>5 DEF Bytes
  <2>2. b \notin Bytes(h + HeaderSize, node[h].size)
    BY <1>1, <1>2, <1>5, <2>1, ChunksApart
  <2> QED BY <1>6, <2>1, <2>2 DEF DataIntact, Chunks
<1>8. ASSUME NEW g \in DOMAIN held', NEW b \in Bytes(g + HeaderSize, held'[g].len)
      PROVE  mem'[b] = held'[g].tag
  <2>1. g \in DOMAIN held /\ g # h /\ held'[g] = held[g]
    BY <1>3 DEF GiveUp
  <2>2. g \in DOMAIN node /\ held[g].len \in Nat /\ held[g].len <= node[g].size
    BY <2>1, HeldInArena
  <2>3. b \in DOMAIN mem
    BY <1>1, <1>2, <1>8, <2>1, <2>2, BlockInArena
  <2>4. b \notin Bytes(h + HeaderSize, node[h].size)
    <3>1. b \in Bytes(g + HeaderSize, held[g].len) /\ held[g].len \in Int
      BY <1>8, <2>1, <2>2
    <3> QED BY <1>1, <1>2, <1>5, <2>1, <2>2, <3>1, ChunksApart
  <2> QED BY <1>6, <1>8, <2>1, <2>3, <2>4 DEF DataIntact
<1> QED BY <1>7, <1>8 DEF DataIntact, Chunks

LEMMA WreallocInPlaceIntact ==
    ASSUME Inv, DataIntact, NEW h \in DOMAIN held, NEW size \in Sizes, WreallocInPlace(h, size)
    PROVE  DataIntact'
<1> PICK kept : kept = Smaller(held[h].len, size)
  OBVIOUS
<1> PICK N : N = Extend(node, h, size)
  OBVIOUS
<1> PICK tag : tag = held[h].tag
  OBVIOUS
<1>1. /\ arena = "mapped" /\ h \in Nat /\ h \in Allocated(node) /\ held[h].len \in Nat
      /\ size \in Nat
  BY HeldInArena, SizesAssumption
<1>2. /\ arena_size \in Nat /\ GoodList(node, arena_size) /\ AllCoalesced(node)
      /\ DOMAIN held = Allocated(node) /\ \A g \in DOMAIN held : node[g].size \in Nat
  BY <1>1, HeldAllocated
<1>3. /\ IsFree(node, node[h].fwd)
      /\ node[h].size + HeaderSize + node[node[h].fwd].size >= size
      /\ node' = N /\ mem' = Written(N, h, size, tag, h, kept, kept, NULL)
      /\ held' = Hold(h, size, tag, NULL)
  BY DEF WreallocInPlace, NextIsEnough
<1>4. size <= node[h].size + HeaderSize + node[node[h].fwd].size
  <2>1. node[h].fwd # NULL /\ h \in DOMAIN node
    BY <1>1, <1>3 DEF IsFree, Allocated
  <2>2. node[h].fwd \in DOMAIN node /\ node[h].size \in Nat /\ HeaderSize \in Nat
    BY <1>2, <2>1, ListFacts
  <2>3. node[node[h].fwd].size \in Nat
    BY <1>2, <2>2, ListFacts
  <2> QED BY <1>1, <1>3, <2>2, <2>3
<1>5. /\ GoodList(N, arena_size) /\ Allocated(N) = Allocated(node) /\ N[h].size >= size
      /\ \A g \in Allocated(node) : g # h => N[g].size = node[g].size
  BY <1>1, <1>2, <1>3, <1>4, ExtendGood
<1>6. h \in DOMAIN N /\ N[h].size \in Nat /\ \A g \in DOMAIN held : g \in DOMAIN N
  BY <1>1, <1>2, <1>5, ListFacts DEF Allocated
<1>7. kept \in Nat /\ kept <= held[h].len /\ kept <= size
  BY <1>1, SmallerFacts
<1>8. size <= N[h].size /\ h \in Int /\ h \in DOMAIN held
  BY <1>1, <1>5, <1>6
<1>9. \A g \in DOMAIN held : g # NULL /\ g # h => g \in DOMAIN N /\ N[g].size >= node[g].size
  BY <1>2, <1>5, <1>6
<1>10. DOMAIN node' \subseteq DOMAIN N
  BY <1>3
<1> QED BY <1>1, <1>3, <1>5, <1>6, <1>7, <1>8, <1>9, <1>10, WrittenIntact

LEMMA WreallocMovesIntact ==
    ASSUME Inv, DataIntact, NEW h \in DOMAIN held, NEW size \in Sizes, WreallocMoves(h, size)
    PROVE  DataIntact'
<1> PICK kept : kept = Smaller(held[h].len, size)
  OBVIOUS
<1> PICK tag : tag = held[h].tag
  OBVIOUS
<1>1. /\ arena = "mapped" /\ h \in DOMAIN node /\ h \in Nat /\ h \in Allocated(node)
      /\ held[h].len \in Nat /\ held[h].len <= node[h].size /\ size \in Nat /\ InArena(h)
  BY HeldInArena, SizesAssumption
<1>2. /\ arena_size \in Nat /\ GoodList(node, arena_size) /\ AllCoalesced(node)
      /\ DOMAIN held = Allocated(node) /\ \A g \in DOMAIN held : node[g].size \in Nat
  BY <1>1, HeldAllocated
<1>3. kept \in Nat /\ kept <= held[h].len /\ kept <= size /\ Smaller(CopySize(h, size), kept) = kept
  BY <1>1, <1>2 DEF Smaller, CopySize
<1>4. PICK to \in Chunks :
        /\ FirstFit(node, size, to)
        /\ node' = Freed(Carve(node, to, size), h)
        /\ mem' = Written(Carve(node, to, size), to, size, tag, h, kept, kept, h)
        /\ held' = Hold(to, size, tag, h)
  BY <1>1, <1>3 DEF WreallocMoves
<1>5. /\ to \in DOMAIN node /\ size <= node[to].size /\ ~IsFree(node, node[to].fwd)
      /\ to \in Nat /\ to \notin Allocated(node)
  BY <1>1, <1>2, <1>4, FirstFitFacts, ListFacts
<1> PICK N : N = Carve(node, to, size)
  OBVIOUS
<1>6. GoodList(N, arena_size)
  BY <1>1, <1>2, <1>5, CarveGood
<1>7. /\ Allocated(N) = Allocated(node) \cup {to} /\ AllCoalesced(N) /\ N[to].size >= size
      /\ \A g \in Allocated(node) : g # to => N[g].size = node[g].size
  BY <1>1, <1>2, <1>5, CarveAllocates
<1>8. to \in DOMAIN N /\ N[to].size \in Nat /\ h \in DOMAIN N /\ \A g \in DOMAIN held : g \in DOMAIN N
  BY <1>1, <1>2, <1>6, <1>7, ListFacts DEF Allocated
<1>9. DOMAIN node' \subseteq DOMAIN N
  BY <1>4, FreedShrinks
<1>10. size <= N[to].size /\ h \in Int /\ h \in DOMAIN held
  BY <1>1, <1>7, <1>8
<1>11. \A g \in DOMAIN held : g # h /\ g # to => g \in DOMAIN N /\ N[g].size >= node[g].size
  BY <1>2, <1>7, <1>8
<1>12. mem' = Written(N, to, size, tag, h, kept, kept, h) /\ held' = Hold(to, size, tag, h)
  BY <1>4
<1> QED BY <1>1, <1>3, <1>6, <1>8, <1>9, <1>10, <1>11, <1>12, WrittenIntact

LEMMA WreallocZeroIntact ==
    ASSUME Inv, DataIntact, NEW h \in DOMAIN held, WreallocZero(h, held[h].tag)
    PROVE  DataIntact'
<1> PICK tag : tag = held[h].tag
  OBVIOUS
<1> PICK F : F = Freed(node, h)
  OBVIOUS
<1>1. arena = "mapped" /\ h \in DOMAIN node /\ h \in Allocated(node) /\ InArena(h)
  BY HeldInArena
<1>2. /\ arena_size \in Nat /\ GoodList(node, arena_size) /\ AllCoalesced(node)
      /\ DOMAIN held = Allocated(node) /\ \A g \in DOMAIN held : node[g].size \in Nat
  BY <1>1, HeldAllocated
<1>3. PICK to \in DOMAIN F :
        /\ FirstFit(F, 0, to)
        /\ node' = Carve(F, to, 0)
        /\ mem' = Written(Carve(F, to, 0), to, 0, tag, to, 0, 0, h)
        /\ held' = Hold(to, 0, tag, h)
  BY <1>1 DEF WreallocZero
<1>4. /\ GoodList(F, arena_size) /\ AllCoalesced(F) /\ Allocated(F) = Allocated(node) \ {h}
      /\ \A g \in Allocated(node) \ {h} : F[g].size >= node[g].size
  BY <1>1, <1>2, FreedGood DEF Keeps
<1>5. to \in Nat /\ 0 <= F[to].size /\ ~IsFree(F, F[to].fwd)
  BY <1>2, <1>3, <1>4, FirstFitFacts, ListFacts
<1> PICK N : N = Carve(F, to, 0)
  OBVIOUS
<1>6. GoodList(N, arena_size)
  BY <1>2, <1>4, <1>5, CarveGood
<1>7. /\ Allocated(N) = Allocated(F) \cup {to} /\ N[to].size >= 0
      /\ \A g \in Allocated(F) : g # to => N[g].size = F[g].size
  BY <1>2, <1>4, <1>5, CarveAllocates
<1>8. to \in DOMAIN N /\ N[to].size \in Nat
  BY <1>2, <1>6, <1>7, ListFacts DEF Allocated
<1>9. \A g \in DOMAIN held : g # h /\ g # to => g \in DOMAIN N /\ N[g].size >= node[g].size
  BY <1>2, <1>4, <1>7 DEF Allocated
<1>10. 0 <= N[to].size /\ to \in Int /\ 0 \in Nat /\ 0 <= 0
  BY <1>5, <1>8
<1>11. /\ DOMAIN node' \subseteq DOMAIN N
       /\ mem' = Written(N, to, 0, tag, to, 0, 0, h) /\ held' = Hold(to, 0, tag, h)
  BY <1>3
<1> QED BY <1>1, <1>6, <1>8, <1>9, <1>10, <1>11, WrittenIntact

LEMMA InitOKIntact ==
    ASSUME NEW size \in InitSizes, InitOK(size)
    PROVE  DataIntact'
<1>1. size \in Nat /\ size > 0
  BY SizesAssumption DEF InitOK
<1> PICK adjusted : adjusted = RoundToPage(size)
  OBVIOUS
<1>2. adjusted \in Nat /\ adjusted > HeaderSize /\ HeaderSize \in Nat
  BY <1>1, PageRoom, SizesAssumption
<1>3. /\ DOMAIN node' = {0} /\ held' = Empty
      /\ mem' = [b \in 0 .. adjusted - 1 |-> IF b < HeaderSize THEN Header ELSE Junk]
  BY DEF InitOK
<1>4. \A b \in Bytes(0, HeaderSize) : mem'[b] = Header
  BY <1>2, <1>3 DEF Bytes
<1> QED BY <1>3, <1>4 DEF DataIntact, Chunks, Empty

LEMMA DataNext == Inv /\ DataIntact /\ [Next]_vars => DataIntact'
<1> SUFFICES ASSUME Inv, DataIntact, [Next]_vars PROVE DataIntact'
  OBVIOUS
<1>1. ASSUME UNCHANGED <<node, mem, held>> PROVE DataIntact'
  BY <1>1 DEF DataIntact, Chunks
<1>2. ASSUME node' = Empty, held' = Empty PROVE DataIntact'
  BY <1>2 DEF DataIntact, Chunks, Empty
<1>3. ASSUME NEW size \in InitSizes, InitBadSize(size) \/ InitOpenFails(size) PROVE DataIntact'
  BY <1>1, <1>3 DEF InitBadSize, InitOpenFails
<1>4. ASSUME NEW size \in InitSizes, InitMmapFails(size) PROVE DataIntact'
  BY <1>2, <1>4 DEF InitMmapFails
<1>5. ASSUME NEW size \in InitSizes, InitOK(size) PROVE DataIntact'
  BY <1>5, InitOKIntact
<1>6. CASE Destroy
  BY <1>1, <1>2, <1>6 DEF Destroy
<1>7. ASSUME NEW size \in Sizes, NEW tag \in Tag, Walloc(size, tag) PROVE DataIntact'
  BY <1>7, WallocIntact
<1>8. ASSUME NEW size \in Sizes, WallocFails(size) \/ WallocCrashes(size) PROVE DataIntact'
  BY <1>1, <1>8 DEF WallocFails, WallocCrashes
<1>9. ASSUME NEW h \in DOMAIN held, Wfree(h) PROVE DataIntact'
  BY <1>9, WfreeIntact
<1>10. ASSUME NEW h \in DOMAIN held, NEW size \in Sizes, WreallocInPlace(h, size) PROVE DataIntact'
  BY <1>10, WreallocInPlaceIntact
<1>11. ASSUME NEW h \in DOMAIN held, NEW size \in Sizes,
              WreallocBreaks(h, size) \/ WreallocFails(h, size)
       PROVE  DataIntact'
  BY <1>1, <1>11 DEF WreallocBreaks, WreallocFails
<1>12. ASSUME NEW h \in DOMAIN held, NEW size \in Sizes, WreallocMoves(h, size) PROVE DataIntact'
  BY <1>12, WreallocMovesIntact
<1>13. ASSUME NEW h \in DOMAIN held, WreallocZero(h, held[h].tag) PROVE DataIntact'
  BY <1>13, WreallocZeroIntact
<1>14. CASE UNCHANGED vars
  BY <1>1, <1>14 DEF vars
<1> QED BY <1>3, <1>4, <1>5, <1>6, <1>7, <1>8, <1>9, <1>10, <1>11, <1>12, <1>13, <1>14
        DEF Next, Call, Dead

(* No call disturbs what the client has written, and the client hits no header,
   for every size of header, page and request: walloc, wfree and wrealloc, the
   copy that wrealloc makes included, write only headers that are theirs and
   bytes of the block they hand out or take back. *)
THEOREM NothingDisturbed == Spec => []DataIntact
<1>1. Init => DataIntact
  BY DEF Init, DataIntact, Chunks, Empty
<1> QED BY <1>1, DataNext, Invariance, PTL DEF Spec

=============================================================================

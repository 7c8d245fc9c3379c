------------------------------ MODULE GgmlRows ------------------------------
(***************************************************************************)
(* The operators of src/tools/ref/ops.cpp that work on rows: reductions,   *)
(* norms, softmax, sums of products, selections of rows by an index,       *)
(* repetition, concatenation and the rotary embedding.                     *)
(***************************************************************************)
EXTENDS GgmlElements

\* The row of src0 element i is in.
RowSrc0(ne, i) == {<<"src0", [i EXCEPT ![1] = k]>> : k \in Upto(ne[1])}
RowSrc1(ne, i) == {<<"src1", [i EXCEPT ![1] = k]>> : k \in Upto(ne[1])}

\* Rows i01 of every plane.
PlaneRows(ne, rows) == Upto(ne[1]) \X rows \X Upto(ne[3]) \X Upto(ne[4])
\* What each thread computes for its rows of every plane.
Planewise(ne, nth, Share(_, _, _), given, From(_)) ==
  Plan(given, Put(Elements(ne), From),
       EachThread(nth, LAMBDA ith : Put(PlaneRows(ne, Share(ne[2], nth, ith)), From)))

-----------------------------------------------------------------------------
(* Reductions.                                                             *)

Scalar == <<1, 1, 1, 1>>
Sum(ne, nth) ==
  Rowwise(Scalar, nth, FirstOnly, Cells("src0", ne), LAMBDA i : Cells("src0", ne))
SumRows(ne, nth) ==
  Rowwise([ne EXCEPT ![1] = 1], nth, FirstOnly, Cells("src0", ne), LAMBDA i : RowSrc0(ne, i))
Mean(ne, nth) ==
  Rowwise([ne EXCEPT ![1] = 1], nth, FirstOnly, Cells("src0", ne), LAMBDA i : RowSrc0(ne, i))
\* Of a matrix: element i1 of dst is the place of the greatest element of row i1.
Argmax(ne, nth) ==
  LET Whole(i1) == RowSrc0(ne, <<0, i1, 0, 0>>)
  IN Plan(Cells("src0", ne), Put(Elements(<<ne[2], 1, 1, 1>>), LAMBDA i : Whole(i[1])),
          EachThread(nth, LAMBDA ith :
            Put({<<i1, 0, 0, 0>> : i1 \in FirstOnly(ne[2], nth, ith)}, LAMBDA i : Whole(i[1]))))
Cumsum(ne, nth) ==
  Rowwise(ne, nth, Chunk, Cells("src0", ne),
          LAMBDA i : {<<"src0", [i EXCEPT ![1] = k]>> : k \in 0 .. i[1]})

\* Each thread counts in its rows; all but the first leave their count in
\* sums, and after the barrier the first adds them up.  The rows are decoded
\* with ne03 and ne02 where the plane sizes are meant, which is right for
\* matrices (ne02 = ne03 = 1).
CountedRow(ne, ir) ==
  LET i03 == ir \div (ne[3] * ne[2])
      i02 == (ir - i03 * ne[4]) \div ne[2]
  IN <<ir - i03 * ne[4] - i02 * ne[3], i02, i03>>
\* A faulty variant of CountEqual: the other threads return without meeting.
CountEqualEarly(ne, nth) ==
  LET In(rows) == UNION {LET r == CountedRow(ne, ir)
                             i == <<i00, r[1], r[2], r[3]>> IN Src0(i) \cup Src1(i) :
                           ir \in rows, i00 \in Upto(ne[1])}
      Counted(ith) == In(Chunk(NRows(ne), nth, ith))
      Others == {<<"sums", other>> : other \in 1 .. nth - 1}
  IN PlanWith(Both(ne, ne), Others, Put({Number}, LAMBDA i : Both(ne, ne)),
       [ith \in Upto(nth) |->
          IF ith = 0 THEN <<Idle, Barrier, Put({Number}, LAMBDA i : Counted(0) \cup Others)>>
          ELSE <<[c \in {<<"sums", ith>>} |-> Counted(ith)]>>])
CountEqual(ne, nth) ==
  LET In(rows) == UNION {LET r == CountedRow(ne, ir)
                             i == <<i00, r[1], r[2], r[3]>> IN Src0(i) \cup Src1(i) :
                           ir \in rows, i00 \in Upto(ne[1])}
      Counted(ith) == In(Chunk(NRows(ne), nth, ith))
      Others == {<<"sums", other>> : other \in 1 .. nth - 1}
  IN PlanWith(Both(ne, ne), Others, Put({Number}, LAMBDA i : Both(ne, ne)),
       [ith \in Upto(nth) |->
          IF ith = 0 THEN <<Idle, Barrier, Put({Number}, LAMBDA i : Counted(0) \cup Others)>>
          ELSE <<[c \in {<<"sums", ith>>} |-> Counted(ith)], Barrier>>])

-----------------------------------------------------------------------------
(* Repetition and concatenation.                                           *)

\* dst is tiled with src0, tile by tile and row by row.
Repeat(ne0, ne, nth) ==
  LET Tile(n, k) == ne[k] \div ne0[k]
      At(tile, i) == [k \in 1 .. 4 |-> tile[k] * ne0[k] + i[k]]
      Tiles == Upto(Tile(ne, 1)) \X Upto(Tile(ne, 2)) \X Upto(Tile(ne, 3)) \X Upto(Tile(ne, 4))
      Copied0(i) == {At(tile, i) : tile \in Tiles}
      Origin0(j) == CHOOSE i \in Elements(ne0) : j \in Copied0(i)
  IN Plan(Cells("src0", ne0), Put(Elements(ne), LAMBDA j : Src0([k \in 1 .. 4 |-> j[k] % ne0[k]])),
          EachThread(nth, LAMBDA ith :
            IF ith = 0 THEN Put(UNION {Copied0(i) : i \in Elements(ne0)}, LAMBDA j : Src0(Origin0(j)))
            ELSE Idle))

\* The other way round: dst is zero, then every tile of src0 is added to it.
RepeatBack(ne0, ne, nth) ==
  LET Tile(n, k) == ne0[k] \div ne[k]
      Tiles == Upto(Tile(ne, 1)) \X Upto(Tile(ne, 2)) \X Upto(Tile(ne, 3)) \X Upto(Tile(ne, 4))
      Added(i) == {<<"src0", [k \in 1 .. 4 |-> tile[k] * ne[k] + i[k]]>> : tile \in Tiles}
  IN Plan(Cells("src0", ne0),
          Put(Elements(ne), LAMBDA j :
            {<<"src0", i>> : i \in {i \in Elements(ne0) : \A k \in 1 .. 4 : i[k] % ne[k] = j[k]}}),
          EachThread(nth, LAMBDA ith : IF ith = 0 THEN Put(Elements(ne), Added) ELSE Idle))

\* Along dimension dim (1 .. 4 here): an element is src0's if src0 has one
\* there, and src1's otherwise, dim being counted from the end of src0.
Concat(ne0, ne1, dim, nth) ==
  LET ne == [ne0 EXCEPT ![dim] = @ + ne1[dim]]
      InSrc0(i) == \A k \in 1 .. 4 : i[k] < ne0[k]
      From(i) == IF InSrc0(i) THEN Src0(i) ELSE Src1([i EXCEPT ![dim] = @ - ne0[dim]])
      Own(ith) == {i \in Elements(ne) : i[3] \in Strided(ne[3], nth, ith)}
  IN Plan(Both(ne0, ne1),
          Put(Elements(ne), LAMBDA i :
                IF i[dim] < ne0[dim] THEN Src0(i) ELSE Src1([i EXCEPT ![dim] = @ - ne0[dim]])),
          EachThread(nth, LAMBDA ith : Put(Own(ith), From)))

\* The form for any type counts dimension 0 in blocks of blck elements; a cell
\* of dimension 0 is a block here.
ConcatAny(ne0, ne1, dim, blck, nth) ==
  LET Blocks(ne) == [ne EXCEPT ![1] = @ \div blck]
  IN Concat(Blocks(ne0), Blocks(ne1), dim, nth)

-----------------------------------------------------------------------------
(* Norms: rows strided over the threads.                                   *)

Norm(ne, nth) == Planewise(ne, nth, Strided, Cells("src0", ne), LAMBDA i : RowSrc0(ne, i))
L2Norm(ne, nth) == Planewise(ne, nth, Strided, Cells("src0", ne), LAMBDA i : RowSrc0(ne, i))
\* With a multiplication fused in, whose weights are repeated over dst.
RmsNorm(ne, ne1, fused, nth) ==
  LET Weight(i) == IF fused THEN Src1(<<i[1], i[2] % ne1[2], i[3] % ne1[3], i[4] % ne1[4]>>) ELSE {}
  IN Planewise(ne, nth, Strided, Cells("src0", ne) \cup IF fused THEN Cells("src1", ne1) ELSE {},
               LAMBDA i : RowSrc0(ne, i) \cup Weight(i))
RmsNormBack(ne, nth) ==
  Planewise(ne, nth, Strided, Both(ne, ne), LAMBDA i : RowSrc0(ne, i) \cup RowSrc1(ne, i))

\* Groups of channels, the last one cut; the threads take every nth group.
GroupNorm(ne, n_groups, nth) ==
  LET per == (ne[3] + n_groups - 1) \div n_groups
      Channels(g) == g * per .. Least(g * per + per, ne[3]) - 1
      Group(g, i3) == {i \in Elements(ne) : i[3] \in Channels(g) /\ i[4] = i3}
      Own(ith) == {i \in Elements(ne) : \E g \in Strided(n_groups, nth, ith) : i[3] \in Channels(g)}
      Sources(g, i3) == {<<"src0", i>> : i \in Group(g, i3)}
  IN Plan(Cells("src0", ne), Put(Elements(ne), LAMBDA i : Sources(i[3] \div per, i[4])),
          EachThread(nth, LAMBDA ith :
            Put(Own(ith), LAMBDA i :
              UNION {Sources(g, i[4]) : g \in {g \in Upto(n_groups) : i[3] \in Channels(g)}})))

\* With a mask (src1, repeated over the heads) and a sink for each head (src2).
SoftMax(ne, ne1, nth) ==
  LET Mask(i) == {<<"src1", <<k, i[2], i[3] % ne1[3], i[4] % ne1[4]>>>> : k \in Upto(ne[1])}
      From(i) == RowSrc0(ne, i) \cup Mask(i) \cup {<<"src2", i[3]>>}
      Own(ith) == PlaneRows(ne, Strided(ne[2], nth, ith))
  IN PlanWith(Both(ne, ne1) \cup {"src2"} \X Upto(ne[3]), OwnWdata(nth),
              Put(Elements(ne), From),
              EachThread(nth, LAMBDA ith : Through(ith, Put(Own(ith), From))))
SoftMaxBack(ne, nth) ==
  Rowwise(ne, nth, Chunk, Both(ne, ne), LAMBDA i : RowSrc0(ne, i) \cup RowSrc1(ne, i))

-----------------------------------------------------------------------------
(* Sums of products: dst is cleared by the first thread, and then every    *)
(* thread adds up its rows.  ne2 and ne3 of dst are multiples of src0's.   *)

Products(ne0, ne1, ne, i) ==
  LET i02 == i[3] \div (ne[3] \div ne0[3])
      i03 == i[4] \div (ne[4] \div ne0[4])
  IN UNION {Src0(<<i[1], i01, i02, i03>>) \cup Src1(<<i[2], i01, i[3], i[4]>>) : i01 \in Upto(ne0[2])}
Own0(ne, nth, ith) == RowCells(ne, Chunk(NRows(ne), nth, ith))
OutProd(ne0, ne1, nth) ==
  LET ne == <<ne0[1], ne1[1], ne1[3], ne1[4]>>
  IN Plan(Both(ne0, ne1), Put(Elements(ne), LAMBDA i : Products(ne0, ne1, ne, i)),
          AfterFirst(nth, Put(Elements(ne), LAMBDA i : {}), LAMBDA ith :
            Put(Own0(ne, nth, ith), LAMBDA i : {<<"dst", i>>} \cup Products(ne0, ne1, ne, i))))

\* The rows of src0 are converted into the thread's part of wdata on the way;
\* these forms take no repeated src0.
OutProdConverted(ne0, ne1, nth) ==
  LET ne == <<ne0[1], ne1[1], ne1[3], ne1[4]>>
      Sum1(ith) == Put(Own0(ne, nth, ith), LAMBDA i : {<<"dst", i>>} \cup Products(ne0, ne1, ne, i))
  IN PlanWith(Both(ne0, ne1), OwnWdata(nth),
              Put(Elements(ne), LAMBDA i : Products(ne0, ne1, ne, i)),
              AfterFirst(nth, Put(Elements(ne), LAMBDA i : {}), LAMBDA ith : Through(ith, Sum1(ith))))
OutProdQ(ne0, ne1, nth) == OutProdConverted(ne0, ne1, nth)
OutProdF16(ne0, ne1, nth) == OutProdConverted(ne0, ne1, nth)

-----------------------------------------------------------------------------
(* Rows chosen by an index tensor (src1); index holds its values.          *)

GetRows(ne0, ne1, index, nth) ==
  LET ne == <<ne0[1], ne1[1], ne1[2], ne1[3]>>
  IN Rowwise(ne, nth, Chunk, Both(ne0, ne1), LAMBDA i :
       Src0(<<i[1], index[i[2], i[3], i[4]], i[3], i[4]>>) \cup Src1(<<i[2], i[3], i[4], 0>>))
GetRowsQ(ne0, ne1, index, nth) == GetRows(ne0, ne1, index, nth)

\* Row i of plane (i02, i03) of src0 goes to row index[i, i02%ne11, i03%ne12]
\* of dst; the rows of one plane go to different rows, no two threads to one.
SetRows(ne0, ne1, index, nth) ==
  LET Target(i) == index[i[2], i[3] % ne1[2], i[4] % ne1[3]]
      Place(i) == <<i[1], Target(i), i[3], i[4]>>
      Origin0(own, j) == CHOOSE i \in own : Place(i) = j
      Used(i) == Src0(i) \cup Src1(<<i[2], i[3] % ne1[2], i[4] % ne1[3], 0>>)
      Written(own) == Put({Place(i) : i \in own}, LAMBDA j : Used(Origin0(own, j)))
  IN PlanWith(Both(ne0, ne1), OwnWdata(nth), Written(Elements(ne0)),
              EachThread(nth, LAMBDA ith :
                Through(ith, Written(PlaneRows(ne0, Chunk(ne0[2], nth, ith))))))

\* The gradient: dst is zero, then row i of src0 is added to row index[i].
GetRowsBack(ne0, ne01, index, nth) ==
  LET From(j) == UNION {Src0(<<j[1], i, 0, 0>>) : i \in {i \in Upto(ne0[2]) : index[i] = j[2]}}
  IN Rowwise(<<ne0[1], ne01, 1, 1>>, nth, FirstOnly, Cells("src0", ne0), From)

-----------------------------------------------------------------------------
(* The rotary embedding.  Each thread keeps the cosines and sines of one   *)
(* position in its part of wdata, and renews them when i2 changes.         *)

\* Which of the four positions (time, height, width, extra) pair p turns by.
RopePosition(mode, sections, p) ==
  LET sector == p % (sections[1] + sections[2] + sections[3] + sections[4])
      sec_w == sections[1] + sections[2]
  IN IF mode \notin {"mrope", "imrope", "vision"} THEN 0
     ELSE IF mode = "imrope"
       THEN CASE sector % 3 = 1 /\ sector < 3 * sections[2] -> 1
              [] sector % 3 = 2 /\ sector < 3 * sections[3] -> 2
              [] sector % 3 = 0 /\ sector < 3 * sections[1] -> 0
              [] OTHER -> 3
       ELSE CASE sector >= sections[1] /\ sector < sec_w -> 1
              [] sector >= sec_w /\ sector < sec_w + sections[3] -> 2
              [] sector >= sec_w + sections[3] -> 3
              [] OTHER -> 0

\* The pairs (first, second) that are turned in a row, by the pair's number.
RotatePairs(mode, ne0, n_dims) ==
  CASE mode = "normal" -> [p \in Upto(n_dims \div 2) |-> <<2 * p, 2 * p + 1>>]
    [] mode = "vision" -> [p \in Upto(ne0 \div 2) |-> <<p, p + n_dims>>]
    [] OTHER -> [p \in Upto(n_dims \div 2) |-> <<p, p + n_dims \div 2>>]

\* The thread's part of wdata: pair p is turned by position[p].
RopeCache(ith, ne0, position) ==
  [c \in {<<"wdata", <<ith, p>>>> : p \in Upto(ne0 \div 2)} |-> {position[c[2][2]]}]

Rope(ne, n_dims, mode, sections, nth) ==
  LET Position(i2, p) == <<"src1", i2 + ne[3] * RopePosition(mode, sections, p)>>
      pairs == RotatePairs(mode, ne[1], n_dims)
      Rows(ith) == Ascending(Chunk(NRows(ne), nth, ith))
      Cache(ith, i2) == RopeCache(ith, ne[1], [p \in Upto(ne[1] \div 2) |-> Position(i2, p)])
      Turn(ith, ir) ==
        LET At(i0) == ElementOf(ne, ir * ne[1] + i0)
            Turned(p, i0) == UNION {Src0(At(pairs[p][k])) : k \in {1, 2}} \cup {<<"wdata", <<ith, p>>>>}
            From(i) == LET mine == {p \in DOMAIN pairs : i[1] \in {pairs[p][1], pairs[p][2]}}
                       IN IF mine = {} THEN Src0(i) ELSE UNION {Turned(p, i[1]) : p \in mine}
        IN Put({At(i0) : i0 \in Upto(ne[1])}, From)
      I2(ir) == RowOf(ne, ir)[2]
      Renewed(rows, k) == IF k = 1 THEN TRUE ELSE I2(rows[k]) # I2(rows[k - 1])
      Partner(i0) == CASE mode = "vision" -> (i0 + n_dims) % ne[1]
                       [] mode = "normal" -> IF i0 % 2 = 0 THEN i0 + 1 ELSE i0 - 1
                       [] OTHER -> (i0 + n_dims \div 2) % n_dims
      Number0(i0) == IF mode = "normal" THEN i0 \div 2 ELSE Least(i0, Partner(i0))
      Wanted(i) == IF i[1] >= n_dims /\ mode # "vision" THEN Src0(i)
                   ELSE Src0(i) \cup Src0([i EXCEPT ![1] = Partner(i[1])])
                        \cup {Position(i[3], Number0(i[1]))}
  IN PlanWith(Cells("src0", ne) \cup {"src1"} \X Upto(4 * ne[3]),
              {"wdata"} \X (Upto(nth) \X Upto(ne[1] \div 2)),
              Put(Elements(ne), Wanted),
              [ith \in Upto(nth) |->
                [s \in 1 .. 2 * Len(Rows(ith)) |->
                   LET rows == Rows(ith)
                       k == (s + 1) \div 2
                   IN IF s % 2 = 0 THEN Turn(ith, rows[k])
                      ELSE IF Renewed(rows, k) THEN Cache(ith, I2(rows[k])) ELSE Idle]])
=============================================================================

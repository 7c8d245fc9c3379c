---------------------------- MODULE GgmlSequence ----------------------------
(***************************************************************************)
(* The operators of src/tools/ref/ops.cpp for sequences of tokens:         *)
(* attention, recurrent layers, windows of positions, and the training     *)
(* steps; and the operators that only choose another one.                  *)
(***************************************************************************)
EXTENDS GgmlWindows

-----------------------------------------------------------------------------
(* Flash attention.  A row of D elements is one cell: q [N, H, B],         *)
(* k and v [M, Hkv, Bkv], mask [M, N, Hm, Bm], a sink for each head.       *)

\* The work items are the rows of q, numbered as the loops decode them.
QueryRow(nq, ir) == RowOf(<<1, nq[1], nq[2], nq[3]>>, ir)
\* A row of dst has the head before the position: [H, N, B].
AttentionRow(nq, i) == <<"dst", i[3] * nq[1] * nq[2] + i[2] + i[1] * nq[2]>>

\* What query i takes from the positions ic of k and v: its head's group of
\* heads shares one head of theirs.
Attended(nq, nk, nm, i, positions) ==
  LET r == <<nq[2] \div nk[2], nq[3] \div nk[3]>>
      Taken(ic) == {<<"k", <<ic, i[2] \div r[1], i[3] \div r[2]>>>>,
                    <<"v", <<ic, i[2] \div r[1], i[3] \div r[2]>>>>,
                    <<"mask", <<ic, i[1], i[2] % nm[1], i[3] % nm[2]>>>>}
  IN {<<"q", i>>} \cup UNION {Taken(ic) : ic \in positions}

\* Rows ir of q against a range of positions; with the sinks when the range
\* begins at the first, straight into dst or into the partial results (place).
OneChunk(nq, nk, nm, rows, positions, place) ==
  LET I(ir) == QueryRow(nq, ir)
      Sink(ir) == IF 0 \in positions THEN {<<"sinks", I(ir)[2]>>} ELSE {}
  IN [c \in {place[ir] : ir \in rows} |->
        UNION {Attended(nq, nk, nm, I(ir), positions) \cup Sink(ir) : ir \in {ir \in rows : place[ir] = c}}]

\* The same rows in tiles <<first row, height>> of at most q_tile queries of one
\* head, each against tiles of kv_tile positions; a tile ends with the share
\* and with the head.
QueryTiles(nq, ir0, ir1, q_tile) ==
  LET Height(ir) == Least(q_tile, Least(ir1 - ir, nq[1] - QueryRow(nq, ir)[1]))
      tiles[ir \in ir0 .. ir1] ==
        IF ir = ir1 THEN {} ELSE {<<ir, Height(ir)>>} \cup tiles[ir + Height(ir)]
  IN tiles[ir0]
TilePositions(nk, kv_tile) ==
  UNION {ic .. Least(ic + kv_tile, nk[1]) - 1 : ic \in {ic \in Upto(nk[1]) : ic % kv_tile = 0}}
Tiled(nq, nk, nm, ir0, ir1, q_tile, kv_tile) ==
  LET Queries(tile) == {[QueryRow(nq, tile[1]) EXCEPT ![1] = @ + tq] : tq \in Upto(tile[2])}
      queries == UNION {Queries(tile) : tile \in QueryTiles(nq, ir0, ir1, q_tile)}
      Taken(i) == Attended(nq, nk, nm, i, TilePositions(nk, kv_tile)) \cup {<<"sinks", i[2]>>}
  IN [c \in {AttentionRow(nq, i) : i \in queries} |->
        UNION {Taken(i) : i \in {i \in queries : AttentionRow(nq, i) = c}}]

GivenAttention(nq, nk, nm) ==
  ({"q"} \X (Upto(nq[1]) \X Upto(nq[2]) \X Upto(nq[3])))
  \cup ({"k", "v"} \X (Upto(nk[1]) \X Upto(nk[2]) \X Upto(nk[3])))
  \cup ({"mask"} \X (Upto(nk[1]) \X Upto(nq[1]) \X Upto(nm[1]) \X Upto(nm[2])))
  \cup ({"sinks"} \X Upto(nq[2]))
RowPlaces(nq) == [ir \in Upto(nq[1] * nq[2] * nq[3]) |-> AttentionRow(nq, QueryRow(nq, ir))]
WantedAttention(nq, nk, nm) ==
  OneChunk(nq, nk, nm, Upto(nq[1] * nq[2] * nq[3]), Upto(nk[1]),
           RowPlaces(nq))

\* One query: the threads share the positions of k and v, leave partial
\* results for every head, and after the barrier share the heads to reduce
\* them.  A thread without positions leaves partial results that say so, and
\* the reduction skips them.
ReducePartials(nq, nk, n_chunks, chunk_size, ith, nth) ==
  [c \in {<<"dst", q_head>> : q_head \in Strided(nq[2], nth, ith)} |->
     {<<"partial", <<c[2], chunk_idx>>>> :
        chunk_idx \in {chunk_idx \in Upto(n_chunks) : chunk_idx * chunk_size < nk[1]}}]
FlashSplit(nq, nk, nm, nth) ==
  LET chunk_size == (nk[1] + nth - 1) \div nth
      Positions(ith) == ith * chunk_size .. Least(ith * chunk_size + chunk_size, nk[1]) - 1
      Partial(ith) ==
        IF Positions(ith) # {}
        THEN OneChunk(nq, nk, nm, Upto(nq[2]), Positions(ith),
                      [ir \in Upto(nq[2]) |-> <<"partial", <<ir, ith>>>>])
        ELSE [c \in {<<"partial", <<q_head, ith>>>> : q_head \in Upto(nq[2])} |-> {}]
  IN PlanWith(GivenAttention(nq, nk, nm),
              OwnWdata(nth) \cup ({"partial"} \X (Upto(nq[2]) \X Upto(nth))),
              WantedAttention(nq, nk, nm),
              [ith \in Upto(nth) |->
                 <<Through(ith, Partial(ith)), Barrier,
                   Through(ith, ReducePartials(nq, nk, nth, chunk_size, ith, nth))>>])

\* Chunks for the pool's counter: about four for each thread, or one if that
\* is less than the threads are.  share[ir0, ir1] is the step for those rows.
Counted(nr, nth) ==
  LET chunk_size == (nr + nth * 4 - 1) \div (nth * 4)
      nchunk == (nr + chunk_size - 1) \div chunk_size
  IN IF nth = 1 \/ nchunk < nth THEN nth ELSE nchunk
\* A faulty variant of ChunkProgram: nobody waits for the counter to be set.
ChunkProgramUnset(nth) == [ith \in Upto(nth) |-> <<IF ith = 0 THEN SetChunks ELSE Idle, Claims>>]
ChunkProgram(nth) == [ith \in Upto(nth) |-> <<IF ith = 0 THEN SetChunks ELSE Idle, Barrier, Claims>>]
Chunked(plan, nr, nth, share) ==
  LET nchunk == Counted(nr, nth)
      dr == (nr + nchunk - 1) \div nchunk
      Rows(chunk) == share[dr * chunk, Least(dr * chunk + dr, nr)]
  IN [plan EXCEPT
        !.program = ChunkProgram(nth),
        !.chunks = [ith \in Upto(nth) |-> [c \in 1 .. nchunk |-> Through(ith, Rows(c - 1))]]]

\* Which way: split at the first many positions for one query, in tiles when
\* there are queries enough for one (q_tile of them), by the row otherwise.
FlashAttnExt(nq, nk, nm, split_at, q_tile, kv_tile, nth) ==
  LET nr == nq[1] * nq[2] * nq[3]
      Rows(ir0, ir1) ==
        IF ir0 >= ir1 THEN Idle
        ELSE IF nq[1] >= q_tile THEN Tiled(nq, nk, nm, ir0, ir1, q_tile, kv_tile)
        ELSE OneChunk(nq, nk, nm, ir0 .. ir1 - 1, Upto(nk[1]), RowPlaces(nq))
      plan == PlanWith(GivenAttention(nq, nk, nm), OwnWdata(nth), WantedAttention(nq, nk, nm),
                       [ith \in Upto(nth) |-> <<>>])
  IN IF nq[1] = 1 /\ nq[3] = 1 /\ nk[1] >= split_at THEN FlashSplit(nq, nk, nm, nth)
     ELSE Chunked(plan, nr, nth, [r \in Nat \X Nat |-> Rows(r[1], r[2])])

\* The gradients: dst holds those of q, k and v one after the other, cleared by
\* the first thread.  A thread takes heads of k and v, and for each of them
\* every query that uses it, so that no two threads add to one gradient.  The
\* heads of q are paired with those of k every nek2 heads, where the forward
\* pass pairs neighbours, and batches of k are neq2 heads apart: it is right
\* for neq2 = nek2.
SeenBy(nq, nk, masked, i) == IF masked THEN Upto(nk[1] - nq[1] + i[1] + 1) ELSE Upto(nk[1])
\* What the softmax of query i against head ik2 of k comes from, and its gradient.
BackSoftmax(seen, i, ik2) == {<<"q", i>>} \cup {<<"k", <<ic, ik2, i[3]>>>> : ic \in seen}
BackGradient(seen, i, ik2) ==
  BackSoftmax(seen, i, ik2) \cup {<<"d", i>>} \cup {<<"v", <<ic, ik2, i[3]>>>> : ic \in seen}
\* The rows of dst that query i adds to: GradRow's batches are neq2 heads apart.
GradRow(nq, tensor, n1, i) == <<tensor, i[1] + n1 * (i[2] + nq[2] * i[3])>>
BackAdded(nq, nk, seen, i, ik2) ==
  {GradRow(nq, "grad_q", nq[1], i)}
  \cup {GradRow(nq, grad, nk[1], <<ic, ik2, i[3]>>) : grad \in {"grad_k", "grad_v"}, ic \in seen}
FlashAttnBack(nq, nk, masked, nth) ==
  LET nrep == nq[2] \div nk[2]
      Seen(i) == SeenBy(nq, nk, masked, i)
      Row(tensor, n1, i) == GradRow(nq, tensor, n1, i)
      Softmax(i, ik2) == BackSoftmax(Seen(i), i, ik2)
      Gradient(i, ik2) == BackGradient(Seen(i), i, ik2)
      \* x = <<iq1, ik2, irep, ik3>>, and the query it stands for.
      I(x) == <<x[1], x[2] + x[3] * nk[2], x[4]>>
      Turns(items) == {<<iq1, ir % nk[2], irep, ir \div nk[2]>> :
                         iq1 \in Upto(nq[1]), irep \in Upto(nrep), ir \in items}
      Added(x) == BackAdded(nq, nk, Seen(I(x)), I(x), x[2])
      Step(items) ==
        [c \in UNION {Added(x) : x \in Turns(items)} |->
           {c} \cup UNION {IF c[1] = "grad_v" THEN Softmax(I(x), x[2]) \cup {<<"d", I(x)>>}
                           ELSE Gradient(I(x), x[2]) : x \in {x \in Turns(items) : c \in Added(x)}}]
      Queries == Upto(nq[1]) \X Upto(nq[2]) \X Upto(nq[3])
      Positions == Upto(nk[1]) \X Upto(nk[2]) \X Upto(nk[3])
      Of(i) == i[2] \div nrep
      Users(j) == {i \in Queries : Of(i) = j[2] /\ i[3] = j[3] /\ j[1] \in Seen(i)}
      Zero == [c \in {Row("grad_q", nq[1], i) : i \in Queries}
                     \cup {Row(grad, nk[1], j) : grad \in {"grad_k", "grad_v"}, j \in Positions} |-> {}]
      Wanted ==
        [c \in DOMAIN Zero |->
           CASE c[1] = "grad_q" -> UNION {Gradient(i, Of(i)) : i \in {i \in Queries : Row("grad_q", nq[1], i) = c}}
             [] c[1] = "grad_k" -> UNION {UNION {Gradient(i, Of(i)) : i \in Users(j)} :
                                            j \in {j \in Positions : Row("grad_k", nk[1], j) = c}}
             [] OTHER -> UNION {UNION {Softmax(i, Of(i)) \cup {<<"d", i>>} : i \in Users(j)} :
                                  j \in {j \in Positions : Row("grad_v", nk[1], j) = c}}]
  IN PlanWith(({"q", "d"} \X Queries) \cup ({"k", "v"} \X Positions), OwnWdata(nth), Wanted,
              AfterFirst(nth, Zero, LAMBDA ith : Through(ith, Step(Chunk(nk[2] * nk[3], nth, ith)))))

-----------------------------------------------------------------------------
(* Recurrent layers: a token's output and the next state come from the     *)
(* state before it, at the first token of a sequence from the given one.   *)

\* A window of nc tokens of each channel.
SsmConv(nc, nr, n_t, n_s, nth) ==
  LET Window1(i) == UNION {Src0(<<i[2] + i0, i[1], i[3], 0>>) \cup Src1(<<i0, i[1], 0, 0>>) : i0 \in Upto(nc)}
      Own(ith) == Chunk(nr, nth, ith) \X Upto(n_t) \X Upto(n_s) \X {0}
  IN Plan(Cells("src0", <<nc - 1 + n_t, nr, n_s, 1>>) \cup Cells("src1", <<nc, nr, 1, 1>>),
          Put(Elements(<<nr, n_t, n_s, 1>>), Window1),
          EachThread(nth, LAMBDA ith : Put(Own(ith), Window1)))

\* What a token brings to the state of a head: one decay for the head, or one
\* for each element of the state.
Token(h, g, i1, i0, i2, i3) == {<<"dt", <<h, i2, i3>>>>, <<"x", <<i1, h, i2, i3>>>>, <<"B", <<i0, g, i2, i3>>>>}
Mamba2(h, g, i1, i0, i2, i3) == {<<"A", <<0, h>>>>} \cup Token(h, g, i1, i0, i2, i3)
Mamba1(h, g, i1, i0, i2, i3) == {<<"A", <<i0, h>>>>} \cup Token(h, g, i1, i0, i2, i3)
\* n = <<nc, nr, nh, ng, nt, ns>>; sequence i3 starts from state ids[i3], wide tells
\* whether A has a row for each head or one number.  The threads share the heads.
SsmScan(n, ids, wide, nth) ==
  LET g(h) == h \div (n[3] \div n[4])
      Prev(i0, i1, h, i2, i3) ==
        IF i2 = 0 THEN <<"s0", <<i0, i1, h, ids[i3]>>>> ELSE <<"state", <<i0, i1, h, i3>>>>
      Brought(i0, i1, h, i2, i3) ==
        IF wide THEN Mamba1(h, g(h), i1, i0, i2, i3) ELSE Mamba2(h, g(h), i1, i0, i2, i3)
      Read(i0, h, i2, i3) == <<"C", <<i0, g(h), i2, i3>>>>
      Step(ith, i2, i3) ==
        LET heads == Chunk(n[3], nth, ith)
        IN [c \in ({"y"} \X (Upto(n[2]) \X heads \X {i2} \X {i3}))
                  \cup ({"state"} \X (Upto(n[1]) \X Upto(n[2]) \X heads \X {i3})) |->
             IF c[1] = "y"
             THEN UNION {{Prev(i0, c[2][1], c[2][2], i2, i3), Read(i0, c[2][2], i2, i3)}
                         \cup Brought(i0, c[2][1], c[2][2], i2, i3) : i0 \in Upto(n[1])}
             ELSE {Prev(c[2][1], c[2][2], c[2][3], i2, i3)} \cup Brought(c[2][1], c[2][2], c[2][3], i2, i3)]
      Lived(i0, i1, h, i2, i3) ==
        {Prev(i0, i1, h, 0, i3)} \cup UNION {Brought(i0, i1, h, t, i3) : t \in 0 .. i2}
      Outputs == {"y"} \X (Upto(n[2]) \X Upto(n[3]) \X Upto(n[5]) \X Upto(n[6]))
      States(name) == {name} \X (Upto(n[1]) \X Upto(n[2]) \X Upto(n[3]) \X Upto(n[6]))
  IN Plan(States("s0") \cup ({"A"} \X (Upto(n[1]) \X Upto(n[3])))
            \cup ({"dt"} \X (Upto(n[3]) \X Upto(n[5]) \X Upto(n[6])))
            \cup ({"x"} \X (Upto(n[2]) \X Upto(n[3]) \X Upto(n[5]) \X Upto(n[6])))
            \cup ({"B", "C"} \X (Upto(n[1]) \X Upto(n[4]) \X Upto(n[5]) \X Upto(n[6]))),
          [c \in Outputs \cup States("state") |->
             IF c[1] = "y"
             THEN UNION {Lived(i0, c[2][1], c[2][2], c[2][3], c[2][4]) \cup {Read(i0, c[2][2], c[2][3], c[2][4])} :
                           i0 \in Upto(n[1])}
             ELSE Lived(c[2][1], c[2][2], c[2][3], n[5] - 1, c[2][4])],
          [ith \in Upto(nth) |->
             [k \in 1 .. n[5] * n[6] |-> Step(ith, (k - 1) % n[5], (k - 1) \div n[5])]])

\* The linear attentions: n = <<T, HEADS, S, n_seqs>>, T tokens of n_seqs sequences of
\* the same length, heads of S elements with a state of S*S.  The threads share
\* the heads.  A state's cell is <<"state", <<sequence, head, i, j>>>>, a
\* token's <<name, <<token, head, i>>>>.
Sequence(n, t) == t \div (n[1] \div n[4])
StartOf(n, t) == t - (t % (n[1] \div n[4]))
Before(n, t, h, i, j) ==
  <<IF t = StartOf(n, t) THEN "s0" ELSE "state", <<Sequence(n, t), h, i, j>>>>
OfToken(names, t, h, i) == names \X {<<t, h, i>>}

\* out and state: what a step computes a token's output and the new state from;
\* wantedOut and wantedState: what they are in the end to be computed from.
\* Clearing dst first is for those that add to it.
TokenElements(n) == Upto(n[1]) \X Upto(n[2]) \X Upto(n[3])
TokenStates(n) == Upto(n[1]) \X Upto(n[2]) \X Upto(n[3]) \X Upto(n[3])
Recurrent(n, names, cleared, out, state, wantedOut, wantedState, nth) ==
  LET Tokens == TokenElements(n)
      States == Upto(n[4]) \X Upto(n[2]) \X Upto(n[3]) \X Upto(n[3])
      Step(t, heads) ==
        [c \in ({"dst"} \X ({t} \X heads \X Upto(n[3])))
               \cup ({"state"} \X ({Sequence(n, t)} \X heads \X Upto(n[3]) \X Upto(n[3]))) |->
           IF c[1] = "dst" THEN out[c[2]] ELSE state[t, c[2][2], c[2][3], c[2][4]]]
      Last(seq) == (seq + 1) * (n[1] \div n[4]) - 1
      Cleared(ith) == IF ith = 0 THEN PutIn("dst", Tokens, LAMBDA i : {}) ELSE Idle
  IN Plan((names \X Tokens) \cup ({"time_faaaa"} \X (Upto(n[2]) \X Upto(n[3]))) \cup ({"s0"} \X States),
          [c \in ({"dst"} \X Tokens) \cup ({"state"} \X States) |->
             IF c[1] = "dst" THEN wantedOut[c[2]]
             ELSE wantedState[Last(c[2][1]), c[2][2], c[2][3], c[2][4]]],
          [ith \in Upto(nth) |->
             (IF cleared THEN <<Cleared(ith), Barrier>> ELSE <<>>)
             \o [t \in 1 .. n[1] |-> Step(t - 1, HeadsOf(n[2], nth, ith))]])

\* What a state has taken of the tokens before t.
History(n, t, h, i, j, Brought(_, _, _, _)) ==
  {<<"s0", <<Sequence(n, t), h, i, j>>>>} \cup UNION {Brought(u, h, i, j) : u \in StartOf(n, t) .. t - 1}

\* The output of element j comes from column j of the state.
RwkvWkv6(n, nth) ==
  LET Brought(t, h, i, j) == OfToken({"k", "time_decay"}, t, h, i) \cup OfToken({"v"}, t, h, j)
      Used(t, h, i, j) == OfToken({"k", "r"}, t, h, i) \cup OfToken({"v"}, t, h, j) \cup {<<"time_faaaa", <<h, i>>>>}
      Out(t, h, j) == {<<"dst", <<t, h, j>>>>}
                      \cup UNION {{Before(n, t, h, i, j)} \cup Used(t, h, i, j) : i \in Upto(n[3])}
      State(t, h, i, j) == {Before(n, t, h, i, j)} \cup Brought(t, h, i, j)
      Past(t, h, i, j) == History(n, t, h, i, j, Brought)
      WantedOut(t, h, j) == UNION {Past(t, h, i, j) \cup Used(t, h, i, j) : i \in Upto(n[3])}
      WantedState(t, h, i, j) == Past(t, h, i, j) \cup Brought(t, h, i, j)
  IN Recurrent(n, {"k", "v", "r", "time_decay"}, TRUE,
       [x \in TokenElements(n) |-> Out(x[1], x[2], x[3])],
       [x \in TokenStates(n) |-> State(x[1], x[2], x[3], x[4])],
       [x \in TokenElements(n) |-> WantedOut(x[1], x[2], x[3])],
       [x \in TokenStates(n) |-> WantedState(x[1], x[2], x[3], x[4])], nth)

Gla(n, nth) ==
  LET Brought(t, h, i, j) == OfToken({"k", "g"}, t, h, i) \cup OfToken({"v"}, t, h, j)
      Used(t, h, i, j) == Brought(t, h, i, j) \cup OfToken({"q"}, t, h, i)
      Out(t, h, j) == {<<"dst", <<t, h, j>>>>}
                      \cup UNION {{Before(n, t, h, i, j)} \cup Used(t, h, i, j) : i \in Upto(n[3])}
      State(t, h, i, j) == {Before(n, t, h, i, j)} \cup Brought(t, h, i, j)
      Past(t, h, i, j) == History(n, t, h, i, j, Brought)
      WantedOut(t, h, j) == UNION {Past(t, h, i, j) \cup Used(t, h, i, j) : i \in Upto(n[3])}
      WantedState(t, h, i, j) == Past(t, h, i, j) \cup Brought(t, h, i, j)
  IN Recurrent(n, {"k", "v", "q", "g"}, TRUE,
       [x \in TokenElements(n) |-> Out(x[1], x[2], x[3])],
       [x \in TokenStates(n) |-> State(x[1], x[2], x[3], x[4])],
       [x \in TokenElements(n) |-> WantedOut(x[1], x[2], x[3])],
       [x \in TokenStates(n) |-> WantedState(x[1], x[2], x[3], x[4])], nth)

\* The output of element i comes from row i of the new state, each element of
\* which comes from the whole row before (its product with a).
RwkvWkv7(n, nth) ==
  LET All(names, t, h) == names \X ({t} \X {h} \X Upto(n[3]))
      RowBefore(t, h, i) == {Before(n, t, h, i, j) : j \in Upto(n[3])}
      Brought(t, h, i, j) == OfToken({"v"}, t, h, i) \cup OfToken({"w", "k", "b"}, t, h, j) \cup All({"a"}, t, h)
      Used(t, h, i) == OfToken({"v"}, t, h, i) \cup All({"r", "w", "k", "a", "b"}, t, h)
      Out(t, h, i) == RowBefore(t, h, i) \cup Used(t, h, i)
      State(t, h, i, j) == RowBefore(t, h, i) \cup Brought(t, h, i, j)
      Row(t, h, i) == {<<"s0", <<Sequence(n, t), h, i, j>>>> : j \in Upto(n[3])}
        \cup UNION {OfToken({"v"}, u, h, i) \cup All({"w", "k", "a", "b"}, u, h) : u \in StartOf(n, t) .. t - 1}
      WantedOut(t, h, i) == Row(t, h, i) \cup Used(t, h, i)
      WantedState(t, h, i, j) == Row(t, h, i) \cup Brought(t, h, i, j)
  IN Recurrent(n, {"r", "w", "k", "v", "a", "b"}, FALSE,
       [x \in TokenElements(n) |-> Out(x[1], x[2], x[3])],
       [x \in TokenStates(n) |-> State(x[1], x[2], x[3], x[4])],
       [x \in TokenElements(n) |-> WantedOut(x[1], x[2], x[3])],
       [x \in TokenStates(n) |-> WantedState(x[1], x[2], x[3], x[4])], nth)

\* The delta rule: rows (head, sequence) in the pool's chunks.  A row keeps its
\* state in dst, or in the thread's part of wdata when K snapshots of it are
\* kept, the last token's in slot 0.  m = <<heads of q, heads of k, sequences of q, of k>>.
GatedDeltaNetRow(n, m, K, ir) ==
  LET H == n[1]
      iv1 == ir % H
      iv3 == ir \div H
      At(t) == <<iv1, t, iv3>>
      Lived(t) ==
        {<<"s0", <<iv1, iv3>>>>}
        \cup UNION {({"v", "g", "beta"} \X {At(u)})
                    \cup {<<"k", <<iv1 % m[2], u, iv3 \div (n[3] \div m[4])>>>>} : u \in 0 .. t}
      Query(t) == {<<"q", <<iv1 % m[1], t, iv3 \div (n[3] \div m[3])>>>>}
      Slots == {t \in Upto(n[2]) : n[2] - 1 - t < K}
  IN [c \in ({"dst"} \X {At(t) : t \in Upto(n[2])}) \cup ({"state"} \X {<<n[2] - 1 - t, iv1, iv3>> : t \in Slots}) |->
        IF c[1] = "dst" THEN Lived(c[2][2]) \cup Query(c[2][2]) ELSE Lived(n[2] - 1 - c[2][1])]
GatedDeltaNet(n, m, K, nth) ==
  LET Tokens(heads, seqs) == Upto(heads) \X Upto(n[2]) \X Upto(seqs)
      Rows(rows) == [c \in UNION {DOMAIN GatedDeltaNetRow(n, m, K, ir) : ir \in rows} |->
                       UNION {LET row == GatedDeltaNetRow(n, m, K, ir)
                              IN IF c \in DOMAIN row THEN row[c] ELSE {} : ir \in rows}]
      plan == PlanWith(({"q"} \X Tokens(m[1], m[3])) \cup ({"k"} \X Tokens(m[2], m[4]))
                         \cup ({"v", "g", "beta"} \X Tokens(n[1], n[3])) \cup ({"s0"} \X (Upto(n[1]) \X Upto(n[3]))),
                       OwnWdata(nth), Rows(Upto(n[1] * n[3])), [ith \in Upto(nth) |-> <<>>])
  IN Chunked(plan, n[1] * n[3], nth, [r \in Nat \X Nat |-> Rows(r[1] .. r[2] - 1)])

-----------------------------------------------------------------------------
(* Systems of equations, mixtures of streams, transforms, scores.          *)

\* A lower triangular A: the threads share the columns of the right hand sides,
\* and solve a column from its first row to its last.  n rows, k columns.
SolveTri(n, k, b, nth) ==
  LET Column(ir) == RowOf(<<1, k, b[1], b[2]>>, ir)
      Own(ith, i00) == {LET i == Column(ir) IN <<i[1], i00, i[2], i[3]>> : ir \in Chunk(b[1] * b[2] * k, nth, ith)}
      Solved(i) == Src1(i) \cup UNION {Src0(<<t, i[2], i[3], i[4]>>) : t \in 0 .. i[2]}
                   \cup {<<"dst", [i EXCEPT ![2] = t]>> : t \in Upto(i[2])}
      Wanted(i) == {<<"src1", [i EXCEPT ![2] = t]>> : t \in 0 .. i[2]}
                   \cup UNION {Src0(<<t, r, i[3], i[4]>>) : t \in 0 .. i[2], r \in 0 .. i[2]}
      Lower0(i) == {c \in Wanted(i) : c[1] = "src1" \/ c[2][1] <= c[2][2]}
  IN Plan(Cells("src0", <<n, n, b[1], b[2]>>) \cup Cells("src1", <<k, n, b[1], b[2]>>),
          Put(Elements(<<k, n, b[1], b[2]>>), Lower0),
          [ith \in Upto(nth) |-> [r \in 1 .. n |-> Put(Own(ith, r - 1), Solved)]])

\* The 4 x 4 matrix that combines the streams of a token: a softmax of each
\* row, then columns and rows normalised in turn n_iter times.
NormCols(comb) == [x \in DOMAIN comb |-> UNION {comb[y] : y \in {y \in DOMAIN comb : y[1] = x[1]}}]
NormRows(comb) == [x \in DOMAIN comb |-> UNION {comb[y] : y \in {y \in DOMAIN comb : y[2] = x[2]}}]
Dsv4HcComb(n_tokens, n_iter, nth) ==
  LET hc == 4
      comb_offset == 2 * hc
      Mixed(it, x) == LET idx == comb_offset + x[1] + hc * x[2]
                      IN {<<"mixes", <<idx, it>>>>, <<"base", idx>>, <<"scale", 2>>}
      Softmax(it) == NormRows([x \in Upto(hc) \X Upto(hc) |-> Mixed(it, x)])
      turn[i \in 1 .. n_iter] == [it \in Upto(n_tokens) |->
        IF i = 1 THEN NormCols(Softmax(it)) ELSE NormCols(NormRows(turn[i - 1][it]))]
      Own(ith) == Upto(hc) \X Upto(hc) \X Chunk(n_tokens, nth, ith)
      All(it) == UNION {Mixed(it, x) : x \in Upto(hc) \X Upto(hc)}
  IN Plan(({"mixes"} \X (Upto((2 + hc) * hc) \X Upto(n_tokens)))
            \cup ({"base"} \X Upto((2 + hc) * hc)) \cup ({"scale"} \X Upto(3)),
          Put(Upto(hc) \X Upto(hc) \X Upto(n_tokens), LAMBDA i : All(i[3])),
          EachThread(nth, LAMBDA ith : Put(Own(ith), LAMBDA i : turn[n_iter][i[3]][<<i[1], i[2]>>])))

\* The streams weighted into one, and one spread over the streams again;
\* n = <<n_embd, hc, n_tokens>>.
Dsv4HcPre(n, nth) ==
  LET From(i) == UNION {{<<"x", <<i[1], ih, i[2]>>>>, <<"weights", <<ih, i[2]>>>>} : ih \in Upto(n[2])}
      Own(ith) == {<<ir % n[1], ir \div n[1]>> : ir \in Chunk(n[1] * n[3], nth, ith)}
  IN Plan(({"x"} \X (Upto(n[1]) \X Upto(n[2]) \X Upto(n[3]))) \cup ({"weights"} \X (Upto(n[2]) \X Upto(n[3]))),
          Put(Upto(n[1]) \X Upto(n[3]), From),
          EachThread(nth, LAMBDA ith : Put(Own(ith), From)))
Dsv4HcPost(n, nth) ==
  LET From(i) == {<<"x", <<i[1], i[3]>>>>, <<"post", <<i[2], i[3]>>>>}
        \cup UNION {{<<"residual", <<i[1], isrc, i[3]>>>>, <<"comb", <<i[2], isrc, i[3]>>>>} : isrc \in Upto(n[2])}
      Own(ith) == {<<ir % n[1], (ir \div n[1]) % n[2], ir \div (n[1] * n[2])>> :
                     ir \in Chunk(n[1] * n[2] * n[3], nth, ith)}
      All == Upto(n[1]) \X Upto(n[2]) \X Upto(n[3])
  IN Plan(({"x"} \X (Upto(n[1]) \X Upto(n[3]))) \cup ({"post"} \X (Upto(n[2]) \X Upto(n[3])))
            \cup ({"residual"} \X All) \cup ({"comb"} \X (Upto(n[2]) \X Upto(n[2]) \X Upto(n[3]))),
          Put(All, From), EachThread(nth, LAMBDA ith : Put(Own(ith), From)))

\* Walsh-Hadamard: each row is copied, and then for len = 1, 2, 4 .. below n
\* its elements i and i + len are replaced by their sum and difference.
Fwht(ne, nth) ==
  LET Own(ith) == RowCells(ne, Chunk(NRows(ne), nth, ith))
      Partner(i0, len) == IF (i0 \div len) % 2 = 0 THEN i0 + len ELSE i0 - len
      Lens == {len \in 1 .. ne[1] - 1 : \E e \in Upto(ne[1]) : len = 2 ^ e}
      Butterfly(i, len) == {<<"dst", i>>, <<"dst", [i EXCEPT ![1] = Partner(@, len)]>>}
  IN Plan(Cells("src1", ne), Put(Elements(ne), LAMBDA i : RowSrc1(ne, i)),
          [ith \in Upto(nth) |->
             <<Put(Own(ith), Src1)>>
             \o [e \in 1 .. Cardinality(Lens) |-> Put(Own(ith), LAMBDA i : Butterfly(i, 2 ^ (e - 1)))]])

\* The score of each position for each token; n = <<n_head, n_tokens, n_stream, n_kv, nem3>>.
LightningIndexer(n, nth) ==
  LET From(i) == {<<"k", <<i[1], i[3]>>>>, <<"m", <<i[1], i[2], i[3] % n[5]>>>>}
        \cup UNION {{<<"q", <<h, i[2], i[3]>>>>, <<"w", <<h, i[2], i[3]>>>>} : h \in Upto(n[1])}
      Own(ith) == Chunk(n[4], nth, ith) \X Upto(n[2]) \X Upto(n[3])
  IN PlanWith(({"q", "w"} \X (Upto(n[1]) \X Upto(n[2]) \X Upto(n[3]))) \cup ({"k"} \X (Upto(n[4]) \X Upto(n[3])))
                \cup ({"m"} \X (Upto(n[4]) \X Upto(n[2]) \X Upto(n[5]))),
              OwnWdata(nth), Put(Upto(n[4]) \X Upto(n[2]) \X Upto(n[3]), From),
              EachThread(nth, LAMBDA ith : Through(ith, Put(Own(ith), From))))

-----------------------------------------------------------------------------
(* Windows of an image and relative positions.  The first three do not     *)
(* look at the thread's number: they are for one thread.                   *)

\* src0 [C, W, H] cut into px * py windows of w * w, zero outside it.
WinPart(ne0, np, w) ==
  LET ne == <<ne0[1], w, w, np[1] * np[2]>>
      At(i) == <<i[1], (i[4] % np[1]) * w + i[2], (i[4] \div np[1]) * w + i[3], 0>>
  IN Rowwise(ne, 1, Chunk, Cells("src0", ne0),
             LAMBDA i : IF At(i)[2] < ne0[2] /\ At(i)[3] < ne0[3] THEN Src0(At(i)) ELSE {})
WinUnpart(ne, w) ==
  LET px == (w - (ne[2] % w)) % w
      npx == (px + ne[2]) \div w
      npy == (ne[3] + w - 1) \div w
  IN Rowwise(ne, 1, Chunk, Cells("src0", <<ne[1], w, w, npx * npy>>),
             LAMBDA i : Src0(<<i[1], i[2] % w, i[3] % w, (i[3] \div w) * npx + i[2] \div w>>))
\* Row pos of src0 [C, 2w - 1], pos the distance of the two places.
GetRelPos(c, w, q) ==
  Rowwise(<<c, w, q, 1>>, 1, Chunk, Cells("src0", <<c, 2 * w - 1, 1, 1>>),
          LAMBDA i : Src0(<<i[1], (w - i[2] - 1) + i[3], 0, 0>>))

\* Each element of src2 is added to a row of dst and each of src1 to a column,
\* in a copy of src0 unless inplace; ne1 = <<w, h, n, p>>.
AddRelPos(ne1, nth) ==
  LET w == ne1[1]
      ne == <<w * w, ne1[2] * ne1[3], ne1[4], 1>>
      jp0(i) == i[1] + OffsetOf(ne1, [i EXCEPT ![1] = 0])
      \* x = <<i10, i11, i12, i13, j, which>>
      Place(x) == LET i == <<x[1], x[2], x[3], x[4]>>
                      jdh == jp0(i) * w
                  IN ElementOf(ne, IF x[6] = 2 THEN jdh + x[5] ELSE jdh - (w - 1) * x[1] + x[5] * w)
      Added(x) == {<<"dst", Place(x)>>, <<IF x[6] = 1 THEN "src1" ELSE "src2", <<x[1], x[2], x[3], x[4]>>>>}
      Turns(parts) == Upto(w) \X Upto(ne1[2]) \X Upto(ne1[3]) \X parts \X Upto(w) \X {1, 2}
      Row(i, i10) == LET k == OffsetOf(ne, i) \div (w * w) IN ElementOf(ne1, k * w + i10)
  IN Plan(Cells("src0", ne) \cup Cells("src1", ne1) \cup Cells("src2", ne1),
          Put(Elements(ne), LAMBDA i :
                Src0(i) \cup Src1(Row(i, i[1] % w)) \cup {<<"src2", Row(i, i[1] \div w)>>}),
          AfterFirst(nth, Put(Elements(ne), Src0), LAMBDA ith :
                     Scatter(Turns(Chunk(ne1[4], nth, ith)), Place, Added)))

-----------------------------------------------------------------------------
(* Training.                                                               *)

\* Every thread adds up its rows in wdata; after the barrier the first adds
\* up all the threads' sums.
CrossEntropyLoss(ne, nth) ==
  LET In(rows) == {"src0", "src1"} \X RowCells(ne, rows)
      sums == {"sums"} \X Upto(nth)
  IN PlanWith(Both(ne, ne), sums \cup OwnWdata(nth), Put({Number}, LAMBDA i : Both(ne, ne)),
              [ith \in Upto(nth) |->
                 <<Through(ith, [c \in {<<"sums", ith>>} |-> In(Chunk(NRows(ne), nth, ith))]), Barrier,
                   IF ith = 0 THEN Put({Number}, LAMBDA i : sums) ELSE Idle>>])
CrossEntropyLossBack(ne, nth) ==
  Rowwise(ne, nth, Chunk, Both(ne, ne) \cup {<<"grad", Number>>},
          LAMBDA i : RowSrc0(ne, i) \cup Src1(i) \cup {<<"grad", Number>>})

\* The weights and the two moments are updated in place: src0, m and v are
\* what they were, the cells written what they become.
OptStepAdamw(ne, nth) ==
  LET Moment(name, i) == {<<name, i>>, <<"grad", i>>, <<"params", Number>>}
      All(D) == Also(Put(D, LAMBDA i : Src0(i) \cup Moment("m", i) \cup Moment("v", i)),
                     Also(PutIn("m'", D, LAMBDA i : Moment("m", i)), PutIn("v'", D, LAMBDA i : Moment("v", i))))
  IN Plan(Cells("src0", ne) \cup Cells("m", ne) \cup Cells("v", ne) \cup Cells("grad", ne) \cup {<<"params", Number>>},
          All(Elements(ne)),
          EachThread(nth, LAMBDA ith : All(RowCells(ne, Chunk(NRows(ne), nth, ith)))))
OptStepSgd(ne, nth) ==
  Rowwise(ne, nth, Chunk, Cells("src0", ne) \cup Cells("grad", ne) \cup {<<"params", Number>>},
          LAMBDA i : Src0(i) \cup {<<"grad", i>>, <<"params", Number>>})

-----------------------------------------------------------------------------
(* Operators that choose another.                                          *)

Unary(op, ne, nth) ==
  CASE op = "gelu" -> Gelu(ne, nth)
    [] op = "gelu_erf" -> GeluErf(ne, nth)
    [] op = "gelu_quick" -> GeluQuick(ne, nth)
    [] op = "silu" -> Silu(ne, nth)
    [] OTHER -> Activation(ne, nth)
Glu(op, ne, split, nth) ==
  CASE op = "reglu" -> Reglu(ne, split, nth)
    [] op = "geglu" -> Geglu(ne, split, nth)
    [] op = "swiglu" -> Swiglu(ne, split, nth)
    [] op = "swiglu_oai" -> SwigluOai(ne, split, nth)
    [] op = "geglu_erf" -> GegluErf(ne, split, nth)
    [] op = "geglu_quick" -> GegluQuick(ne, split, nth)
\* The user's function is called by every thread, with its number: fun[ith].
MapCustom(given, result, fun, nth) == Plan(given, result, EachThread(nth, LAMBDA ith : fun[ith]))
=============================================================================

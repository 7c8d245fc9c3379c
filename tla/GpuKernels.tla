----------------------------- MODULE GpuKernels -----------------------------
(***************************************************************************)
(* The OpenCL kernels of python/xecuda/kernels.py, as plans of the machine *)
(* of GgmlThreads: one thread for each work-item, one team for each        *)
(* work-group.  W stands for the size of a group, 256 in the code, and is  *)
(* a power of two.  Local memory is a scratch cell that names its group, a *)
(* variable of a work-item one that names the item.                        *)
(***************************************************************************)
EXTENDS GgmlLayout

In(tensor, D) == {tensor} \X D
Value(tensor, i) == {<<tensor, i>>}
GroupsFor(n, W) == (n + W - 1) \div W
\* for (int i = lid; i < n; i += W)
Every(n, W, lid) == {i \in Upto(n) : i % W = lid}

\* A launch of groups of W work-items, item lid of group g running item[g, lid].
Launch(groups, W, given, scratch, result, item) ==
  [PlanWith(given, scratch, result,
            [t \in Upto(groups * W) |-> item[t \div W, t % W]])
   EXCEPT !.team = [t \in Upto(groups * W) |-> t \div W]]

Lsum(groups, W) == In("lsum", Upto(groups) \X Upto(W))

\* lsum[lid] += lsum[lid + s]
AddHalf(s, g, lid) ==
  PutIn("lsum", IF lid < s THEN {<<g, lid>>} ELSE {},
        LAMBDA c : Value("lsum", c) \cup Value("lsum", <<g, lid + s>>))
\* A faulty variant of Halvings: one barrier after all the rounds.
HalvingsAtOnce(W, g, lid) ==
  LET rounds[s \in Nat] ==
        IF s = 0 THEN <<Barrier>> ELSE <<AddHalf(s, g, lid)>> \o rounds[s \div 2]
  IN rounds[W \div 2]
\* s = W/2, W/4, ... 1, a barrier after each.
Halvings(W, g, lid) ==
  LET rounds[s \in Nat] ==
        IF s = 0 THEN <<>> ELSE <<AddHalf(s, g, lid), Barrier>> \o rounds[s \div 2]
  IN rounds[W \div 2]
\* Each item adds up its terms, then the group adds the sums up.
TreeSum(W, g, lid, terms) ==
  <<PutIn("lsum", {<<g, lid>>}, LAMBDA c : terms), Barrier>> \o Halvings(W, g, lid)
\* Only the group's first item writes it.
FirstItem(lid, step) == IF lid = 0 THEN step ELSE Idle

\* rms_norm: the wrapper hands the kernel n_rows * dim as one length, and the
\* weight it is given has dim elements.  Each row is to be normalized by its own
\* root.  dst is "y", or "x" where model.py normalizes in place.
RmsNorm(nRows, dim, dst, W) ==
  LET n == nRows * dim
      SameRow(i) == {k \in Upto(n) : k \div dim = i \div dim}
      item[g \in {0}, lid \in Upto(W)] ==
        TreeSum(W, g, lid, In("x", Every(n, W, lid))) \o
        <<FirstItem(lid, PutIn("inv_rms", {g}, LAMBDA c : Value("lsum", <<g, 0>>))), Barrier,
          PutIn(dst, Every(n, W, lid), LAMBDA i : Value("x", i) \cup Value("inv_rms", g) \cup Value("w", i))>>
  IN Launch(1, W, In("x", Upto(n)) \cup In("w", Upto(dim)), Lsum(1, W) \cup Value("inv_rms", 0),
            PutIn(dst, Upto(n), LAMBDA i : In("x", SameRow(i)) \cup Value("w", i % dim)), item)

\* rms_norm_reduce and, with a residual, add_rms_norm_reduce.
RmsNormReduce(n, tensors, W) ==
  LET Squares(lid) == tensors \X Every(n, W, lid)
      item[g \in {0}, lid \in Upto(W)] ==
        TreeSum(W, g, lid, Squares(lid)) \o
        <<FirstItem(lid, PutIn("out_inv_rms", {0}, LAMBDA c : Value("lsum", <<g, 0>>)))>>
  IN Launch(1, W, tensors \X Upto(n), Lsum(1, W),
            PutIn("out_inv_rms", {0}, LAMBDA c : tensors \X Upto(n)), item)

\* add_rms_norm as model.py calls it, with src for dst: every group sums the
\* squares of its own W elements only.
AddRmsNorm(n, W) ==
  LET groups == GroupsFor(n, W)
      item[g \in Upto(groups), lid \in Upto(W)] ==
        LET i == g * W + lid
            val == IF i < n THEN Value("src", i) \cup Value("residual", i) ELSE {}
        IN <<PutIn("val", {i}, LAMBDA c : val)>>
           \o TreeSum(W, g, lid, Value("val", i))
           \o <<PutIn("src", {i} \cap Upto(n), LAMBDA c : Value("val", i) \cup Value("lsum", <<g, 0>>) \cup Value("weight", i))>>
      inputs == {"src", "residual"} \X Upto(n)
  IN Launch(groups, W, inputs \cup In("weight", Upto(n)),
            Lsum(groups, W) \cup In("val", Upto(groups * W)),
            PutIn("src", Upto(n), LAMBDA i : inputs \cup Value("weight", i)), item)

\* Every group runs the loop over the whole row, so the row must fit in one.
AddWritebackNorm(n, W) ==
  LET groups == GroupsFor(n, W)
      item[g \in Upto(groups), lid \in Upto(W)] ==
        <<PutIn("a", Every(n, W, lid), LAMBDA i : Value("a", i) \cup Value("res", i))>>
        \o TreeSum(W, g, lid, In("a", Every(n, W, lid)))
        \o <<FirstItem(lid, PutIn("inv_rms", {g}, LAMBDA c : Value("lsum", <<g, 0>>))), Barrier,
             PutIn("b", Every(n, W, lid), LAMBDA i : Value("a", i) \cup Value("inv_rms", g) \cup Value("norm_w", i))>>
      inputs == {"a", "res"} \X Upto(n)
  IN Launch(groups, W, inputs \cup In("norm_w", Upto(n)), Lsum(groups, W) \cup In("inv_rms", Upto(groups)),
            Also(PutIn("a", Upto(n), LAMBDA i : {"a", "res"} \X {i}),
                 PutIn("b", Upto(n), LAMBDA i : inputs \cup Value("norm_w", i))), item)

\* The products with a quantized matrix: the group loads the vector into local
\* memory, each item then computes one row.  x[i] is what element i is loaded
\* from: x[i] in matvec_q4k and matvec_q6k, the normalized x[i] in
\* norm_matvec_q4k, that of the sum with the residual in add_norm_matvec_q4k.
Matvec(rows, cols, W, x) ==
  LET groups == GroupsFor(rows, W)
      item[g \in Upto(groups), lid \in Upto(W)] ==
        LET row == g * W + lid
        IN <<PutIn("x_local", {g} \X Every(cols, W, lid), LAMBDA c : x[c[2]]), Barrier>> \o
           IF row >= rows THEN <<>>
           ELSE <<PutIn("y", {row}, LAMBDA r : In("weights", {r} \X Upto(cols)) \cup In("x_local", {g} \X Upto(cols)))>>
      vector == UNION {x[i] : i \in Upto(cols)}
  IN Launch(groups, W, In("weights", Upto(rows) \X Upto(cols)) \cup vector,
            In("x_local", Upto(groups) \X Upto(cols)),
            PutIn("y", Upto(rows), LAMBDA r : In("weights", {r} \X Upto(cols)) \cup vector), item)
Plain(cols) == [i \in Upto(cols) |-> Value("x", i)]
Normalized(cols) == [i \in Upto(cols) |-> {<<"x", i>>, <<"inv_rms", 0>>, <<"norm_w", i>>}]
AddedNormalized(cols) == [i \in Upto(cols) |-> Normalized(cols)[i] \cup Value("residual", i)]

\* One item for each element of the result, those past the last one returning:
\* sgemm and add_norm.  at[idx] is the element, from[idx] what the item computes
\* it from.
OneItemEach(total, W, given, result, at, from) ==
  LET Item(idx) == IF idx >= total THEN <<>> ELSE <<PutIn("y", {at[idx]}, LAMBDA c : from[idx])>>
  IN Launch(GroupsFor(total, W), W, given, {}, result,
            [w \in Upto(GroupsFor(total, W)) \X Upto(W) |-> Item(w[1] * W + w[2])])
Sgemm(M, N, K, W) ==
  OneItemEach(M * N, W, In("A", Upto(M * K)) \cup In("B", Upto(K * N)),
    [c \in In("y", Upto(M * N)) |->
       LET row == c[2] \div N  col == c[2] % N
       IN In("A", {row * K + k : k \in Upto(K)}) \cup In("B", {k * N + col : k \in Upto(K)})],
    [idx \in Upto(M * N) |-> (idx \div N) * N + (idx % N)],
    [idx \in Upto(M * N) |-> In("A", {(idx \div N) * K + k : k \in Upto(K)})
                             \cup In("B", {k * N + (idx % N) : k \in Upto(K)})])
AddNorm(n, W) ==
  LET from == AddedNormalized(n)
  IN OneItemEach(n, W, UNION {from[i] : i \in Upto(n)},
                 PutIn("y", Upto(n), LAMBDA i : from[i]), [i \in Upto(n) |-> i], from)

\* One item for each head and position of the query; the tensors are laid out
\* [heads, positions, head_dim], and kv_group heads share one of K and V.
GqaAttention(heads, kvHeads, dim, seqQ, seqKv, W) ==
  LET total == heads * seqQ
      local == Least(total, W)
      Row(base) == {base + d : d \in Upto(dim)}
      item[g \in Upto(GroupsFor(total, local)), lid \in Upto(local)] ==
        LET idx == g * local + lid
            q_pos == idx % seqQ
            h == idx \div seqQ
            kv_h == h \div (heads \div kvHeads)
            q_base == h * seqQ * dim + q_pos * dim
            kv_base == kv_h * seqKv * dim
        IN IF idx >= total THEN <<>>
           ELSE <<PutIn("out", Row(q_base), LAMBDA o :
                    In("Q", Row(q_base)) \cup In("K", UNION {Row(kv_base + k * dim) : k \in Upto(seqKv)})
                    \cup In("V", {kv_base + k * dim + (o - q_base) : k \in Upto(seqKv)}))>>
      At(n2, i, j, d) == (i * n2 + j) * dim + d
      \* Query head h belongs to group number h*kvHeads/heads.
      Wanted(h, q, d) ==
        LET kv == (h * kvHeads) \div heads
        IN In("Q", {At(seqQ, h, q, e) : e \in Upto(dim)})
           \cup In("K", {At(seqKv, kv, k, e) : k \in Upto(seqKv), e \in Upto(dim)})
           \cup In("V", {At(seqKv, kv, k, d) : k \in Upto(seqKv)})
      place == Upto(heads) \X Upto(seqQ) \X Upto(dim)
  IN Launch(GroupsFor(total, local), local,
            In("Q", Upto(total * dim)) \cup {"K", "V"} \X Upto(kvHeads * seqKv * dim), {},
            [c \in In("out", Upto(total * dim)) |->
               LET p == CHOOSE p \in place : At(seqQ, p[1], p[2], p[3]) = c[2]
               IN Wanted(p[1], p[2], p[3])],
            item)

\* One item for each row, in groups of one: softmax_inplace and argmax.
SoftmaxInplace(rows, cols) ==
  LET Columns(row) == {row * cols + i : i \in Upto(cols)}
  IN Launch(rows, 1, In("x", Upto(rows * cols)), {},
            [c \in In("x", Upto(rows * cols)) |-> In("x", Columns(c[2] \div cols))],
            [w \in Upto(rows) \X {0} |-> <<PutIn("x", Columns(w[1]), LAMBDA i : In("x", Columns(w[1])))>>])
Argmax(rows, cols) ==
  LET From(row) == In("x", {row * cols + i : i \in Upto(cols)})
  IN Launch(rows, 1, In("x", Upto(rows * cols)), {}, PutIn("out", Upto(rows), From),
            [w \in Upto(rows) \X {0} |-> <<PutIn("out", {w[1]}, From)>>])
=============================================================================

---------------------------- MODULE MCTensorOps -----------------------------
EXTENDS GgmlSequence, GgmlThreads

Gpu == INSTANCE GpuKernels

NoInput == <<"garbage", 0>>

Shape == <<2, 3, 2, 2>>
Wide == <<4, 3, 1, 2>>
Matrix == <<2, 5, 1, 1>>
Ids == [i \in Upto(3) \X Upto(2) |-> (i[1] + i[2]) % 2]
Ids3 == [i \in Upto(3) \X Upto(2) \X Upto(1) |-> (i[1] + i[2] + i[3]) % 3]
Target == [i \in Upto(4) \X Upto(2) \X Upto(1) |-> (2 * i[1] + i[2]) % 5]
Lower == {i \in Upto(3) \X Upto(3) : i[1] < i[2]}
Value == [w \in Elements(<<4, 4, 1, 1>>) |-> (3 * w[1] + 2 * w[2]) % 5]

Elementwise(n) == {
  DupSameCont(Shape, n), DupBytes(Shape, Wide, n), DupFlt(Wide, Shape, n), DupToQ(Shape, n), DupFromQ(Shape, Wide, 2, n),
  AddQ(Shape, n), AddId(Shape, 2, Ids, n), Add1(Shape, n), Add1F16(Shape, n), Add1BF16(Shape, n), Add1Q(<<2, 5, 2, 1>>, n),
  Acc(<<3, 3, 2, 1>>, <<2, 2, 2, 1>>, 1, n), Set(<<3, 3, 2, 1>>, <<2, 2, 2, 1>>, 1, n),
  Gelu(Shape, n), LeakyRelu(Shape, n), Clamp(Shape, n), Fill(Shape, n), SiluBack(Shape, n), Tri(<<3, 3, 2, 1>>, Lower, n),
  Reglu(Wide, FALSE, n), Geglu(Shape, TRUE, n), DiagMask(<<4, 3, 2, 1>>, 1, n), Diag(<<3, 1, 2, 1>>, n)}
Rows(n) == {
  Sum(Shape, n), SumRows(Shape, n), Mean(Shape, n), Argmax(Matrix, n), Cumsum(Shape, n), CountEqual(Matrix, n),
  Repeat(<<2, 1, 2, 1>>, <<4, 3, 2, 2>>, n), RepeatBack(<<4, 3, 2, 2>>, <<2, 1, 2, 1>>, n),
  Concat(<<2, 2, 2, 1>>, <<2, 2, 3, 1>>, 3, n), Concat(<<2, 2, 3, 1>>, <<3, 2, 3, 1>>, 1, n), ConcatAny(<<4, 2, 3, 1>>, <<2, 2, 3, 1>>, 1, 2, n),
  Norm(Shape, n), L2Norm(Shape, n), RmsNorm(Shape, <<2, 1, 2, 1>>, TRUE, n), RmsNorm(Shape, Shape, FALSE, n), RmsNormBack(Shape, n),
  GroupNorm(<<2, 1, 5, 2>>, 3, n), GroupNorm(<<2, 1, 4, 1>>, 3, n), SoftMax(Shape, <<2, 3, 1, 2>>, n), SoftMaxBack(Shape, n),
  OutProd(<<2, 2, 1, 1>>, <<3, 2, 2, 2>>, n), OutProdQ(<<2, 2, 2, 1>>, <<3, 2, 2, 1>>, n), OutProdF16(<<2, 2, 2, 1>>, <<3, 2, 2, 1>>, n),
  GetRows(<<2, 3, 2, 1>>, <<3, 2, 1, 1>>, Ids3, n), SetRows(<<2, 4, 2, 1>>, <<4, 2, 1, 1>>, Target, n)}
Ropes(n) == {
  Rope(<<6, 2, 2, 2>>, 4, "normal", <<1,1,1,0>>, n),
  Rope(<<6, 2, 2, 2>>, 4, "neox", <<1,1,1,0>>, n),
  Rope(<<6, 2, 2, 1>>, 6, "mrope", <<1,1,1,0>>, n),
  Rope(<<6, 2, 2, 1>>, 6, "imrope", <<1,1,1,0>>, n),
  Rope(<<4, 2, 3, 1>>, 2, "vision", <<1,1,0,0>>, n)}
Windows(n) == {
  Im2Col(<<4, 3, 2, 1>>, <<2, 2>>, <<2, 2>>, <<2, 2>>, <<1, 1>>, <<1, 1>>, n),
  Im2ColBack(<<3, 3, 2, 1>>, <<2, 2>>, <<2, 2>>, <<2, 2>>, <<1, 1>>, <<1, 1>>, n),
  Im2Col3d(<<2, 2, 2, 2>>, 2, <<2, 2, 1>>, <<1, 1, 2>>, 1, 0, 1, n),
  Col2Im1d(3, 2, 3, 5, 2, 1, n),
  ConvTranspose1d(<<3, 3, 2, 1>>, <<2, 2, 1, 1>>, 2, n), ConvTranspose2d(<<2, 2, 3, 2>>, <<2, 2, 2, 1>>, 1, n),
  Conv2d(<<2, 2, 1, 2>>, <<3, 3, 1, 2>>, <<2, 2>>, <<1, 1>>, <<0, 0>>, <<1, 1>>, 3, n),
  Conv2d(<<1, 1, 1, 1>>, <<3, 3, 1, 1>>, <<3, 3>>, <<1, 1>>, <<0, 0>>, <<1, 1>>, 9, n),
  Conv3d(<<2, 1, 2, 2>>, <<3, 1, 2, 2>>, 2, <<2, 1, 1>>, 1, 0, 1, 1, n),
  Conv2dDwWhcn(<<2, 2, 1, 2>>, <<3, 3, 2, 2>>, <<2, 2>>, <<2, 2>>, <<1, 1>>, <<1, 1>>, n),
  Conv2dDwCwhn(<<2, 2, 1, 2>>, <<3, 3, 2, 2>>, <<2, 2>>, <<2, 2>>, <<1, 1>>, <<1, 1>>, n),
  Pool1d(<<5, 2, 1, 1>>, 3, 3, 2, 1, n), Pool2d(<<4, 4, 2, 1>>, <<2, 2>>, <<3, 3>>, <<2, 2>>, <<1, 1>>, n),
  Pool2dBack(<<4, 4, 1, 1>>, <<2, 2>>, <<3, 3>>, <<2, 2>>, <<1, 1>>, TRUE, Value, n),
  Pool2dBack(<<4, 4, 1, 1>>, <<2, 2>>, <<3, 3>>, <<2, 2>>, <<1, 1>>, FALSE, Value, n)}
Sizes(n) ==
  {Upscale(<<2, 2, 3, 1>>, <<3, 4, 3, 1>>, mode, align, n) : mode \in {"nearest", "bilinear", "bicubic"}, align \in BOOLEAN} \cup {
  Upscale(<<3, 2, 2, 1>>, <<2, 4, 2, 1>>, "antialias", FALSE, n),
  Pad(<<2, 3, 2, 1>>, <<1, 1, 0, 1>>, <<1, 0, 0, 1>>, TRUE, n), Pad(<<2, 3, 2, 1>>, <<1, 1, 0, 1>>, <<1, 0, 0, 1>>, FALSE, n),
  PadReflect1d(<<3, 3, 2, 1>>, 2, 1, n), Roll(<<3, 3, 2, 1>>, <<1, -1, 1, 0>>, n), Roll(<<3, 3, 2, 1>>, <<-2, 2, 0, 0>>, n),
  Arange(5, n), TimestepEmbedding(2, 5, n), Argsort(Shape, n), TopK(<<4, 3, 2, 1>>, 2, n)}

Rot == [i \in Upto(2) |-> 1 - i]
Shared(nth) == [ith \in Upto(nth) |-> Put(RowCells(Shape, Chunk(NRows(Shape), nth, ith)), Src0)]
Attention(n) == {
  FlashAttnExt(<<1, 4, 1>>, <<7, 2, 1>>, <<2, 1>>, 7, 2, 2, n), FlashAttnExt(<<1, 2, 2>>, <<3, 1, 1>>, <<1, 2>>, 7, 2, 2, n),
  FlashAttnExt(<<3, 2, 1>>, <<3, 2, 1>>, <<1, 1>>, 7, 2, 2, n), FlashAttnExt(<<5, 2, 1>>, <<2, 1, 1>>, <<2, 1>>, 7, 2, 2, n),
  FlashAttnBack(<<2, 2, 2>>, <<3, 2, 2>>, TRUE, n), FlashAttnBack(<<2, 3, 1>>, <<3, 3, 1>>, FALSE, n)}
Recurrences(n) == {
  SsmConv(3, 5, 2, 2, n), SsmScan(<<2, 2, 4, 2, 2, 2>>, Rot, TRUE, n), SsmScan(<<2, 1, 3, 1, 3, 1>>, [i \in {0} |-> i], FALSE, n),
  RwkvWkv6(<<4, 3, 2, 2>>, n), Gla(<<4, 3, 2, 2>>, n), RwkvWkv7(<<4, 3, 2, 2>>, n),
  GatedDeltaNet(<<4, 3, 2>>, <<2, 1, 1, 2>>, 2, n), GatedDeltaNet(<<3, 2, 1>>, <<3, 3, 1, 1>>, 1, n),
  SolveTri(3, 2, <<2, 1>>, n), Fwht(<<4, 3, 2, 1>>, n)}
Mixtures(n) == {
  Dsv4HcComb(2, 2, n), Dsv4HcPre(<<3, 2, 2>>, n), Dsv4HcPost(<<3, 2, 2>>, n),
  LightningIndexer(<<2, 2, 2, 3, 1>>, n), AddRelPos(<<2, 2, 1, 3>>, n),
  CrossEntropyLoss(Shape, n), CrossEntropyLossBack(Shape, n), OptStepAdamw(Shape, n), OptStepSgd(Shape, n),
  GetRowsBack(<<2, 4, 1, 1>>, 3, [i \in Upto(4) |-> (2 * i) % 3], n), GetRowsQ(<<2, 3, 2, 1>>, <<3, 2, 1, 1>>, Ids3, n),
  Scale(Shape, n), MapCustom(Cells("src0", Shape), Put(Elements(Shape), Src0), Shared(n), n)}
  \cup {Unary(op, Matrix, n) : op \in {"gelu", "gelu_erf", "gelu_quick", "silu", "abs"}}
  \cup {Glu(op, Wide, TRUE, n) : op \in {"reglu", "geglu", "swiglu", "swiglu_oai", "geglu_erf", "geglu_quick"}}
Single == {WinPart(<<2, 3, 3, 1>>, <<2, 2>>, 2), WinUnpart(<<2, 3, 3, 1>>, 2), GetRelPos(2, 3, 3)}

\* Groups of two and of four work-items; rows that fit in one group where the
\* kernel needs that.  rms_norm has one row, as in every call of model.py: with
\* two it reads past the weight and takes one root for both rows.
Kernels ==
  {Gpu!RmsNorm(1, n, dst, 4) : n \in {3, 6}, dst \in {"x", "y"}} \cup {Gpu!RmsNormReduce(n, {"x"}, 4) : n \in {3, 6}} \cup {
  Gpu!RmsNormReduce(5, {"x", "residual"}, 4), Gpu!AddRmsNorm(3, 4), Gpu!AddWritebackNorm(3, 4), Gpu!AddNorm(5, 2),
  Gpu!Matvec(3, 5, 2, Gpu!Plain(5)), Gpu!Matvec(3, 3, 2, Gpu!Normalized(3)), Gpu!Matvec(5, 3, 2, Gpu!AddedNormalized(3)),
  Gpu!Sgemm(2, 3, 2, 4), Gpu!GqaAttention(4, 2, 2, 2, 3, 4), Gpu!GqaAttention(3, 3, 2, 1, 2, 2),
  Gpu!SoftmaxInplace(3, 3), Gpu!Argmax(3, 2)}
\* A row of two groups.
LongRow == {Gpu!AddRmsNorm(4, 2)}

\* Five threads are more than there is work for in many of these; the calls of
\* many steps are left to teams of at most three.
MCPlans ==
  Single \cup Kernels
  \cup UNION {Elementwise(n) \cup Rows(n) \cup Windows(n) \cup Sizes(n) \cup Mixtures(n) : n \in {1, 2, 3, 5}}
  \cup UNION {Ropes(n) \cup Attention(n) \cup Recurrences(n) : n \in {1, 2, 3}}
=============================================================================

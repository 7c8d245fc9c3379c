---------------------------- MODULE GgmlWindows ----------------------------
(***************************************************************************)
(* The operators of src/tools/ref/ops.cpp that slide a window over a       *)
(* tensor, and those that change its size: convolutions, pooling, scaling, *)
(* padding, rolling.  Windows have a stride s, a padding p, a dilation d.  *)
(***************************************************************************)
EXTENDS GgmlRows

\* The place in the source that tap k of output o looks at, and whether there
\* is one (outside, the padding is zero).
Tap(o, k, s, p, d) == o * s + k * d - p
Exists(place, size) == place \in Upto(size)

-----------------------------------------------------------------------------
(* Columns of images: dst is [IC*KH*KW, OW, OH, N].                        *)

\* k = <<KW, KH>>, o = <<OW, OH>>; the threads share the channels.
Im2Col(ne1, k, o, s, p, d, nth) ==
  LET ne == <<ne1[3] * k[2] * k[1], o[1], o[2], ne1[4]>>
      \* x = <<in, ioh, iow, iic, ikh, ikw>>
      Turns(channels) == Upto(ne1[4]) \X Upto(o[2]) \X Upto(o[1]) \X channels \X Upto(k[2]) \X Upto(k[1])
      Place(x) == <<x[4] * (k[2] * k[1]) + x[5] * k[1] + x[6], x[3], x[2], x[1]>>
      iiw(x) == Tap(x[3], x[6], s[1], p[1], d[1])
      iih(x) == Tap(x[2], x[5], s[2], p[2], d[2])
      From(x) == IF Exists(iih(x), ne1[2]) /\ Exists(iiw(x), ne1[1])
                 THEN Src1(<<iiw(x), iih(x), x[4], x[1]>>) ELSE {}
      Wanted(i) == LET x == <<i[4], i[3], i[2], i[1] \div (k[2] * k[1]),
                              (i[1] \div k[1]) % k[2], i[1] % k[1]>> IN From(x)
  IN Plan(Cells("src1", ne1), Put(Elements(ne), Wanted),
          EachThread(nth, LAMBDA ith : Scatter(Turns(Strided(ne1[3], nth, ith)), Place, From)))

\* The gradient: every pixel adds up the columns it was copied to.
Im2ColBack(ne, k, o, s, p, d, nth) ==
  LET ne0 == <<ne[3] * k[2] * k[1], o[1], o[2], ne[4]>>
      Column(i, iow, ioh, ikw, ikh) == <<i[3] * (k[2] * k[1]) + ikh * k[1] + ikw, iow, ioh, i[4]>>
      From(i) ==
        LET Grad(ikw, ikh) ==
              LET tmpw == i[1] + p[1] - ikw * d[1]
                  tmph == i[2] + p[2] - ikh * d[2]
                  iow == tmpw \div s[1]
                  ioh == tmph \div s[2]
              IN IF tmpw % s[1] = 0 /\ tmph % s[2] = 0 /\ Exists(iow, o[1]) /\ Exists(ioh, o[2])
                 THEN Src0(Column(i, iow, ioh, ikw, ikh)) ELSE {}
        IN UNION {Grad(ikw, ikh) : ikw \in Upto(k[1]), ikh \in Upto(k[2])}
      Wanted(i) ==
        {<<"src0", Column(i, y[1], y[2], y[3], y[4])>> : y \in
           {y \in Upto(o[1]) \X Upto(o[2]) \X Upto(k[1]) \X Upto(k[2]) :
              /\ Tap(y[1], y[3], s[1], p[1], d[1]) = i[1]
              /\ Tap(y[2], y[4], s[2], p[2], d[2]) = i[2]}}
      Own(ith) == {i \in Elements(ne) : i[3] \in Strided(ne[3], nth, ith)}
  IN Plan(Cells("src0", ne0), Put(Elements(ne), Wanted),
          EachThread(nth, LAMBDA ith : Put(Own(ith), From)))

\* In three dimensions, with IC channels: src1 is [IW, IH, ID, N*IC], dst
\* [IC*KD*KH*KW, OW, OH, N*OD]; stride, padding and dilation the same along each.
Im2Col3d(ne1, IC, k, o, s, p, d, nth) ==
  LET N == ne1[4] \div IC
      kk == k[1] * k[2] * k[3]
      ne == <<IC * kk, o[1], o[2], N * o[3]>>
      \* x = <<in, iod, ioh, iow, iic, ikd, ikh, ikw>>
      Turns(channels) == Upto(N) \X Upto(o[3]) \X Upto(o[2]) \X Upto(o[1]) \X channels
                         \X Upto(k[3]) \X Upto(k[2]) \X Upto(k[1])
      Place(x) == <<x[5] * kk + x[6] * k[2] * k[1] + x[7] * k[1] + x[8], x[4], x[3], x[1] * o[3] + x[2]>>
      At(x) == <<Tap(x[4], x[8], s, p, d), Tap(x[3], x[7], s, p, d), Tap(x[2], x[6], s, p, d),
                 x[1] * IC + x[5]>>
      From(x) == IF \A n \in 1 .. 3 : Exists(At(x)[n], ne1[n]) THEN Src1(At(x)) ELSE {}
      Wanted(i) == From(<<i[4] \div o[3], i[4] % o[3], i[3], i[2], i[1] \div kk,
                          (i[1] \div (k[2] * k[1])) % k[3], (i[1] \div k[1]) % k[2], i[1] % k[1]>>)
  IN Plan(Cells("src1", ne1), Put(Elements(ne), Wanted),
          EachThread(nth, LAMBDA ith : Scatter(Turns(Strided(IC, nth, ith)), Place, From)))

\* Columns [K*OC, T_in] back to a signal [T_out, OC], cropped by p0; the
\* threads share the output's time.
Col2Im1d(K, OC, T_in, T_out, s0, p0, nth) ==
  LET From(i) ==
        LET t_abs == i[1] + p0
            t_in_min == Most((t_abs - K + 1 + s0 - 1) \div s0, 0)
            t_in_max == Least(t_abs \div s0, T_in - 1)
        IN {<<"src0", <<i[2] * K + t_abs - t_in * s0, t_in, 0, 0>>>> : t_in \in
              {t \in t_in_min .. t_in_max : Exists(t_abs - t * s0, K)}}
      Wanted(i) == {<<"src0", <<i[2] * K + x[1], x[2], 0, 0>>>> :
                      x \in {x \in Upto(K) \X Upto(T_in) : x[2] * s0 + x[1] = i[1] + p0}}
      ne == <<T_out, OC, 1, 1>>
      Own(ith) == {i \in Elements(ne) : i[1] \in Chunk(T_out, nth, ith)}
  IN Plan(Cells("src0", <<K * OC, T_in, 1, 1>>), Put(Elements(ne), Wanted),
          EachThread(nth, LAMBDA ith : Put(Own(ith), From)))

-----------------------------------------------------------------------------
(* Convolutions through a shared wdata.                                    *)

\* The first thread permutes kernel and source into wdata and clears dst; after
\* the barrier each thread does its output channels.  src0 is [K, Cout, Cin],
\* src1 [L, Cin].
ConvTranspose1d(ne0, ne1, s0, nth) ==
  LET nk == ne0[1] * ne0[2] * ne0[3]
      ne == <<(ne1[1] - 1) * s0 + ne0[1], ne0[2], 1, 1>>
      Kernel(i) == i[2] * ne0[1] * ne0[3] + i[1] * ne0[3] + i[3]
      Source(i) == nk + i[1] * ne1[2] + i[2]
      Prepare == Also(Also(ScatterIn("wdata", Elements(ne0), Kernel, Src0),
                           ScatterIn("wdata", Elements(ne1), Source, Src1)),
                      Put(Elements(ne), LAMBDA i : {}))
      \* x = <<i1, i10, i00>>: a dot product over the ne02 input channels
      Turns(ith) == Chunk(ne[2], nth, ith) \X Upto(ne1[1]) \X Upto(ne0[1])
      Place(x) == <<x[2] * s0 + x[3], x[1], 0, 0>>
      Dot(x) == {<<"dst", Place(x)>>} \cup
        UNION {{<<"wdata", nk + x[2] * ne1[2] + c>>,
                <<"wdata", x[1] * ne0[3] * ne0[1] + x[3] * ne0[3] + c>>} : c \in Upto(ne0[3])}
      Wanted(i) == UNION {Src0(<<i[1] - i10 * s0, i[2], c, 0>>) \cup Src1(<<i10, c, 0, 0>>) :
                     i10 \in {t \in Upto(ne1[1]) : Exists(i[1] - t * s0, ne0[1])}, c \in Upto(ne0[3])}
  IN PlanWith(Both(ne0, ne1), {"wdata"} \X Upto(nk + Size(ne1)), Put(Elements(ne), Wanted),
              AfterFirst(nth, Prepare, LAMBDA ith : Scatter(Turns(ith), Place, Dot)))

\* The same in two dimensions, for one image: src0 is [KW, KH, Cout, Cin].
ConvTranspose2d(ne0, ne1, stride, nth) ==
  LET nk == Size(ne0)
      ne == <<(ne1[1] - 1) * stride + ne0[1], (ne1[2] - 1) * stride + ne0[2], ne0[3], 1>>
      Kernel(i) == i[3] * ne0[2] * ne0[1] * ne0[4] + i[2] * ne0[1] * ne0[4] + i[1] * ne0[4] + i[4]
      Source(i) == nk + i[2] * ne1[1] * ne1[3] + i[1] * ne1[3] + i[3]
      Prepare == Also(Also(ScatterIn("wdata", Elements(ne0), Kernel, Src0),
                           ScatterIn("wdata", Elements(ne1), Source, Src1)),
                      Put(Elements(ne), LAMBDA i : {}))
      \* x = <<i2, i11, i10, i01, i00>>
      Turns(ith) == Chunk(ne[3], nth, ith) \X Upto(ne1[2]) \X Upto(ne1[1]) \X Upto(ne0[2]) \X Upto(ne0[1])
      Place(x) == <<x[3] * stride + x[5], x[2] * stride + x[4], x[1], 0>>
      Dot(x) == {<<"dst", Place(x)>>} \cup
        UNION {{<<"wdata", nk + x[2] * ne1[1] * ne1[3] + x[3] * ne1[3] + c>>,
                <<"wdata", x[1] * ne0[2] * ne0[1] * ne0[4] + x[4] * ne0[1] * ne0[4]
                           + x[5] * ne0[4] + c>>} : c \in Upto(ne0[4])}
      Inputs(n, i, t) == Exists(i[n] - t * stride, ne0[n])
      Wanted(i) ==
        UNION {Src0(<<i[1] - x[1] * stride, i[2] - x[2] * stride, i[3], x[3]>>)
               \cup Src1(<<x[1], x[2], x[3], 0>>) :
                 x \in {x \in Upto(ne1[1]) \X Upto(ne1[2]) \X Upto(ne0[4]) :
                          Inputs(1, i, x[1]) /\ Inputs(2, i, x[2])}}
  IN PlanWith(Both(ne0, ne1), {"wdata"} \X Upto(nk + Size(ne1)), Put(Elements(ne), Wanted),
              AfterFirst(nth, Prepare, LAMBDA ith : Scatter(Turns(ith), Place, Dot)))

\* Batches of patches, as many as fit in wdata (more than 8: a multiple of 8).
\* In a batch the threads copy their patches, meet, multiply by the kernel
\* (FWD_mul_mat, whose threads share the patches), meet, and put their results
\* in place.  n is the number of patches, width the length of one, c_out the
\* output channels; patch tells what a patch's element is, place where a result goes.
PerBatch(batch_size) == IF batch_size > 8 THEN (batch_size \div 8) * 8 ELSE batch_size
Batched(n, width, c_out, batch_size, kernel, given, patch, place, nth) ==
  LET per == PerBatch(batch_size)
      batch_n == (n + per - 1) \div per
      Start(b) == b * per
      Count(b) == Least(Start(b) + per, n) - Start(b)
      Mine(b, ith) == {Start(b) + k : k \in Chunk(Count(b), nth, ith)}
      Copy(b, ith) == ScatterIn("wdata", Mine(b, ith) \X Upto(width),
                                LAMBDA x : <<x[1] % per, x[2]>>, LAMBDA x : patch[x])
      Multiply(b, ith) ==
        ScatterIn("gemm", Strided(Count(b), nth, ith) \X Upto(c_out),
                  LAMBDA x : x,
                  LAMBDA x : {<<"wdata", <<x[1], k>>>> : k \in Upto(width)} \cup kernel[x[2]])
      Permute(b, ith) ==
        Scatter({i - Start(b) : i \in Mine(b, ith)} \X Upto(c_out),
                LAMBDA x : place[Start(b) + x[1], x[2]], LAMBDA x : {<<"gemm", x>>})
  IN PlanWith(given, ({"wdata"} \X (Upto(per) \X Upto(width))) \cup ({"gemm"} \X (Upto(per) \X Upto(c_out))),
       Scatter(Upto(n) \X Upto(c_out), LAMBDA x : place[x],
               LAMBDA x : kernel[x[2]] \cup UNION {patch[x[1], k] : k \in Upto(width)}),
       [ith \in Upto(nth) |->
         [step \in 1 .. 5 * batch_n |->
           LET b == (step - 1) \div 5
           IN CASE (step - 1) % 5 = 0 -> Copy(b, ith)
                [] (step - 1) % 5 = 2 -> Multiply(b, ith)
                [] (step - 1) % 5 = 4 -> Permute(b, ith)
                [] OTHER -> Barrier]])

\* kernel [KW, KH, IC, OC], src [W, H, C, N], dst [OW, OH, OC, N].
Conv2d(ne0, ne1, o, s, p, d, batch_size, nth) ==
  LET area == o[1] * o[2]
      n == ne1[4] * area
      width == ne0[1] * ne0[2] * ne0[3]
      Patch(pi, k) ==
        LET sy == Tap((pi \div o[1]) % o[2], (k \div ne0[1]) % ne0[2], s[2], p[2], d[2])
            sx == Tap(pi % o[1], k % ne0[1], s[1], p[1], d[1])
        IN IF Exists(sy, ne1[2]) /\ Exists(sx, ne1[1])
           THEN Src1(<<sx, sy, k \div (ne0[1] * ne0[2]), pi \div area>>) ELSE {}
      Place(pi, oc) == <<pi % o[1], (pi \div o[1]) % o[2], oc, pi \div area>>
      kernel == [oc \in Upto(ne0[4]) |-> {<<"src0", i>> : i \in {i \in Elements(ne0) : i[4] = oc}}]
  IN Batched(n, width, ne0[4], batch_size, kernel, Both(ne0, ne1),
             [x \in Upto(n) \X Upto(width) |-> Patch(x[1], x[2])],
             [x \in Upto(n) \X Upto(ne0[4]) |-> Place(x[1], x[2])], nth)

\* kernel [KW, KH, KD, IC*OC], src [W, H, D, C*N], dst [OW, OH, OD, OC*N].
Conv3d(ne0, ne1, c, o, s, p, d, batch_size, nth) ==
  LET plane == o[1] * o[2]
      volume == plane * o[3]
      kplane == ne0[1] * ne0[2]
      kvolume == kplane * ne0[3]
      oc == ne0[4] \div c
      n == (ne1[4] \div c) * volume
      width == kvolume * c
      InBatch(pi) == pi % volume
      InDepth(pi) == InBatch(pi) % plane
      Patch(pi, k) ==
        LET At == <<Tap(InDepth(pi) % o[1], k % ne0[1], s, p, d),
                    Tap(InDepth(pi) \div o[1], (k \div ne0[1]) % ne0[2], s, p, d),
                    Tap(InBatch(pi) \div plane, (k \div kplane) % ne0[3], s, p, d),
                    (pi \div volume) * c + k \div kvolume>>
        IN IF \A m \in 1 .. 3 : Exists(At[m], ne1[m]) THEN Src1(At) ELSE {}
      Place(pi, ioc) == <<InDepth(pi) % o[1], InDepth(pi) \div o[1],
                          InBatch(pi) \div plane, (pi \div volume) * oc + ioc>>
      kernel == [ioc \in Upto(oc) |->
                   {<<"src0", i>> : i \in {i \in Elements(ne0) : i[4] \div c = ioc}}]
  IN Batched(n, width, oc, batch_size, kernel, Both(ne0, ne1),
             [x \in Upto(n) \X Upto(width) |-> Patch(x[1], x[2])],
             [x \in Upto(n) \X Upto(oc) |-> Place(x[1], x[2])], nth)

\* Depthwise: kernel [KW, KH, 1, C]; the threads share the planes of dst when
\* src is contiguous, and its rows when the channels are (each for all channels).
DwTaps(ne0, ne1, s, p, d, i) ==
  UNION {Src1(<<Tap(i[1], k[1], s[1], p[1], d[1]), Tap(i[2], k[2], s[2], p[2], d[2]), i[3], i[4]>>)
         \cup Src0(<<k[1], k[2], 0, i[3]>>) :
           k \in {k \in Upto(ne0[1]) \X Upto(ne0[2]) :
                    /\ Exists(Tap(i[1], k[1], s[1], p[1], d[1]), ne1[1])
                    /\ Exists(Tap(i[2], k[2], s[2], p[2], d[2]), ne1[2])}}
Conv2dDwWhcn(ne0, ne1, o, s, p, d, nth) ==
  LET ne == <<o[1], o[2], ne1[3], ne1[4]>>
      \* plane i of dst is channel i % channels of image i / channels
      Own(ith) == {<<x, y, i % ne1[3], i \div ne1[3]>> :
                     x \in Upto(o[1]), y \in Upto(o[2]), i \in Chunk(ne1[3] * ne1[4], nth, ith)}
  IN Plan(Both(ne0, ne1), Put(Elements(ne), LAMBDA i : DwTaps(ne0, ne1, s, p, d, i)),
          EachThread(nth, LAMBDA ith : Put(Own(ith), LAMBDA i : DwTaps(ne0, ne1, s, p, d, i))))
Conv2dDwCwhn(ne0, ne1, o, s, p, d, nth) ==
  LET ne == <<o[1], o[2], ne1[3], ne1[4]>>
      Own(ith) == {<<x, row % o[2], c, row \div o[2]>> :
                     x \in Upto(o[1]), row \in Chunk(o[2] * ne1[4], nth, ith), c \in Upto(ne1[3])}
  IN Plan(Both(ne0, ne1), Put(Elements(ne), LAMBDA i : DwTaps(ne0, ne1, s, p, d, i)),
          EachThread(nth, LAMBDA ith : Put(Own(ith), LAMBDA i : DwTaps(ne0, ne1, s, p, d, i))))

-----------------------------------------------------------------------------
(* Pooling, in the first thread.                                           *)

\* k taps of a row of src0.
Pool1d(ne0, OW, k, s, p, nth) ==
  LET From(i) == {<<"src0", [i EXCEPT ![1] = j]>> :
                    j \in {j \in {i[1] * s - p + ki : ki \in Upto(k)} : Exists(j, ne0[1])}}
  IN Rowwise([ne0 EXCEPT ![1] = OW], nth, FirstOnly, Cells("src0", ne0), From)

\* The window of output <<ox, oy>> of a plane.
Window(ne0, k, s, p, i) ==
  {w \in {<<i[1] * s[1] - p[1] + kx, i[2] * s[2] - p[2] + ky, i[3], i[4]>> :
            kx \in Upto(k[1]), ky \in Upto(k[2])} :
     Exists(w[1], ne0[1]) /\ Exists(w[2], ne0[2])}
Pool2d(ne0, o, k, s, p, nth) ==
  LET ne == <<o[1], o[2], ne0[3], ne0[4]>>
  IN Rowwise(ne, nth, FirstOnly, Cells("src0", ne0),
             LAMBDA i : {<<"src0", w>> : w \in Window(ne0, k, s, p, i)})

\* The gradient: dst is zero, then each window hands its gradient on, for an
\* average to all of it, for a maximum to its first greatest element (value
\* holds the elements of the forward tensor, src1).
Pool2dBack(ne, o, k, s, p, max, value, nth) ==
  LET ne0 == <<o[1], o[2], ne[3], ne[4]>>
      Before(v, w) == v[2] < w[2] \/ (v[2] = w[2] /\ v[1] < w[1])
      Greatest(W) == CHOOSE w \in W : \A v \in W \ {w} :
                       value[v] < value[w] \/ (value[v] = value[w] /\ Before(w, v))
      Given(i) == LET W == Window(ne, k, s, p, i)
                  IN IF max /\ W # {} THEN {Greatest(W)} ELSE W
      Seen(i) == IF max THEN {<<"src1", w>> : w \in Window(ne, k, s, p, i)} ELSE {}
      Wanted(j) == UNION {Src0(i) \cup Seen(i) : i \in {i \in Elements(ne0) : j \in Given(i)}}
      Pairs == {x \in Elements(ne0) \X Elements(ne) : x[2] \in Given(x[1])}
      Back == [c \in Cells("dst", ne) |-> UNION {Src0(x[1]) \cup Seen(x[1]) :
                                                   x \in {x \in Pairs : x[2] = c[2]}}]
  IN Plan(Both(ne0, ne), Put(Elements(ne), Wanted),
          EachThread(nth, LAMBDA ith : IF ith = 0 THEN Back ELSE Idle))

-----------------------------------------------------------------------------
(* Scaling.  The factor ne/ne0 is a float in the code and a fraction here; *)
(* the threads share the planes i2.                                        *)

ClampedBelow(x, size) == Most(0, x)
\* (ClampedBelow is a faulty variant.)
Clamped(x, size) == Most(0, Least(x, size - 1))
\* floor((i + 1/2) / sf - 1/2), and floor(i / sf) with aligned corners.
Centre(i, size, from, align) ==
  IF align /\ size > 1 /\ from > 1 THEN (i * (from - 1)) \div (size - 1)
  ELSE IF align THEN (i * from) \div size
  ELSE ((2 * i + 1) * from - size) \div (2 * size)
\* The elements a filter that reaches as far as the source is denser takes.
Covered(i, size, from) ==
  LET D == 2 * size
      x == (2 * i + 1) * from
      support == Most(D, 2 * from)
  IN {sx \in Most((x - support + size) \div D, 0) .. Least((x + support + size) \div D, from) - 1 :
        LET far == sx * D - x + size IN -support < far /\ far < support}
Nearest(i, size, from, align) == IF align THEN Centre(i, size, from, align) ELSE (i * from) \div size
\* The elements around the centre, two for bilinear and four for bicubic.
Near(i, size, from, align) == {Clamped(Centre(i, size, from, align) + off, from) : off \in 0 .. 1}
NearCubic(i, size, from, align) == {Clamped(Centre(i, size, from, align) + off, from) : off \in -1 .. 2}
\* (antialias is for corners that are not aligned.)
Sampled(ne0, ne, mode, align, i) ==
  LET Along(n) == CASE mode = "nearest" -> {Nearest(i[n], ne[n], ne0[n], align)}
                    [] mode = "bilinear" -> Near(i[n], ne[n], ne0[n], align)
                    [] mode = "bicubic" -> NearCubic(i[n], ne[n], ne0[n], align)
                    [] mode = "antialias" -> Covered(i[n], ne[n], ne0[n])
      Plane(n) == Nearest(i[n], ne[n], ne0[n], FALSE)
  IN {<<"src0", <<x, y, Plane(3), Plane(4)>>>> : x \in Along(1), y \in Along(2)}
Upscale(ne0, ne, mode, align, nth) ==
  LET From(i) == Sampled(ne0, ne, mode, align, i)
      Own(ith) == {i \in Elements(ne) : i[3] \in Strided(ne[3], nth, ith)}
  IN Plan(Cells("src0", ne0), Put(Elements(ne), From),
          EachThread(nth, LAMBDA ith : Put(Own(ith), From)))

-----------------------------------------------------------------------------
(* Padding and rolling.                                                    *)

\* lp and rp elements around src0, zeros or src0 wrapped around.
WrapAround(coord, size) == (coord + size) % size
Pad(ne0, lp, rp, circular, nth) ==
  LET ne == [n \in 1 .. 4 |-> lp[n] + ne0[n] + rp[n]]
      From(i) ==
        IF circular THEN Src0([n \in 1 .. 4 |-> WrapAround(i[n] - lp[n], ne0[n])])
        ELSE IF \A n \in 1 .. 4 : i[n] >= lp[n] /\ i[n] < ne[n] - rp[n]
             THEN Src0([n \in 1 .. 4 |-> i[n] - lp[n]]) ELSE {}
  IN Planewise(ne, nth, Strided, Cells("src0", ne0), From)

\* Rows are copied to the right of p0 and mirrored at both ends.
PadReflect1d(ne0, p0, p1, nth) ==
  LET ne == [ne0 EXCEPT ![1] = p0 + @ + p1]
      right == ne[1] - p1 - 1
      Row(ith) == Strided(ne[2], nth, ith)
      Columns(cols, ith) == cols \X Row(ith) \X Upto(ne[3]) \X Upto(ne[4])
      Mirror(i, at) == {<<"dst", [i EXCEPT ![1] = 2 * at - @]>>}
      Wanted(i) == LET x == i[1] - p0
                   IN Src0([i EXCEPT ![1] = IF x < 0 THEN -x
                                            ELSE IF x < ne0[1] THEN x ELSE 2 * (ne0[1] - 1) - x])
  IN Plan(Cells("src0", ne0), Put(Elements(ne), Wanted),
          [ith \in Upto(nth) |->
             <<Put(Columns(p0 .. p0 + ne0[1] - 1, ith), LAMBDA i : Src0([i EXCEPT ![1] = @ - p0])),
               Put(Columns(0 .. p0 - 1, ith), LAMBDA i : Mirror(i, p0)),
               Put(Columns(right + 1 .. right + p1, ith), LAMBDA i : Mirror(i, right))>>])

\* Row i1 - s1 of plane i2 - s2, i3 - s3, turned by s0: two copies of n and s
\* elements.  The share of a thread is one row more than a full one.
WrapIndex(i, ne) == IF i < 0 THEN i + ne ELSE IF i >= ne THEN i - ne ELSE i
Roll(ne, shift, nth) ==
  LET total == NRows(ne)
      per == (total + nth) \div nth
      Share(ith) == per * ith .. Least(per * ith + per, total) - 1
      s == WrapIndex(-shift[1], ne[1])
      n == ne[1] - s
      Source(i, i0) == Src0(<<i0, WrapIndex(i[2] - shift[2], ne[2]), WrapIndex(i[3] - shift[3], ne[3]),
                              WrapIndex(i[4] - shift[4], ne[4])>>)
      From(i) == Source(i, IF i[1] < n THEN i[1] + s ELSE i[1] - n)
  IN Plan(Cells("src0", ne), Put(Elements(ne), LAMBDA i :
            Src0([k \in 1 .. 4 |-> (i[k] - shift[k] + ne[k]) % ne[k]])),
          EachThread(nth, LAMBDA ith : Put(RowCells(ne, Share(ith)), From)))

-----------------------------------------------------------------------------
(* Generated tensors and sortings.                                         *)

Arange(steps, nth) ==
  Plan({}, Put(Elements(<<steps, 1, 1, 1>>), LAMBDA i : {}),
       EachThread(nth, LAMBDA ith : Put({<<i, 0, 0, 0>> : i \in Strided(steps, nth, ith)}, LAMBDA i : {})))

\* Cosine j and sine j + half of each timestep; an odd dim leaves one zero.
TimestepEmbedding(ne00, dim, nth) ==
  LET half == dim \div 2
      Own(ith) == {<<j + side, i, 0, 0>> : j \in Strided(half, nth, ith), side \in {0, half}, i \in Upto(ne00)}
      Odd(ith) == IF dim % 2 # 0 /\ ith = 0 THEN {<<2 * half, i, 0, 0>> : i \in Upto(ne00)} ELSE {}
      From(i) == IF i[1] < 2 * half THEN Src0(<<i[2], 0, 0, 0>>) ELSE {}
  IN Plan(Cells("src0", <<ne00, 1, 1, 1>>), Put(Elements(<<dim, ne00, 1, 1>>), From),
          EachThread(nth, LAMBDA ith : Put(Own(ith) \cup Odd(ith), From)))

\* Each row's indices, sorted by its values: every element depends on the row.
Argsort(ne, nth) ==
  Rowwise(ne, nth, Strided, Cells("src0", ne), LAMBDA i : RowSrc0(ne, i))
\* The first top_k of them, sorted in the thread's part of wdata.
TopK(ne0, top_k, nth) ==
  LET ne == [ne0 EXCEPT ![1] = top_k]
  IN PlanWith(Cells("src0", ne0), OwnWdata(nth), Put(Elements(ne), LAMBDA i : RowSrc0(ne0, i)),
              EachThread(nth, LAMBDA ith :
                Through(ith, Put(RowCells(ne, Strided(NRows(ne), nth, ith)), LAMBDA i : RowSrc0(ne0, i)))))
=============================================================================

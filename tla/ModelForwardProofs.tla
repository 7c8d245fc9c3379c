-------------------------- MODULE ModelForwardProofs -------------------------
(***************************************************************************)
(* Theorems about ModelForward, for any sequence of layers, any types of   *)
(* the weights, any length of the prompt and any refused calls.            *)
(***************************************************************************)
EXTENDS ModelForward, SequenceTheorems, TLAPS

(* The launches a pass is made of.                                         *)
Sizes == Seq({Pointer, Number, Local})
Sources == (SUBSET Buffers) \ {{}}
LaunchSet ==
  [params : Sizes, args : Sizes, from : UNION {[D -> Sources] : D \in SUBSET Buffers}]

(* The buffers that the launches in front of the k-th write.               *)
Written(program, k) == UNION {DOMAIN program[j].from : j \in 1 .. k - 1}

(* No layer's norm is fused with a projection, in a kernel whose call      *)
(* passes an argument of the wrong size.                                   *)
Unfused == qtype["ssm_out"] # "q4k" /\ qtype["attn_qkv"] # "q4k"

(* A program that is run when the buffers in S are fresh, that is computed *)
(* from the token of this pass: it reads fresh buffers only, and leaves    *)
(* those in T fresh.  The driver has no reason to refuse a launch of it    *)
(* unless it is a fused one.                                               *)
Flows(program, S, T) ==
  /\ program \in Seq(LaunchSet)
  /\ \A i \in DOMAIN program : \A b \in DOMAIN program[i].from :
       program[i].from[b] \subseteq S \cup Written(program, i)
  /\ Unfused => \A i \in DOMAIN program : Accepted(program[i])
  /\ T \subseteq S \cup Written(program, Len(program) + 1)

(* What is fresh when a stage begins.                                      *)
Entry == IF stage = 0 THEN {"emb_row"} ELSE {"a"}

(* Where the generation is: the tokens so far, and the passes left.        *)
StepInv ==
  /\ len = PromptLen + step
  /\ pc \in {"forward", "pick"} => step < MaxNew

(* In a pass without a refused call so far, what the stage was given and   *)
(* what it has written comes from the pass's token.                        *)
FreshInv ==
  pc = "forward" /\ len \notin lossy =>
    \A b \in Entry \cup Written(Launches, at) : content[b] = {len}

(* Without fused kernels, a call is lost only where the driver refuses it. *)
LossyInv == Unfused /\ refusals = 0 => lossy = {}

IInv == TypeOK /\ StepInv /\ FreshInv /\ LossyInv /\ LossesStayInTheirPass

-----------------------------------------------------------------------------
(* Programs                                                                *)

LEMMA WrittenBefore ==
  ASSUME NEW L \in Seq(LaunchSet), NEW k \in 1 .. Len(L)
  PROVE  Written(L, k + 1) = Written(L, k) \cup DOMAIN L[k].from
<1>1. 1 .. (k + 1) - 1 = (1 .. k - 1) \cup {k}
  OBVIOUS
<1> QED
  BY <1>1 DEF Written

(* One program behind another one.                                         *)
LEMMA Chain ==
  ASSUME NEW S, NEW T, NEW U, NEW L, NEW M, Flows(L, S, T), Flows(M, T, U)
  PROVE  Flows(L \o M, S, U)
<1> DEFINE P == L \o M
<1>1. /\ L \in Seq(LaunchSet) /\ M \in Seq(LaunchSet)
      /\ Len(L) \in Nat /\ Len(M) \in Nat
      /\ DOMAIN L = 1 .. Len(L) /\ DOMAIN M = 1 .. Len(M)
  BY DEF Flows
<1>2. /\ P \in Seq(LaunchSet) /\ Len(P) = Len(L) + Len(M) /\ DOMAIN P = 1 .. Len(L) + Len(M)
      /\ \A i \in 1 .. Len(L) : P[i] = L[i]
      /\ \A i \in 1 .. Len(M) : P[Len(L) + i] = M[i]
  BY <1>1
<1> HIDE DEF P
<1>3. ASSUME NEW i \in 1 .. Len(L) + 1 PROVE Written(P, i) = Written(L, i)
  <2>1. \A j \in 1 .. i - 1 : P[j] = L[j]
    BY <1>1, <1>2
  <2> QED
    BY <2>1 DEF Written
<1>4. ASSUME NEW i \in 1 .. Len(M) + 1
      PROVE  Written(P, Len(L) + i) = Written(L, Len(L) + 1) \cup Written(M, i)
  <2>1. ASSUME NEW b \in Written(P, Len(L) + i)
        PROVE  b \in Written(L, Len(L) + 1) \cup Written(M, i)
    <3>1. PICK j \in 1 .. Len(L) + i - 1 : b \in DOMAIN P[j].from
      BY DEF Written
    <3>2. CASE j <= Len(L)
      BY <1>1, <1>2, <3>1, <3>2 DEF Written
    <3>3. CASE j > Len(L)
      <4>1. j - Len(L) \in 1 .. i - 1 /\ j - Len(L) \in 1 .. Len(M) /\ j = Len(L) + (j - Len(L))
        BY <1>1, <3>1, <3>3
      <4>2. P[j] = M[j - Len(L)]
        BY <1>2, <4>1
      <4> QED
        BY <3>1, <4>1, <4>2 DEF Written
    <3> QED
      BY <1>1, <3>2, <3>3
  <2>2. ASSUME NEW b \in Written(M, i) PROVE b \in Written(P, Len(L) + i)
    <3>1. PICK j \in 1 .. i - 1 : b \in DOMAIN M[j].from
      BY DEF Written
    <3>2. Len(L) + j \in 1 .. Len(L) + i - 1 /\ P[Len(L) + j] = M[j]
      BY <1>1, <1>2, <3>1
    <3> QED
      BY <3>1, <3>2 DEF Written
  <2>3. ASSUME NEW b \in Written(L, Len(L) + 1) PROVE b \in Written(P, Len(L) + i)
    <3>1. PICK j \in 1 .. Len(L) : b \in DOMAIN L[j].from
      BY <1>1 DEF Written
    <3>2. j \in 1 .. Len(L) + i - 1 /\ P[j] = L[j]
      BY <1>1, <1>2, <3>1
    <3> QED
      BY <3>1, <3>2 DEF Written
  <2> QED
    BY <2>1, <2>2, <2>3
<1>5. ASSUME NEW i \in DOMAIN P, NEW b \in DOMAIN P[i].from
      PROVE  P[i].from[b] \subseteq S \cup Written(P, i)
  <2>1. CASE i <= Len(L)
    BY <1>1, <1>2, <1>3, <2>1 DEF Flows
  <2>2. CASE i > Len(L)
    <3> DEFINE m == i - Len(L)
    <3>1. m \in 1 .. Len(M) /\ m \in 1 .. Len(M) + 1 /\ i = Len(L) + m
      BY <1>1, <1>2, <2>2
    <3> HIDE DEF m
    <3>2. P[i] = M[m] /\ Written(P, i) = Written(L, Len(L) + 1) \cup Written(M, m)
      BY <1>2, <1>4, <3>1
    <3>3. P[i].from[b] \subseteq T \cup Written(M, m)
      BY <1>1, <3>1, <3>2 DEF Flows
    <3>4. T \subseteq S \cup Written(L, Len(L) + 1)
      BY DEF Flows
    <3> QED
      BY <3>2, <3>3, <3>4
  <2> QED
    BY <1>1, <1>2, <2>1, <2>2
<1>6. U \subseteq S \cup Written(P, Len(P) + 1)
  <2>1. Len(P) + 1 = Len(L) + (Len(M) + 1) /\ Len(M) + 1 \in 1 .. Len(M) + 1
    BY <1>1, <1>2
  <2>2. Written(P, Len(P) + 1) = Written(L, Len(L) + 1) \cup Written(M, Len(M) + 1)
    BY <1>4, <2>1
  <2> QED
    BY <2>2 DEF Flows
<1>7. ASSUME Unfused, NEW i \in DOMAIN P PROVE Accepted(P[i])
  <2>1. CASE i <= Len(L)
    <3>1. i \in 1 .. Len(L) /\ P[i] = L[i]
      BY <1>1, <1>2, <2>1
    <3> QED
      BY <1>1, <1>7, <3>1 DEF Flows
  <2>2. CASE i > Len(L)
    <3> DEFINE m == i - Len(L)
    <3>1. m \in 1 .. Len(M) /\ i = Len(L) + m
      BY <1>1, <1>2, <2>2
    <3> HIDE DEF m
    <3>2. P[i] = M[m]
      BY <1>2, <3>1
    <3> QED
      BY <1>1, <1>7, <3>1, <3>2 DEF Flows
  <2> QED
    BY <1>1, <1>2, <2>1, <2>2
<1> QED
  BY <1>2, <1>5, <1>6, <1>7 DEF Flows, P

(* A single launch.                                                        *)
LEMMA OneLaunch ==
  ASSUME NEW S, NEW launch \in LaunchSet,
         \A b \in DOMAIN launch.from : launch.from[b] \subseteq S,
         Unfused => Accepted(launch)
  PROVE  Flows(<<launch>>, S, S \cup DOMAIN launch.from)
<1> DEFINE L == <<launch>>
<1>1. L \in Seq(LaunchSet) /\ Len(L) = 1 /\ DOMAIN L = {1} /\ L[1] = launch
  OBVIOUS
<1> HIDE DEF L
<1>2. Written(L, 2) = DOMAIN launch.from
  <2>1. 1 .. 2 - 1 = {1}
    OBVIOUS
  <2> QED
    BY <1>1, <2>1 DEF Written
<1> QED
  BY <1>1, <1>2 DEF Flows, L

(* The sizes of the kernels' parameters and arguments are sizes.           *)
LEMMA KernelSizes ==
  /\ Pointers(2) \o Numbers(1) \in Sizes /\ Pointers(3) \o Numbers(2) \in Sizes
  /\ Pointers(3) \o Numbers(2) \o <<Local>> \in Sizes
  /\ Pointers(3) \o <<Number, Pointer>> \o Numbers(2) \o <<Local>> \in Sizes
  /\ Pointers(3) \o <<Pointer, Pointer>> \o Numbers(2) \o <<Local>> \in Sizes
  /\ Pointers(1) \o Numbers(8) \in Sizes /\ Pointers(2) \o Numbers(6) \in Sizes
  /\ Pointers(4) \o Numbers(6) \in Sizes
  /\ <<Pointer, Number, Pointer, Number>> \in Sizes
<1>1. \A n \in Nat : Pointers(n) \in Sizes /\ Numbers(n) \in Sizes
  BY DEF Pointers, Numbers, Sizes, Pointer, Number, Local
<1>2. \A s, t \in Sizes : s \o t \in Sizes
  BY DEF Sizes
<1>3. /\ <<Local>> \in Sizes /\ <<Number, Pointer>> \in Sizes /\ <<Pointer, Pointer>> \in Sizes
      /\ <<Pointer, Number, Pointer, Number>> \in Sizes
  BY DEF Sizes
<1>4. /\ Pointers(1) \in Sizes /\ Pointers(2) \in Sizes /\ Pointers(3) \in Sizes
      /\ Pointers(4) \in Sizes /\ Numbers(1) \in Sizes /\ Numbers(2) \in Sizes
      /\ Numbers(6) \in Sizes /\ Numbers(8) \in Sizes
  BY <1>1
<1>5. Pointers(3) \o Numbers(2) \in Sizes /\ Pointers(3) \o <<Number, Pointer>> \in Sizes
      /\ Pointers(3) \o <<Pointer, Pointer>> \in Sizes
  BY <1>2, <1>3, <1>4
<1>6. /\ Pointers(3) \o <<Number, Pointer>> \o Numbers(2) \in Sizes
      /\ Pointers(3) \o <<Pointer, Pointer>> \o Numbers(2) \in Sizes
  BY <1>2, <1>4, <1>5
<1> QED
  BY <1>2, <1>3, <1>4, <1>5, <1>6

(* A launch that computes one buffer.                                      *)
LEMMA Computes ==
  ASSUME NEW S, NEW y \in Buffers, NEW reads \in Sources, reads \subseteq S,
         NEW params \in Sizes, NEW args \in Sizes, Unfused => params = args
  PROVE  Flows(<<Launch(params, args, Into(y, reads))>>, S, S \cup {y})
<1> DEFINE launch == Launch(params, args, Into(y, reads))
<1>1. launch.from = [b \in {y} |-> reads]
  BY DEF Launch, Into
<1>2. launch \in LaunchSet
  BY <1>1 DEF Launch, LaunchSet
<1>3. Unfused => Accepted(launch)
  BY DEF Launch, Accepted
<1> HIDE DEF launch
<1> QED
  BY <1>1, <1>2, <1>3, OneLaunch DEF launch

LEMMA LessFresh ==
  ASSUME NEW S, NEW T, NEW U, NEW L, Flows(L, S, T), U \subseteq T
  PROVE  Flows(L, S, U)
BY DEF Flows

LEMMA CopyF32Flows ==
  ASSUME NEW S, NEW x \in Buffers, NEW y \in Buffers, x \in S
  PROVE  Flows(<<CopyF32(x, y)>>, S, S \cup {y})
BY Computes, KernelSizes DEF CopyF32, Matching, Sources

LEMMA AddInplaceFlows ==
  ASSUME NEW S, NEW x \in Buffers, NEW y \in Buffers, x \in S, y \in S
  PROVE  Flows(<<AddInplace(y, x)>>, S, S)
<1>1. S \cup {y} = S
  OBVIOUS
<1> QED
  BY <1>1, Computes, KernelSizes DEF AddInplace, Matching, Sources

LEMMA SwigluF4Flows ==
  ASSUME NEW S, NEW x \in Buffers, NEW y \in Buffers, x \in S, y \in S
  PROVE  Flows(<<SwigluF4(y, x)>>, S, S)
<1>1. S \cup {y} = S
  OBVIOUS
<1> QED
  BY <1>1, Computes, KernelSizes DEF SwigluF4, Matching, Sources

LEMMA RmsNormFlows ==
  ASSUME NEW S, NEW x \in Buffers, NEW y \in Buffers, x \in S
  PROVE  Flows(<<RmsNorm(x, y)>>, S, S \cup {y})
BY Computes, KernelSizes DEF RmsNorm, Matching, Sources

LEMMA RmsNormReduceFlows ==
  ASSUME NEW S, NEW x \in Buffers, x \in S
  PROVE  Flows(<<RmsNormReduce(x)>>, S, S \cup {"inv_rms"})
BY Computes, KernelSizes DEF RmsNormReduce, Matching, Sources, Buffers

LEMMA GqaAttentionFlows ==
  ASSUME NEW S, NEW q \in Buffers, NEW k \in Buffers, NEW v \in Buffers, NEW y \in Buffers,
         q \in S, k \in S, v \in S
  PROVE  Flows(<<GqaAttention(q, k, v, y)>>, S, S \cup {y})
BY Computes, KernelSizes DEF GqaAttention, Matching, Sources

LEMMA RopeFusedQkvFlows ==
  ASSUME NEW S, "qkv" \in S
  PROVE  Flows(<<RopeFusedQkv>>, S, S)
<1>1. S \cup {"qkv"} = S /\ "qkv" \in Buffers
  BY DEF Buffers
<1> QED
  BY <1>1, Computes, KernelSizes DEF RopeFusedQkv, Matching, Sources

LEMMA RopeInplaceFlows ==
  ASSUME NEW S, NEW q \in Buffers, NEW k \in Buffers, q \in S, k \in S
  PROVE  Flows(<<RopeInplace(q, k)>>, S, S)
<1> DEFINE launch == RopeInplace(q, k)
<1>1. launch.from = [b \in {q, k} |-> {b}]
  BY DEF RopeInplace, Matching, Launch
<1>2. launch \in LaunchSet
  <2>1. Pointers(2) \o Numbers(6) \in Sizes
    BY KernelSizes
  <2>2. [b \in {q, k} |-> {b}] \in [{q, k} -> Sources]
    BY DEF Sources
  <2> QED
    BY <2>1, <2>2 DEF RopeInplace, Matching, Launch, LaunchSet
<1>5. Accepted(launch)
  BY DEF RopeInplace, Matching, Launch, Accepted
<1> HIDE DEF launch
<1>3. S \cup DOMAIN launch.from = S
  BY <1>1
<1>4. Flows(<<launch>>, S, S \cup DOMAIN launch.from)
  BY <1>1, <1>2, <1>5, OneLaunch
<1> QED
  BY <1>3, <1>4 DEF launch

LEMMA MatvecFlows ==
  ASSUME NEW S, NEW w, NEW x \in Buffers, NEW y \in Buffers, x \in S
  PROVE  Flows(Matvec(w, x, y), S, S \cup {y})
<1>1. {x} \in Sources /\ {x} \subseteq S
  BY DEF Sources
<1>2. /\ Pointers(3) \o Numbers(2) \in Sizes
      /\ Pointers(3) \o Numbers(2) \o <<Local>> \in Sizes
  BY KernelSizes
<1>3. CASE qtype[w] = "q6k"
  BY <1>1, <1>2, <1>3, Computes DEF Matvec, MatvecQ6K, Matching
<1>4. CASE qtype[w] = "q4k"
  BY <1>1, <1>2, <1>4, Computes DEF Matvec, MatvecQ4K, Matching
<1>5. CASE qtype[w] # "q6k" /\ qtype[w] # "q4k"
  BY <1>1, <1>2, <1>5, Computes DEF Matvec, MatvecF32, Matching
<1> QED
  BY <1>3, <1>4, <1>5

(* The fused norm and product, or its two halves.                          *)
LEMMA NormMatvecFlows ==
  ASSUME NEW S, NEW w \in {"ssm_out", "attn_qkv"}, NEW x \in Buffers, NEW y \in Buffers, x \in S
  PROVE  Flows(NormMatvec(w, x, y), S, S \cup {y})
<1> DEFINE T == S \cup {"inv_rms"}
<1>1. Flows(<<RmsNormReduce(x)>>, S, T)
  BY RmsNormReduceFlows
<1>2. CASE qtype[w] = "q4k"
  <2>1. {x, "inv_rms"} \in Sources /\ {x, "inv_rms"} \subseteq T
    BY DEF Sources, Buffers
  <2>2. /\ Pointers(3) \o <<Number, Pointer>> \o Numbers(2) \o <<Local>> \in Sizes
        /\ Pointers(3) \o <<Pointer, Pointer>> \o Numbers(2) \o <<Local>> \in Sizes
    BY KernelSizes
  <2>3. Flows(<<NormMatvecQ4K(x, y)>>, T, T \cup {y})
    BY <1>2, <2>1, <2>2, Computes DEF NormMatvecQ4K, Unfused
  <2>4. Flows(<<RmsNormReduce(x)>> \o <<NormMatvecQ4K(x, y)>>, S, T \cup {y})
    BY <1>1, <2>3, Chain
  <2> QED
    BY <1>2, <2>4, LessFresh DEF NormMatvec
<1>3. CASE qtype[w] # "q4k"
  <2>1. "b" \in Buffers
    BY DEF Buffers
  <2>2. Flows(<<RmsNorm(x, "b")>>, T, T \cup {"b"})
    BY <2>1, RmsNormFlows
  <2>3. Flows(Matvec(w, "b", y), T \cup {"b"}, (T \cup {"b"}) \cup {y})
    BY <2>1, MatvecFlows
  <2>4. Flows(<<RmsNorm(x, "b")>> \o Matvec(w, "b", y), T, (T \cup {"b"}) \cup {y})
    BY <2>2, <2>3, Chain
  <2>5. Flows(<<RmsNormReduce(x)>> \o (<<RmsNorm(x, "b")>> \o Matvec(w, "b", y)),
              S, (T \cup {"b"}) \cup {y})
    BY <1>1, <2>4, Chain
  <2> QED
    BY <1>3, <2>5, LessFresh DEF NormMatvec
<1> QED
  BY <1>2, <1>3

-----------------------------------------------------------------------------
(* The stages: each is given one fresh buffer.                             *)

LEMMA FeedForwardFlows ==
  ASSUME NEW S, "a" \in S
  PROVE  Flows(FeedForward, S, S)
<1> DEFINE S1 == S \cup {"b"}
           S2 == S1 \cup {"ffn_gate"}
           S3 == S2 \cup {"ffn_up"}
           S4 == S3 \cup {"c"}
           P2 == <<RmsNorm("a", "b")>> \o Matvec("ffn_gate", "b", "ffn_gate")
           P3 == P2 \o Matvec("ffn_up", "b", "ffn_up")
           P4 == P3 \o <<SwigluF4("ffn_gate", "ffn_up")>>
           P5 == P4 \o Matvec("ffn_down", "ffn_gate", "c")
           P6 == P5 \o <<AddInplace("a", "c")>>
<1>1. {"a", "b", "c", "ffn_gate", "ffn_up"} \subseteq Buffers
  BY DEF Buffers
<1>2. Flows(<<RmsNorm("a", "b")>>, S, S1)
  BY <1>1, RmsNormFlows
<1>3. Flows(Matvec("ffn_gate", "b", "ffn_gate"), S1, S2)
  BY <1>1, MatvecFlows
<1>4. Flows(Matvec("ffn_up", "b", "ffn_up"), S2, S3)
  BY <1>1, MatvecFlows
<1>5. Flows(<<SwigluF4("ffn_gate", "ffn_up")>>, S3, S3)
  BY <1>1, SwigluF4Flows
<1>6. Flows(Matvec("ffn_down", "ffn_gate", "c"), S3, S4)
  BY <1>1, MatvecFlows
<1>7. Flows(<<AddInplace("a", "c")>>, S4, S4)
  BY <1>1, AddInplaceFlows
<1>8. FeedForward = P6
  BY DEF FeedForward
<1>9. S \subseteq S4
  OBVIOUS
<1> HIDE DEF S1, S2, S3, S4
<1>10. Flows(P2, S, S2)
  BY <1>2, <1>3, Chain
<1>11. Flows(P3, S, S3)
  BY <1>4, <1>10, Chain
<1>12. Flows(P4, S, S3)
  BY <1>5, <1>11, Chain
<1>13. Flows(P5, S, S4)
  BY <1>6, <1>12, Chain
<1>14. Flows(P6, S, S4)
  BY <1>7, <1>13, Chain
<1> QED
  BY <1>8, <1>9, <1>14, LessFresh

LEMMA HybridLayerFlows ==
  ASSUME NEW S, "a" \in S
  PROVE  Flows(HybridLayer, S, S)
<1> DEFINE S1 == S \cup {"ssm_out"}
           S2 == S1 \cup {"qkv"}
           S3 == S2 \cup {"gate_out"}
           P2 == NormMatvec("ssm_out", "a", "ssm_out") \o <<AddInplace("a", "ssm_out")>>
           P3 == P2 \o NormMatvec("attn_qkv", "a", "qkv")
           P4 == P3 \o <<RopeFusedQkv>>
           P5 == P4 \o Matvec("attn_gate", "qkv", "gate_out")
           P6 == P5 \o <<AddInplace("a", "gate_out")>>
           P7 == P6 \o FeedForward
<1>1. {"a", "ssm_out", "qkv", "gate_out"} \subseteq Buffers
  BY DEF Buffers
<1>2. Flows(NormMatvec("ssm_out", "a", "ssm_out"), S, S1)
  BY <1>1, NormMatvecFlows
<1>3. Flows(<<AddInplace("a", "ssm_out")>>, S1, S1)
  BY <1>1, AddInplaceFlows
<1>4. Flows(NormMatvec("attn_qkv", "a", "qkv"), S1, S2)
  BY <1>1, NormMatvecFlows
<1>5. Flows(<<RopeFusedQkv>>, S2, S2)
  BY <1>1, RopeFusedQkvFlows
<1>6. Flows(Matvec("attn_gate", "qkv", "gate_out"), S2, S3)
  BY <1>1, MatvecFlows
<1>7. Flows(<<AddInplace("a", "gate_out")>>, S3, S3)
  BY <1>1, AddInplaceFlows
<1>8. Flows(FeedForward, S3, S3)
  BY <1>1, FeedForwardFlows
<1>9. HybridLayer = P7 /\ S \subseteq S3
  BY DEF HybridLayer
<1> HIDE DEF S1, S2, S3
<1>10. Flows(P2, S, S1)
  BY <1>2, <1>3, Chain
<1>11. Flows(P3, S, S2)
  BY <1>10, <1>4, Chain
<1>12. Flows(P4, S, S2)
  BY <1>11, <1>5, Chain
<1>13. Flows(P5, S, S3)
  BY <1>12, <1>6, Chain
<1>14. Flows(P6, S, S3)
  BY <1>13, <1>7, Chain
<1>15. Flows(P7, S, S3)
  BY <1>14, <1>8, Chain
<1> QED
  BY <1>9, <1>15, LessFresh

LEMMA OneMore ==
  ASSUME NEW E, NEW s \in Seq(E), NEW t \in Seq(E), NEW e \in E, Len(t) = Len(s) + 1,
         \A i \in 1 .. Len(s) : t[i] = s[i], t[Len(t)] = e
  PROVE  s \o <<e>> = t
<1>1. /\ <<e>> \in Seq(E) /\ Len(<<e>>) = 1 /\ <<e>>[1] = e /\ Len(s) \in Nat
  OBVIOUS
<1>2. /\ s \o <<e>> \in Seq(E) /\ Len(s \o <<e>>) = Len(t)
      /\ \A i \in 1 .. Len(t) : (s \o <<e>>)[i] = IF i <= Len(s) THEN s[i] ELSE <<e>>[i - Len(s)]
  BY <1>1, ConcatProperties
<1>3. \A i \in 1 .. Len(s \o <<e>>) : (s \o <<e>>)[i] = t[i]
  BY <1>1, <1>2
<1> QED
  BY <1>2, <1>3, SeqEqual

LEMMA Four ==
  ASSUME NEW a, NEW b, NEW c, NEW d
  PROVE  <<a, b, c, d>> = <<a>> \o <<b>> \o <<c>> \o <<d>>
<1> DEFINE E == {a, b, c, d}
           s1 == <<a>>
           s2 == <<a, b>>
           s3 == <<a, b, c>>
           s4 == <<a, b, c, d>>
<1>1. s1 \in Seq(E) /\ s2 \in Seq(E) /\ s3 \in Seq(E) /\ s4 \in Seq(E)
  OBVIOUS
<1>2. Len(s1) = 1 /\ Len(s2) = 2 /\ Len(s3) = 3 /\ Len(s4) = 4
  OBVIOUS
<1>3. /\ s1[1] = a /\ s2[1] = a /\ s3[1] = a /\ s4[1] = a /\ s2[2] = b /\ s3[2] = b /\ s4[2] = b
      /\ s3[3] = c /\ s4[3] = c /\ s4[4] = d /\ b \in E /\ c \in E /\ d \in E
  OBVIOUS
<1> HIDE DEF E, s1, s2, s3, s4
<1>4. s1 \o <<b>> = s2
  <2>1. \A i \in 1 .. Len(s1) : s2[i] = s1[i]
    BY <1>2, <1>3
  <2>2. Len(s2) = Len(s1) + 1 /\ s2[Len(s2)] = b
    BY <1>2, <1>3
  <2> QED
    BY <1>1, <1>3, <2>1, <2>2, OneMore
<1>5. s2 \o <<c>> = s3
  <2>1. \A i \in 1 .. Len(s2) : s3[i] = s2[i]
    BY <1>2, <1>3
  <2>2. Len(s3) = Len(s2) + 1 /\ s3[Len(s3)] = c
    BY <1>2, <1>3
  <2> QED
    BY <1>1, <1>3, <2>1, <2>2, OneMore
<1>6. s3 \o <<d>> = s4
  <2>1. \A i \in 1 .. Len(s3) : s4[i] = s3[i]
    BY <1>2, <1>3
  <2>2. Len(s4) = Len(s3) + 1 /\ s4[Len(s4)] = d
    BY <1>2, <1>3
  <2> QED
    BY <1>1, <1>3, <2>1, <2>2, OneMore
<1> QED
  BY <1>4, <1>5, <1>6 DEF s1, s4

LEMMA HeadsFlows ==
  ASSUME NEW S, "qkv" \in S, "k" \in S, "v" \in S
  PROVE  Flows(<<RopeInplace("qkv", "k"), RmsNorm("qkv", "qkv"), RmsNorm("k", "k"),
                 GqaAttention("qkv", "k", "v", "gate_out")>>, S, S \cup {"gate_out"})
<1> DEFINE P2 == <<RopeInplace("qkv", "k")>> \o <<RmsNorm("qkv", "qkv")>>
           P3 == P2 \o <<RmsNorm("k", "k")>>
           T == S \cup {"gate_out"}
<1>1. {"qkv", "k", "v", "gate_out"} \subseteq Buffers /\ S \cup {"qkv"} = S /\ S \cup {"k"} = S
  BY DEF Buffers
<1>2. Flows(<<RopeInplace("qkv", "k")>>, S, S)
  BY <1>1, RopeInplaceFlows
<1>3. Flows(<<RmsNorm("qkv", "qkv")>>, S, S \cup {"qkv"})
  BY <1>1, RmsNormFlows
<1>4. Flows(<<RmsNorm("k", "k")>>, S, S \cup {"k"})
  BY <1>1, RmsNormFlows
<1>5. Flows(<<GqaAttention("qkv", "k", "v", "gate_out")>>, S, T)
  BY <1>1, GqaAttentionFlows
<1> HIDE DEF T
<1>6. Flows(P2, S, S)
  BY <1>1, <1>2, <1>3, Chain
<1>7. Flows(P3, S, S)
  BY <1>1, <1>4, <1>6, Chain
<1>8. Flows(P3 \o <<GqaAttention("qkv", "k", "v", "gate_out")>>, S, T)
  BY <1>5, <1>7, Chain
<1>9. <<RopeInplace("qkv", "k"), RmsNorm("qkv", "qkv"), RmsNorm("k", "k"),
        GqaAttention("qkv", "k", "v", "gate_out")>>
        = P3 \o <<GqaAttention("qkv", "k", "v", "gate_out")>>
  BY Four
<1> QED
  BY <1>8, <1>9 DEF T

LEMMA AttentionLayerFlows ==
  ASSUME NEW S, "a" \in S
  PROVE  Flows(AttentionLayer, S, S)
<1> DEFINE S1 == S \cup {"b"}
           S2 == S1 \cup {"qkv"}
           S3 == S2 \cup {"k"}
           S4 == S3 \cup {"v"}
           S5 == S4 \cup {"gate_out"}
           S6 == S5 \cup {"c"}
           Heads == <<RopeInplace("qkv", "k"), RmsNorm("qkv", "qkv"), RmsNorm("k", "k"),
                      GqaAttention("qkv", "k", "v", "gate_out")>>
           P2 == <<RmsNorm("a", "b")>> \o Matvec("attn_q", "b", "qkv")
           P3 == P2 \o Matvec("attn_k", "b", "k")
           P4 == P3 \o Matvec("attn_v", "b", "v")
           P5 == P4 \o Heads
           P6 == P5 \o Matvec("attn_output", "gate_out", "c")
           P7 == P6 \o <<AddInplace("a", "c")>>
           P8 == P7 \o FeedForward
<1>1. {"a", "b", "c", "qkv", "k", "v", "gate_out"} \subseteq Buffers
  BY DEF Buffers
<1>2. Flows(<<RmsNorm("a", "b")>>, S, S1)
  BY <1>1, RmsNormFlows
<1>3. Flows(Matvec("attn_q", "b", "qkv"), S1, S2)
  BY <1>1, MatvecFlows
<1>4. Flows(Matvec("attn_k", "b", "k"), S2, S3)
  BY <1>1, MatvecFlows
<1>5. Flows(Matvec("attn_v", "b", "v"), S3, S4)
  BY <1>1, MatvecFlows
<1>6. Flows(Heads, S4, S5)
  BY HeadsFlows
<1>7. Flows(Matvec("attn_output", "gate_out", "c"), S5, S6)
  BY <1>1, MatvecFlows
<1>8. Flows(<<AddInplace("a", "c")>>, S6, S6)
  BY <1>1, AddInplaceFlows
<1>9. Flows(FeedForward, S6, S6)
  BY <1>1, FeedForwardFlows
<1>10. AttentionLayer = P8 /\ S \subseteq S6
  BY DEF AttentionLayer
<1> HIDE DEF Heads
<1> HIDE DEF S1, S2, S3, S4, S5, S6
<1>11. Flows(P2, S, S2)
  BY <1>2, <1>3, Chain
<1>12. Flows(P3, S, S3)
  BY <1>11, <1>4, Chain
<1>13. Flows(P4, S, S4)
  BY <1>12, <1>5, Chain
<1>14. Flows(P5, S, S5)
  BY <1>13, <1>6, Chain
<1>15. Flows(P6, S, S6)
  BY <1>14, <1>7, Chain
<1>16. Flows(P7, S, S6)
  BY <1>15, <1>8, Chain
<1>17. Flows(P8, S, S6)
  BY <1>16, <1>9, Chain
<1> QED
  BY <1>10, <1>17, LessFresh

LEMMA HeadLaunchesFlows ==
  ASSUME NEW S, "a" \in S
  PROVE  Flows(HeadLaunches, S, S \cup {"logits"})
<1>1. {"a", "b", "logits"} \subseteq Buffers
  BY DEF Buffers
<1>2. Flows(<<RmsNorm("a", "b")>>, S, S \cup {"b"})
  BY <1>1, RmsNormFlows
<1>3. Flows(Matvec("output", "b", "logits"), S \cup {"b"}, (S \cup {"b"}) \cup {"logits"})
  BY <1>1, MatvecFlows
<1>4. Flows(HeadLaunches, S, (S \cup {"b"}) \cup {"logits"})
  BY <1>2, <1>3, Chain DEF HeadLaunches
<1> QED
  BY <1>4, LessFresh

(* Whichever stage it is, it needs its entry only, and leaves the          *)
(* residual stream fresh, and the last one the logits.                     *)
Exit == IF stage = HeadStage THEN {"logits"} ELSE {"a"}

LEMMA StageFlows == stage \in 0 .. HeadStage => Flows(Launches, Entry, Exit)
<1> SUFFICES ASSUME stage \in 0 .. HeadStage PROVE Flows(Launches, Entry, Exit)
  OBVIOUS
<1>1. Len(Layers) \in Nat /\ DOMAIN Layers = 1 .. Len(Layers)
  BY ModelAssumption
<1>2. CASE stage = 0
  <2>1. Launches = <<CopyF32("emb_row", "a")>> /\ Entry = {"emb_row"} /\ Exit = {"a"}
    BY <1>1, <1>2 DEF Launches, Entry, Exit, HeadStage
  <2>2. {"emb_row", "a"} \subseteq Buffers
    BY DEF Buffers
  <2>3. Flows(<<CopyF32("emb_row", "a")>>, {"emb_row"}, {"emb_row"} \cup {"a"})
    BY <2>2, CopyF32Flows
  <2> QED
    BY <2>1, <2>3, LessFresh
<1>3. CASE stage = HeadStage
  <2>1. Launches = HeadLaunches /\ Entry = {"a"} /\ Exit = {"logits"}
    BY <1>1, <1>3 DEF Launches, Entry, Exit, HeadStage
  <2>2. Flows(HeadLaunches, {"a"}, {"a"} \cup {"logits"})
    BY HeadLaunchesFlows
  <2> QED
    BY <2>1, <2>2, LessFresh
<1>4. CASE stage # 0 /\ stage # HeadStage
  <2>1. /\ Launches = IF Layers[stage] THEN HybridLayer ELSE AttentionLayer
        /\ Entry = {"a"} /\ Exit = {"a"}
    BY <1>4 DEF Launches, Entry, Exit
  <2>2. Flows(HybridLayer, {"a"}, {"a"}) /\ Flows(AttentionLayer, {"a"}, {"a"})
    BY HybridLayerFlows, AttentionLayerFlows
  <2> QED
    BY <2>1, <2>2
<1> QED
  BY <1>2, <1>3, <1>4

LEMMA LaunchFacts ==
  ASSUME NEW S, NEW T, NEW L, Flows(L, S, T)
  PROVE  /\ Len(L) \in Nat /\ DOMAIN L = 1 .. Len(L)
         /\ \A i \in DOMAIN L : \A b \in DOMAIN L[i].from :
              b \in Buffers /\ L[i].from[b] \in Sources
<1>1. L \in Seq(LaunchSet)
  BY DEF Flows
<1>2. \A i \in DOMAIN L : L[i] \in LaunchSet
  BY <1>1
<1> QED
  BY <1>1, <1>2 DEF LaunchSet

LEMMA SameLaunches ==
  ASSUME UNCHANGED <<qtype, stage>>
  PROVE  UNCHANGED <<Launches, Entry>>
BY DEF Launches, Entry, HeadLaunches, HybridLayer, AttentionLayer, FeedForward, NormMatvec, Matvec

-----------------------------------------------------------------------------
(* The generation                                                          *)

LEMMA WrittenFirst == ASSUME NEW L PROVE Written(L, 1) = {}
<1>1. 1 .. 1 - 1 = {}
  OBVIOUS
<1> QED
  BY <1>1 DEF Written

LEMMA InitInv == Init => IInv
<1> SUFFICES ASSUME Init PROVE IInv
  OBVIOUS
<1>1. Len(Layers) \in Nat /\ PromptLen \in Nat \ {0} /\ MaxNew \in Nat /\ MaxRefused \in Nat
  BY ModelAssumption
<1>2. stage \in 0 .. HeadStage
  BY <1>1 DEF Init, HeadStage
<1>3. Len(Launches) \in Nat /\ DOMAIN Launches = 1 .. Len(Launches)
      /\ \A i \in DOMAIN Launches : \A b \in DOMAIN Launches[i].from :
           b \in Buffers /\ Launches[i].from[b] \in Sources
  BY <1>2, StageFlows, LaunchFacts
<1>4. at \in 1 .. Len(Launches) + 1 /\ len \in Positions /\ step \in 0 .. MaxNew
      /\ refusals \in 0 .. MaxRefused
  BY <1>1, <1>3 DEF Init, Positions
<1>5. \A i \in DOMAIN Launches : \A b \in DOMAIN Launches[i].from :
        b \in Buffers /\ Launches[i].from[b] \subseteq Buffers
  BY <1>3 DEF Sources
<1>6. TypeOK
  BY <1>2, <1>4, <1>5 DEF Init, TypeOK
<1> QED
  BY <1>1, <1>6 DEF Init, IInv, StepInv, FreshInv, LossyInv, LossesStayInTheirPass

(* The types of the launches, before and after any step.                   *)
LEMMA LaunchesAreTyped ==
  stage \in 0 .. HeadStage =>
    /\ Len(Launches) \in Nat /\ DOMAIN Launches = 1 .. Len(Launches)
    /\ \A i \in DOMAIN Launches : \A b \in DOMAIN Launches[i].from :
         b \in Buffers /\ Launches[i].from[b] \subseteq Buffers
BY StageFlows, LaunchFacts DEF Sources

LEMMA LaunchesTyped ==
  (stage \in 0 .. HeadStage =>
     /\ Len(Launches) \in Nat /\ DOMAIN Launches = 1 .. Len(Launches)
     /\ \A i \in DOMAIN Launches : \A b \in DOMAIN Launches[i].from :
          b \in Buffers /\ Launches[i].from[b] \subseteq Buffers)'
BY LaunchesAreTyped, PTL

LEMMA Numbers0 == Len(Layers) \in Nat /\ HeadStage \in Nat /\ HeadStage > 0
BY ModelAssumption DEF HeadStage

LEMMA StartInv ==
  ASSUME IInv, pc = "loop", step < MaxNew, pc' = "forward", stage' = 0, at' = 1,
         UNCHANGED <<qtype, allocated, step, len, logits>>,
         \/ content' = [content EXCEPT !["emb_row"] = {len}] /\ UNCHANGED <<refusals, lossy>>
         \/ /\ refusals < MaxRefused /\ refusals' = refusals + 1
            /\ lossy' = lossy \cup {len} /\ UNCHANGED content
  PROVE  IInv'
<1>1. PromptLen \in Nat \ {0} /\ MaxNew \in Nat /\ MaxRefused \in Nat
  BY ModelAssumption
<1>2. stage' \in 0 .. HeadStage
  BY Numbers0
<1>3. TypeOK'
  <2>1. at' \in 1 .. Len(Launches') + 1
    BY <1>2, LaunchesTyped DEF HeadStage
  <2>2. \A i \in DOMAIN Launches' : \A b \in DOMAIN Launches'[i].from :
          b \in Buffers /\ Launches'[i].from[b] \subseteq Buffers
    BY <1>2, LaunchesTyped DEF HeadStage
  <2>3. content' \in [Buffers -> SUBSET (Positions \cup {Garbage})]
    BY DEF IInv, TypeOK
  <2>4. refusals' \in 0 .. MaxRefused /\ lossy' \subseteq Positions
    BY <1>1 DEF IInv, TypeOK
  <2> QED
    BY <1>2, <2>1, <2>2, <2>3, <2>4 DEF IInv, TypeOK, HeadStage, Positions
<1>4. StepInv' /\ LossyInv' /\ LossesStayInTheirPass'
  <2>1. StepInv' /\ LossesStayInTheirPass'
    BY DEF IInv, StepInv, LossesStayInTheirPass
  <2>2. refusals \in Nat
    BY <1>1 DEF IInv, TypeOK
  <2>3. LossyInv'
    BY <2>2 DEF IInv, LossyInv, Unfused
  <2> QED
    BY <2>1, <2>3
<1>5. FreshInv'
  <2>1. Entry' = {"emb_row"} /\ Written(Launches', at') = {}
    BY WrittenFirst DEF Entry
  <2>2. "emb_row" \in Buffers /\ content \in [Buffers -> SUBSET (Positions \cup {Garbage})]
    BY DEF Buffers, IInv, TypeOK
  <2> QED
    BY <2>1, <2>2 DEF FreshInv
<1> QED
  BY <1>3, <1>4, <1>5 DEF IInv

LEMMA RunLaunchInv == ASSUME IInv, RunLaunch PROVE IInv'
<1>1. UNCHANGED <<Launches, Entry, HeadStage>>
  BY SameLaunches DEF RunLaunch, HeadStage
<1>2. stage \in 0 .. HeadStage
  BY DEF IInv, TypeOK
<1>3. Flows(Launches, Entry, Exit)
  BY <1>2, StageFlows
<1>4. /\ Len(Launches) \in Nat /\ DOMAIN Launches = 1 .. Len(Launches)
      /\ \A i \in DOMAIN Launches : \A b \in DOMAIN Launches[i].from :
           b \in Buffers /\ Launches[i].from[b] \in Sources
  BY <1>3, LaunchFacts
<1>5. at \in 1 .. Len(Launches) /\ at' = at + 1
  BY <1>4 DEF IInv, TypeOK, RunLaunch
<1> DEFINE from == Launches[at].from
<1>6. /\ \A b \in Buffers : b \in DOMAIN from => content'[b] = UNION {content[r] : r \in from[b]}
      /\ \A b \in Buffers : b \notin DOMAIN from => content'[b] = content[b]
  BY DEF RunLaunch, Computed
<1>7. \A b \in DOMAIN from : b \in Buffers /\ from[b] \subseteq Buffers /\ from[b] # {}
  BY <1>4, <1>5 DEF Sources
<1>8. TypeOK'
  <2>1. content' \in [Buffers -> SUBSET (Positions \cup {Garbage})]
    <3>1. \A b \in Buffers : content[b] \subseteq Positions \cup {Garbage}
      BY DEF IInv, TypeOK
    <3>2. \A b \in Buffers : content'[b] \subseteq Positions \cup {Garbage}
      BY <1>6, <1>7, <3>1
    <3>3. content' = [b \in Buffers |-> content'[b]]
      BY DEF RunLaunch, Computed
    <3> QED
      BY <3>2, <3>3
  <2>2. at' \in 1 .. Len(Launches') + 1
    BY <1>1, <1>4, <1>5
  <2>3. \A i \in DOMAIN Launches' : \A b \in DOMAIN Launches'[i].from :
          b \in Buffers /\ Launches'[i].from[b] \subseteq Buffers
    BY <1>1, <1>4 DEF Sources
  <2> QED
    BY <2>1, <2>2, <2>3 DEF IInv, TypeOK, RunLaunch, history, HeadStage
<1>9. StepInv' /\ LossyInv' /\ LossesStayInTheirPass'
  BY DEF IInv, StepInv, LossyInv, Unfused, LossesStayInTheirPass, RunLaunch, history
<1>10. FreshInv'
  <2> SUFFICES ASSUME len \notin lossy, NEW b \in Entry \cup Written(Launches, at + 1)
               PROVE  content'[b] = {len}
    BY <1>1, <1>5 DEF FreshInv, RunLaunch, history
  <2>1. \A r \in Entry \cup Written(Launches, at) : content[r] = {len}
    BY DEF IInv, FreshInv, RunLaunch
  <2>2. Written(Launches, at + 1) = Written(Launches, at) \cup DOMAIN from
    BY <1>3, <1>5, WrittenBefore DEF Flows
  <2>3. CASE b \in DOMAIN from
    <3>1. from[b] \subseteq Entry \cup Written(Launches, at)
      BY <1>3, <1>4, <1>5, <2>3 DEF Flows
    <3>2. \A r \in from[b] : content[r] = {len}
      BY <2>1, <3>1
    <3> QED
      BY <1>6, <1>7, <2>3, <3>2
  <2>4. CASE b \notin DOMAIN from
    <3>1. b \in Buffers
      <4>1. Entry \subseteq Buffers
        BY DEF Entry, Buffers
      <4>2. Written(Launches, at) \subseteq Buffers
        <5>1. 1 .. at - 1 \subseteq DOMAIN Launches
          BY <1>4, <1>5
        <5> QED
          BY <1>4, <5>1 DEF Written
      <4> QED
        BY <2>2, <2>4, <4>1, <4>2
    <3> QED
      BY <1>6, <2>1, <2>2, <2>4, <3>1
  <2> QED
    BY <2>3, <2>4
<1> QED
  BY <1>8, <1>9, <1>10 DEF IInv

LEMMA LoseLaunchInv == ASSUME IInv, LoseLaunch PROVE IInv'
<1>1. UNCHANGED <<Launches, HeadStage>>
  BY SameLaunches DEF LoseLaunch, HeadStage
<1>2. Len(Launches) \in Nat /\ MaxRefused \in Nat
  BY StageFlows, LaunchFacts, ModelAssumption DEF IInv, TypeOK
<1>3. at' \in 1 .. Len(Launches) + 1 /\ refusals' \in 0 .. MaxRefused
  BY <1>2 DEF IInv, TypeOK, LoseLaunch
<1>4. \A i \in DOMAIN Launches : \A b \in DOMAIN Launches[i].from :
        b \in Buffers /\ Launches[i].from[b] \subseteq Buffers
  BY StageFlows, LaunchFacts DEF IInv, TypeOK, Sources
<1>5. TypeOK'
  BY <1>1, <1>3, <1>4 DEF IInv, TypeOK, LoseLaunch, memory
<1>6. LossyInv'
  <2>1. CASE Unfused
    <3>1. Accepted(Launches[at])
      <4>1. at \in DOMAIN Launches
        BY StageFlows, LaunchFacts DEF IInv, TypeOK, LoseLaunch
      <4> QED
        BY <2>1, <4>1, StageFlows DEF Flows, IInv, TypeOK
    <3>2. refusals' = refusals + 1 /\ refusals \in Nat
      BY <1>2, <3>1 DEF IInv, TypeOK, LoseLaunch
    <3> QED
      BY <3>2 DEF LossyInv
  <2>2. CASE ~Unfused
    BY <2>2 DEF LossyInv, Unfused, LoseLaunch
  <2> QED
    BY <2>1, <2>2
<1> QED
  BY <1>5, <1>6 DEF IInv, StepInv, FreshInv, LossesStayInTheirPass, LoseLaunch, memory

LEMMA NextStageInv == ASSUME IInv, NextStage PROVE IInv'
<1>1. stage \in 0 .. HeadStage /\ stage' \in 0 .. HeadStage /\ stage' # 0 /\ stage # HeadStage
      /\ Len(Launches) \in Nat
  BY Numbers0, StageFlows, LaunchFacts DEF IInv, TypeOK, NextStage, HeadStage
<1>2. /\ content' = content \/ content' = [content EXCEPT !["logits"] = {Garbage}]
      /\ allocated' \in BOOLEAN
      /\ UNCHANGED <<qtype, pc, step, len, logits, refusals, lossy>> /\ at' = 1
  BY DEF IInv, TypeOK, NextStage, memory, history
<1>3. TypeOK'
  <2>1. at' \in 1 .. Len(Launches') + 1
    BY <1>1, <1>2, LaunchesTyped DEF HeadStage
  <2>2. \A i \in DOMAIN Launches' : \A b \in DOMAIN Launches'[i].from :
          b \in Buffers /\ Launches'[i].from[b] \subseteq Buffers
    BY <1>1, LaunchesTyped DEF HeadStage
  <2> QED
    BY <1>1, <1>2, <2>1, <2>2 DEF IInv, TypeOK, HeadStage
<1>4. StepInv' /\ LossyInv' /\ LossesStayInTheirPass'
  BY <1>2 DEF IInv, StepInv, LossyInv, Unfused, LossesStayInTheirPass, NextStage
<1>5. FreshInv'
  <2>1. Entry' = {"a"} /\ Written(Launches', at') = {}
    BY <1>1, <1>2, WrittenFirst DEF Entry
  <2>2. at = Len(Launches) + 1
    BY <1>1 DEF IInv, TypeOK, NextStage
  <2>3. "a" \in Entry \cup Written(Launches, at)
    BY <1>1, <2>2, StageFlows DEF Flows, Exit
  <2>4. content'["a"] = content["a"]
    BY <1>2 DEF IInv, TypeOK, Buffers
  <2> QED
    BY <1>2, <2>1, <2>3, <2>4 DEF IInv, FreshInv, NextStage
<1> QED
  BY <1>3, <1>4, <1>5 DEF IInv

(* The end of a pass.                                                      *)
LEMMA EndInv ==
  ASSUME IInv, ReadLogits \/ LoseRead \/ NoLogitsBuffer \/ PickEnd \/ PickToken \/ Finish
  PROVE  IInv'
<1>1. UNCHANGED <<Launches, HeadStage>>
  BY SameLaunches
     DEF ReadLogits, LoseRead, NoLogitsBuffer, PickEnd, PickToken, Finish, HeadStage
<1>2. stage \in 0 .. HeadStage /\ Len(Launches) \in Nat /\ MaxRefused \in Nat
      /\ PromptLen \in Nat \ {0} /\ MaxNew \in Nat
  BY StageFlows, LaunchFacts, ModelAssumption DEF IInv, TypeOK
<1>3. ASSUME ReadLogits, len \notin lossy PROVE logits' = {len}
  <2>1. at = Len(Launches) + 1 /\ stage = HeadStage
    BY <1>2, <1>3 DEF IInv, TypeOK, ReadLogits
  <2>2. "logits" \in Entry \cup Written(Launches, at)
    BY <1>2, <2>1, StageFlows DEF Flows, Exit
  <2> QED
    BY <1>3, <2>2 DEF IInv, FreshInv, ReadLogits
<1>4. TypeOK'
  <2>1. logits' \subseteq Positions \cup {Garbage}
    BY DEF IInv, TypeOK, Buffers, ReadLogits, LoseRead, NoLogitsBuffer, PickEnd, PickToken, Finish
  <2>2. refusals' \in 0 .. MaxRefused /\ lossy' \subseteq Positions
    BY <1>2 DEF IInv, TypeOK, history, ReadLogits, LoseRead, NoLogitsBuffer, PickEnd, PickToken, Finish
  <2>3. step' \in 0 .. MaxNew /\ len' \in Positions
    BY <1>2 DEF IInv, TypeOK, StepInv, Positions,
                ReadLogits, LoseRead, NoLogitsBuffer, PickEnd, PickToken, Finish
  <2>4. pc' \in {"loop", "forward", "pick", "done", "raised"}
    BY DEF ReadLogits, LoseRead, NoLogitsBuffer, PickEnd, PickToken, Finish
  <2>5. UNCHANGED <<qtype, content, allocated, stage, at>>
    BY DEF ReadLogits, LoseRead, NoLogitsBuffer, PickEnd, PickToken, Finish, memory
  <2> QED
    BY <1>1, <2>1, <2>2, <2>3, <2>4, <2>5 DEF IInv, TypeOK
<1>5. StepInv'
  BY <1>2 DEF IInv, TypeOK, StepInv, ReadLogits, LoseRead, NoLogitsBuffer, PickEnd, PickToken, Finish
<1>6. FreshInv'
  BY DEF FreshInv, ReadLogits, LoseRead, NoLogitsBuffer, PickEnd, PickToken, Finish
<1>7. LossesStayInTheirPass'
  BY <1>3 DEF LossesStayInTheirPass, history,
              ReadLogits, LoseRead, NoLogitsBuffer, PickEnd, PickToken, Finish
<1>8. LossyInv'
  BY <1>2 DEF IInv, TypeOK, LossyInv, Unfused, history,
              ReadLogits, LoseRead, NoLogitsBuffer, PickEnd, PickToken, Finish
<1> QED
  BY <1>4, <1>5, <1>6, <1>7, <1>8 DEF IInv

LEMMA StepPreserves == IInv /\ [Next]_vars => IInv'
<1> SUFFICES ASSUME IInv, [Next]_vars PROVE IInv'
  OBVIOUS
<1>1. CASE StartPass
  BY <1>1, StartInv DEF StartPass, history
<1>2. CASE LoseWrite
  BY <1>2, StartInv DEF LoseWrite, memory
<1>3. CASE UNCHANGED vars
  <2>1. UNCHANGED <<Launches, Entry, HeadStage>>
    BY <1>3, SameLaunches DEF vars, place, HeadStage
  <2> QED
    BY <1>3, <2>1 DEF vars, memory, place, history,
                      IInv, TypeOK, StepInv, FreshInv, LossyInv, Unfused,
                      LossesStayInTheirPass
<1> QED
  BY <1>1, <1>2, <1>3, RunLaunchInv, LoseLaunchInv, NextStageInv, EndInv DEF Next

(* The inductive invariant.                                                *)
THEOREM Invariance == Spec => []IInv
BY InitInv, StepPreserves, PTL DEF Spec

(* Every variable keeps its type, and every launch names buffers that      *)
(* exist, for any sequence of layers and any types of weights.             *)
THEOREM TypeCorrect == Spec => []TypeOK
<1>1. IInv => TypeOK
  BY DEF IInv
<1> QED
  BY <1>1, Invariance, PTL

(* Whatever a refused call left in the buffers, the passes behind its own  *)
(* do not read it: in every layer each buffer is written before it is      *)
(* read (model.py:92-204).                                                 *)
THEOREM LossesStay == Spec => []LossesStayInTheirPass
<1>1. IInv => LossesStayInTheirPass
  BY DEF IInv
<1> QED
  BY <1>1, Invariance, PTL

(* The comment of NormMatvecQ4K names the only call that is wrong in       *)
(* itself: a file whose weights do not select the fused kernel has its     *)
(* logits computed from the pass's own token as long as the driver refuses *)
(* nothing, for any layers and any other types (model.py:92-204).          *)
THEOREM OnlyFusedAreLost == Spec => [](Unfused => LogitsAreComputed)
<1>1. IInv => (Unfused => LogitsAreComputed)
  BY DEF IInv, LossyInv, LossesStayInTheirPass, LogitsAreComputed
<1> QED
  BY <1>1, Invariance, PTL
=============================================================================

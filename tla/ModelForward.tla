---------------------------- MODULE ModelForward ----------------------------
(***************************************************************************)
(* Text generation: the loop of python/xecuda/generate.py, Model.forward   *)
(* of model.py and the kernels of kernels.py it launches.                  *)
(*                                                                         *)
(* A forward pass is a fixed program of launches over one set of buffers,  *)
(* used again for every token and never cleared.  Nothing looks at what a  *)
(* launch returns: one the driver refuses leaves its output buffer as it   *)
(* was.  A buffer's content is the set of tokens (named by their position) *)
(* it was computed from, with Garbage for memory never written.            *)
(*                                                                         *)
(* Definitions that no action uses (FeedForwardNoUp, ...) are faulty       *)
(* variants of the definition they precede: the README says which property *)
(* notices each of them.                                                   *)
(***************************************************************************)
EXTENDS Naturals, Sequences

CONSTANTS
  Layers,      \* BLOCK_IS_HYBRID: a sequence of BOOLEAN, shorter in an instance
  QTypes,      \* the assignments of a quantization to each weight tensor
  PromptLen,   \* tokens of the prompt
  MaxNew,      \* max_new_tokens
  MaxRefused,  \* bound on the calls the driver refuses
  Garbage

Tensors == {"ssm_out", "attn_qkv", "attn_gate", "ffn_gate", "ffn_up", "ffn_down",
            "attn_q", "attn_k", "attn_v", "attn_output", "output"}
Buffers == {"a", "b", "c", "qkv", "k", "v", "gate_out", "ffn_gate", "ffn_up",
            "ssm_out", "emb_row", "inv_rms", "logits"}
Positions == 1..(PromptLen + MaxNew)

ASSUME ModelAssumption ==
  /\ Layers \in Seq(BOOLEAN)
  /\ QTypes \subseteq [Tensors -> {"q4k", "q6k", "f32"}]
  /\ PromptLen \in Nat \ {0} /\ MaxNew \in Nat /\ MaxRefused \in Nat
  /\ Garbage \notin Positions

VARIABLES
  qtype,      \* the quantization of each weight tensor of the loaded file
  content,    \* the positions each buffer was computed from
  allocated,  \* buf_logits is not None
  pc,         \* "loop", "forward", "pick", "done", "raised"
  stage,      \* 0: the embedding; a layer; or the head, behind the last one
  at,         \* the next launch of the stage
  step,       \* the loop's counter
  len,        \* len(token_ids)
  logits,     \* what the logits read last were computed from
  refusals,   \* how many calls the driver refused (history, bounded)
  lossy       \* the passes in which some call was refused (history)

memory == <<content, allocated>>
place == <<pc, stage, at>>
history == <<refusals, lossy>>
vars == <<qtype, memory, place, step, len, logits, history>>

Init ==
  /\ qtype \in QTypes
  /\ content = [b \in Buffers |-> {Garbage}]
  /\ allocated = FALSE
  /\ pc = "loop" /\ stage = 0 /\ at = 1
  /\ step = 0 /\ len = PromptLen
  /\ logits = {} /\ refusals = 0 /\ lossy = {}

-----------------------------------------------------------------------------
(* A launch: the sizes in bytes of the kernel's parameters, those of the   *)
(* arguments _set_args passes, and which buffer is computed from which.    *)
(* clSetKernelArg rejects an argument of another size and leaves the       *)
(* parameter unset, and a kernel with an unset parameter does not run.     *)
Pointer == 8
Number == 4
Local == 0     \* __local memory, of any size

Pointers(n) == [i \in 1..n |-> Pointer]
Numbers(n) == [i \in 1..n |-> Number]

Launch(params, args, from) == [params |-> params, args |-> args, from |-> from]
Matching(sizes, from) == Launch(sizes, sizes, from)
Into(buffer, reads) == [b \in {buffer} |-> reads]
Accepted(launch) == launch.params = launch.args

CopyF32(src, dst) == Matching(Pointers(2) \o Numbers(1), Into(dst, {src}))
AddInplace(dst, src) == Matching(Pointers(2) \o Numbers(1), Into(dst, {dst, src}))
SwigluF4(gate, up) == Matching(Pointers(2) \o Numbers(1), Into(gate, {gate, up}))

RmsNorm(x, y) == Matching(Pointers(3) \o Numbers(2), Into(y, {x}))
RmsNormReduce(x) == Matching(<<Pointer, Number, Pointer, Number>>, Into("inv_rms", {x}))

MatvecQ4K(x, y) == Matching(Pointers(3) \o Numbers(2) \o <<Local>>, Into(y, {x}))
MatvecQ6K(x, y) == Matching(Pointers(3) \o Numbers(2) \o <<Local>>, Into(y, {x}))
MatvecF32(x, y) == Matching(Pointers(3) \o Numbers(2), Into(y, {x}))

(* The kernel declares inv_rms a float; the call passes the buffer.        *)
NormMatvecQ4K(x, y) ==
  Launch(Pointers(3) \o <<Number, Pointer>> \o Numbers(2) \o <<Local>>,
         Pointers(3) \o <<Pointer, Pointer>> \o Numbers(2) \o <<Local>>,
         Into(y, {x, "inv_rms"}))

RopeFusedQkv == Matching(Pointers(1) \o Numbers(8), Into("qkv", {"qkv"}))
RopeInplace(q, k) == Matching(Pointers(2) \o Numbers(6), [b \in {q, k} |-> {b}])
GqaAttention(q, k, v, out) == Matching(Pointers(4) \o Numbers(6), Into(out, {q, k, v}))

-----------------------------------------------------------------------------
(* The stages of a pass                                                    *)

Matvec(w, x, y) ==
  << CASE qtype[w] = "q6k" -> MatvecQ6K(x, y)
       [] qtype[w] = "q4k" -> MatvecQ4K(x, y)
       [] OTHER -> MatvecF32(x, y) >>

NormMatvec(w, x, y) ==
  << RmsNormReduce(x) >>
    \o IF qtype[w] = "q4k"
       THEN << NormMatvecQ4K(x, y) >>
       ELSE << RmsNorm(x, "b") >> \o Matvec(w, "b", y)

FeedForwardNoUp ==
  << RmsNorm("a", "b") >> \o Matvec("ffn_gate", "b", "ffn_gate")
    \o << SwigluF4("ffn_gate", "ffn_up") >> \o Matvec("ffn_down", "ffn_gate", "c")
    \o << AddInplace("a", "c") >>

FeedForward ==
  << RmsNorm("a", "b") >>
    \o Matvec("ffn_gate", "b", "ffn_gate") \o Matvec("ffn_up", "b", "ffn_up")
    \o << SwigluF4("ffn_gate", "ffn_up") >>
    \o Matvec("ffn_down", "ffn_gate", "c")
    \o << AddInplace("a", "c") >>

HybridLayer ==
  NormMatvec("ssm_out", "a", "ssm_out") \o << AddInplace("a", "ssm_out") >>
    \o NormMatvec("attn_qkv", "a", "qkv") \o << RopeFusedQkv >>
    \o Matvec("attn_gate", "qkv", "gate_out") \o << AddInplace("a", "gate_out") >>
    \o FeedForward

AttentionLayer ==
  << RmsNorm("a", "b") >>
    \o Matvec("attn_q", "b", "qkv") \o Matvec("attn_k", "b", "k") \o Matvec("attn_v", "b", "v")
    \o << RopeInplace("qkv", "k"), RmsNorm("qkv", "qkv"), RmsNorm("k", "k"),
          GqaAttention("qkv", "k", "v", "gate_out") >>
    \o Matvec("attn_output", "gate_out", "c") \o << AddInplace("a", "c") >>
    \o FeedForward

HeadLaunches == << RmsNorm("a", "b") >> \o Matvec("output", "b", "logits")

HeadStage == Len(Layers) + 1

Launches ==
  CASE stage = 0 -> << CopyF32("emb_row", "a") >>
    [] stage = HeadStage -> HeadLaunches
    [] OTHER -> IF Layers[stage] THEN HybridLayer ELSE AttentionLayer

-----------------------------------------------------------------------------
(* forward(token_ids[-1]): the embedding row of the last token is written. *)
StartPassOneMore ==
  /\ pc = "loop" /\ step <= MaxNew
  /\ content' = [content EXCEPT !["emb_row"] = {len}]
  /\ pc' = "forward" /\ stage' = 0 /\ at' = 1
  /\ UNCHANGED <<qtype, allocated, step, len, logits, history>>

StartPass ==
  /\ pc = "loop" /\ step < MaxNew
  /\ content' = [content EXCEPT !["emb_row"] = {len}]
  /\ pc' = "forward" /\ stage' = 0 /\ at' = 1
  /\ UNCHANGED <<qtype, allocated, step, len, logits, history>>

(* The write fails and nothing looks at its result.                        *)
LoseWrite ==
  /\ pc = "loop" /\ step < MaxNew /\ refusals < MaxRefused
  /\ refusals' = refusals + 1 /\ lossy' = lossy \cup {len}
  /\ pc' = "forward" /\ stage' = 0 /\ at' = 1
  /\ UNCHANGED <<qtype, memory, step, len, logits>>

(* What the kernel computes, from the contents before it runs.             *)
Computed(launch) ==
  [b \in Buffers |-> IF b \in DOMAIN launch.from
                     THEN UNION {content[r] : r \in launch.from[b]}
                     ELSE content[b]]

RunLaunch ==
  /\ pc = "forward" /\ at <= Len(Launches)
  /\ Accepted(Launches[at])
  /\ content' = Computed(Launches[at])
  /\ at' = at + 1
  /\ UNCHANGED <<qtype, allocated, pc, stage, step, len, logits, history>>

(* clEnqueueNDRangeKernel fails and its result is dropped.                 *)
LoseLaunch ==
  /\ pc = "forward" /\ at <= Len(Launches)
  /\ \/ ~Accepted(Launches[at]) /\ UNCHANGED refusals
     \/ /\ Accepted(Launches[at]) /\ refusals < MaxRefused
        /\ refusals' = refusals + 1
  /\ lossy' = lossy \cup {len}
  /\ at' = at + 1
  /\ UNCHANGED <<qtype, memory, pc, stage, step, len, logits>>

(* The logits buffer is allocated in front of the head, at the first pass. *)
NextStage ==
  /\ pc = "forward" /\ at > Len(Launches) /\ stage < HeadStage
  /\ stage' = stage + 1 /\ at' = 1
  /\ \/ /\ stage' = HeadStage /\ ~allocated
        /\ allocated' = TRUE
        /\ content' = [content EXCEPT !["logits"] = {Garbage}]
     \/ /\ stage' # HeadStage \/ allocated
        /\ UNCHANGED memory
  /\ UNCHANGED <<qtype, pc, step, len, logits, history>>

(* malloc raises MemoryError, which ends the generation.                   *)
NoLogitsBuffer ==
  /\ pc = "forward" /\ at > Len(Launches) /\ stage + 1 = HeadStage
  /\ ~allocated /\ refusals < MaxRefused
  /\ refusals' = refusals + 1
  /\ pc' = "raised"
  /\ UNCHANGED <<qtype, memory, stage, at, step, len, logits, lossy>>

(* A blocking read, behind every launch of the pass.                       *)
ReadLogits ==
  /\ pc = "forward" /\ at > Len(Launches) /\ stage = HeadStage
  /\ logits' = content["logits"]
  /\ pc' = "pick"
  /\ UNCHANGED <<qtype, memory, stage, at, step, len, history>>

(* The read fails: np.empty's memory stays as it was.                      *)
LoseRead ==
  /\ pc = "forward" /\ at > Len(Launches) /\ stage = HeadStage
  /\ refusals < MaxRefused
  /\ refusals' = refusals + 1 /\ lossy' = lossy \cup {len}
  /\ logits' = {Garbage}
  /\ pc' = "pick"
  /\ UNCHANGED <<qtype, memory, stage, at, step, len>>

(* np.argmax gives the end token, which is not appended, or another one.   *)
PickEnd ==
  /\ pc = "pick"
  /\ pc' = "done"
  /\ UNCHANGED <<qtype, memory, stage, at, step, len, logits, history>>

PickToken ==
  /\ pc = "pick"
  /\ len' = len + 1
  /\ step' = step + 1
  /\ pc' = "loop"
  /\ UNCHANGED <<qtype, memory, stage, at, logits, history>>

Finish ==
  /\ pc = "loop" /\ step = MaxNew
  /\ pc' = "done"
  /\ UNCHANGED <<qtype, memory, stage, at, step, len, logits, history>>

Next ==
  \/ StartPass \/ LoseWrite \/ RunLaunch \/ LoseLaunch
  \/ NextStage \/ NoLogitsBuffer \/ ReadLogits \/ LoseRead
  \/ PickEnd \/ PickToken \/ Finish

Spec == Init /\ [][Next]_vars
-----------------------------------------------------------------------------
(* Properties                                                              *)

(* The values every variable may take; in particular every launch names    *)
(* buffers that exist.                                                     *)
TypeOK ==
  /\ qtype \in QTypes
  /\ content \in [Buffers -> SUBSET (Positions \cup {Garbage})]
  /\ allocated \in BOOLEAN
  /\ pc \in {"loop", "forward", "pick", "done", "raised"}
  /\ stage \in 0..HeadStage
  /\ at \in 1..(Len(Launches) + 1)
  /\ at \in DOMAIN Launches =>
       \A b \in DOMAIN Launches[at].from :
         b \in Buffers /\ Launches[at].from[b] \subseteq Buffers
  /\ step \in 0..MaxNew /\ len \in Positions
  /\ logits \subseteq Positions \cup {Garbage}
  /\ refusals \in 0..MaxRefused /\ lossy \subseteq Positions

(* The buffers are shared by all passes and nobody clears them, yet the    *)
(* logits of a pass whose calls all succeed come from its own token alone:  *)
(* every buffer is written before it is read (model.py:92-204).  So a      *)
(* refused call spoils the pass it happens in and no later one.            *)
LossesStayInTheirPass == pc = "pick" /\ len \notin lossy => logits = {len}

(* "SSM: fused norm + ssm_out projection", "Attention: fused norm + QKV    *)
(* projection" (model.py:123, 130): as long as the driver refuses nothing, *)
(* the logits are computed from the token, whatever its weights' types.    *)
LogitsAreComputed == pc = "pick" /\ refusals = 0 => logits = {len}
=============================================================================

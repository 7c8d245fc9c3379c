--------------------------- MODULE MCModelForward ---------------------------
(* Instances of ModelForward for TLC: the layers and the weights' types.   *)
EXTENDS ModelForward

(* Both kinds of layer, each of them behind the other.                     *)
ThreeLayers == <<TRUE, FALSE, TRUE>>

AllOf(q) == [w \in Tensors |-> q]

(* Files in which the two tensors behind a fused norm are not Q4_K.        *)
UnfusedTypes ==
  {AllOf("f32"), AllOf("q6k"),
   [AllOf("q4k") EXCEPT !["ssm_out"] = "q6k", !["attn_qkv"] = "f32"]}

Q4KTypes == {AllOf("q4k")}

FileTypes == UnfusedTypes \cup Q4KTypes
=============================================================================

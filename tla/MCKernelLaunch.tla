--------------------------- MODULE MCKernelLaunch ---------------------------
(* Instances of KernelLaunch for TLC: the launches.                        *)
EXTENDS KernelLaunch

Dim(n) == (1..n) \X (1..n) \X (1..n)

(* Every launch of one to eight threads with dimensions of at most two,    *)
(* and two with a dimension of three.                                      *)
SmallLaunches ==
  {l \in Dim(2) \X Dim(2) : Volume(l[1]) * Volume(l[2]) <= 8}
    \cup {<< <<3, 1, 2>>, <<1, 1, 1>> >>, << <<2, 1, 1>>, <<1, 3, 1>> >>}
=============================================================================

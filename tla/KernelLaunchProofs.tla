------------------------- MODULE KernelLaunchProofs -------------------------
(***************************************************************************)
(* Theorems about KernelLaunch, for any launch, any number of workers and  *)
(* any width of an unsigned int.                                           *)
(***************************************************************************)
EXTENDS KernelLaunch, TLAPS

(* Arithmetic of quotients.                                                *)

LEMMA DivMod ==
  ASSUME NEW x \in Nat, NEW d \in Nat \ {0}
  PROVE  x \div d \in Nat /\ (x % d) \in 0..(d - 1) /\ x = d * (x \div d) + (x % d)
OBVIOUS

LEMMA ProductNat == ASSUME NEW a \in Nat, NEW b \in Nat PROVE a * b \in Nat
OBVIOUS

LEMMA Grows ==
  ASSUME NEW a \in Nat, NEW b \in Nat, NEW d \in Nat, a <= b
  PROVE  d * a <= d * b
OBVIOUS

LEMMA Quotient ==
  ASSUME NEW x \in Nat, NEW q \in Nat, NEW d \in Nat \ {0}, NEW r \in 0..(d - 1), x = d * q + r
  PROVE  x \div d = q /\ x % d = r
<1> DEFINE p == x \div d
           s == x % d
<1>1. p \in Nat /\ s \in 0..(d - 1) /\ x = d * p + s
  BY DivMod
<1>2. ASSUME p < q PROVE FALSE
  <2>1. d * (p + 1) <= d * q
    BY <1>1, <1>2, Grows
  <2> QED
    BY <1>1, <2>1
<1>3. ASSUME q < p PROVE FALSE
  <2>1. d * (q + 1) <= d * p
    BY <1>1, <1>3, Grows
  <2> QED
    BY <1>1, <2>1
<1> QED
  BY <1>1, <1>2, <1>3

LEMMA SmallRemainder ==
  ASSUME NEW d \in Nat \ {0}, NEW x \in 0..(d - 1)
  PROVE  x % d = x
OBVIOUS

LEMMA QuotientOfQuotient ==
  ASSUME NEW x \in Nat, NEW m \in Nat \ {0}, NEW n \in Nat \ {0}
  PROVE  x \div (m * n) = (x \div m) \div n
<1> DEFINE q == x \div m  r == x % m
           p == q \div n  s == q % n
<1>1. q \in Nat /\ r \in 0..(m - 1) /\ x = m * q + r
  BY DivMod
<1>2. p \in Nat /\ s \in 0..(n - 1) /\ q = n * p + s
  BY <1>1, DivMod
<1> HIDE DEF p, q, r, s
<1>3. m * n \in Nat \ {0}
  OBVIOUS
<1>4. m * s + r \in 0..(m * n - 1)
  <2>1. m * s <= m * (n - 1) /\ m * s \in Nat
    BY <1>2, Grows, ProductNat
  <2> QED
    BY <2>1, <1>1
<1>5. x = (m * n) * p + (m * s + r)
  <2>1. m * q = m * (n * p) + m * s
    BY <1>2
  <2>2. m * (n * p) = (m * n) * p
    BY <1>2
  <2> QED
    BY <2>1, <2>2, <1>1, <1>2
<1>6. x \div (m * n) = p
  BY <1>2, <1>3, <1>4, <1>5, Quotient
<1> QED
  BY <1>6 DEF p, q

LEMMA QuotientBound ==
  ASSUME NEW x \in Nat, NEW m \in Nat \ {0}, NEW n \in Nat, x < m * n
  PROVE  x \div m \in Nat /\ x \div m < n
<1>1. x \div m \in Nat /\ m * (x \div m) <= x
  BY DivMod
<1>2. ASSUME n <= x \div m PROVE FALSE
  <2>1. m * n <= m * (x \div m)
    BY <1>1, <1>2, Grows
  <2> QED
    BY <1>1, <2>1
<1> QED
  BY <1>1, <1>2

LEMMA SameQuotient ==
  ASSUME NEW x \in Nat, NEW y \in Nat, NEW d \in Nat \ {0}, x \div d = y \div d, x % d = y % d
  PROVE  x = y
BY DivMod

(* One digit of a mixed-radix number, the places before it worth P.        *)
LEMMA SameDigit ==
  ASSUME NEW x \in Nat, NEW y \in Nat, NEW P \in Nat \ {0}, NEW d \in Nat \ {0},
         x \div (P * d) = y \div (P * d), (x \div P) % d = (y \div P) % d
  PROVE  x \div P = y \div P
<1>1. x \div P \in Nat /\ y \div P \in Nat
  BY DivMod
<1>2. (x \div P) \div d = (y \div P) \div d
  BY QuotientOfQuotient
<1> QED
  BY <1>1, <1>2, SameQuotient

LEMMA LastDigit ==
  ASSUME NEW x \in Nat, NEW P \in Nat \ {0}, NEW d \in Nat \ {0}, x < P * d
  PROVE  (x \div P) % d = x \div P
<1>1. x \div P \in 0..(d - 1)
  BY QuotientBound
<1> QED
  BY <1>1, SmallRemainder

-----------------------------------------------------------------------------
(* The divisors of a fitting launch.  Products are folded into Product so  *)
(* that a fact about one of them is found by its name.                     *)

Product(a, b) == a * b
B2 == Product(block[1], block[2])
B3 == Product(B2, block[3])
G1 == Product(B3, grid[1])
G2 == Product(G1, grid[2])

LEMMA Parts ==
  ASSUME NEW a \in Nat, NEW b \in Nat, Product(a, b) \in 1..(UIntRange - 1)
  PROVE  a \in 1..(UIntRange - 1) /\ b \in Nat \ {0} /\ Times(a, b) = Product(a, b)
<1>1. UIntRange \in Nat \ {0} /\ a * b \in 1..(UIntRange - 1)
  BY LaunchAssumption DEF Product
<1>2. a # 0 /\ b # 0
  BY <1>1
<1>3. a * 1 <= a * b
  BY <1>2, Grows
<1>4. (a * b) % UIntRange = a * b
  BY <1>1, SmallRemainder
<1> QED
  BY <1>1, <1>2, <1>3, <1>4 DEF Times, Product

LEMMA LaunchDims ==
  ASSUME <<grid, block>> \in Launches
  PROVE  /\ grid[1] \in Nat /\ grid[2] \in Nat /\ grid[3] \in Nat
         /\ block[1] \in Nat /\ block[2] \in Nat /\ block[3] \in Nat
<1>1. grid \in Dim3 /\ block \in Dim3
  BY LaunchAssumption
<1>2. UInt \subseteq Nat
  BY LaunchAssumption DEF UInt
<1> QED
  BY <1>1, <1>2 DEF Dim3

LEMMA FittingDivisors ==
  ASSUME <<grid, block>> \in Launches, DivisorsFit
  PROVE  /\ ProductBefore = <<1, block[1], B2, B3, G1, G2>>
         /\ block[1] \in Nat \ {0} /\ block[2] \in Nat \ {0} /\ block[3] \in Nat \ {0}
         /\ grid[1] \in Nat \ {0} /\ grid[2] \in Nat \ {0} /\ grid[3] \in Nat \ {0}
         /\ B2 \in Nat \ {0} /\ B3 \in Nat \ {0} /\ G1 \in Nat \ {0} /\ G2 \in Nat \ {0}
<1>1. /\ grid[1] \in Nat /\ grid[2] \in Nat /\ grid[3] \in Nat
      /\ block[1] \in Nat /\ block[2] \in Nat /\ block[3] \in Nat
      /\ UIntRange \in Nat
  BY LaunchDims, LaunchAssumption
<1>2. B2 \in Nat /\ B3 \in Nat /\ G1 \in Nat
  BY <1>1, ProductNat DEF Product, B2, B3, G1
<1>0. G2 \in 1..(UIntRange - 1)
  BY DEF DivisorsFit, B2, B3, G1, G2, Product
<1>3. G1 \in 1..(UIntRange - 1) /\ grid[2] \in Nat \ {0} /\ Times(G1, grid[2]) = G2
  BY <1>0, <1>1, <1>2, Parts DEF G2
<1>4. B3 \in 1..(UIntRange - 1) /\ grid[1] \in Nat \ {0} /\ Times(B3, grid[1]) = G1
  BY <1>1, <1>2, <1>3, Parts DEF G1
<1>5. B2 \in 1..(UIntRange - 1) /\ block[3] \in Nat \ {0} /\ Times(B2, block[3]) = B3
  BY <1>1, <1>2, <1>4, Parts DEF B3
<1>6. block[1] \in 1..(UIntRange - 1) /\ block[2] \in Nat \ {0} /\ Times(block[1], block[2]) = B2
  BY <1>1, <1>5, Parts DEF B2
<1>7. ProductBefore = <<1, block[1], B2, B3, G1, G2>>
  BY <1>3, <1>4, <1>5, <1>6 DEF ProductBefore
<1>8. grid[3] \in Nat \ {0}
  BY <1>1 DEF DivisorsFit
<1>9. G2 \in Nat \ {0}
  BY <1>0
<1> QED
  BY <1>1, <1>3, <1>4, <1>5, <1>6, <1>7, <1>8, <1>9

LEMMA TotalProduct ==
  ASSUME <<grid, block>> \in Launches
  PROVE  Total \in Nat /\ Total = G2 * grid[3]
<1> USE LaunchDims
<1>1. Volume(grid) \in Nat /\ Volume(block) \in Nat
  BY ProductNat DEF Volume
<1>2. Total \in Nat
  BY <1>1, ProductNat DEF Total
<1>3. Total = G2 * grid[3]
  BY DEF Total, Volume, B2, B3, G1, G2, Product
<1> QED
  BY <1>2, <1>3

(* Two iterations of a fitting launch never decompose to the same thread.  *)
LEMMA DecomposeInjective ==
  ASSUME <<grid, block>> \in Launches, DivisorsFit,
         NEW x \in 0..(Total - 1), NEW y \in 0..(Total - 1), Decompose(x) = Decompose(y)
  PROVE  x = y
<1> USE FittingDivisors
<1>1. x \in Nat /\ y \in Nat /\ x < G2 * grid[3] /\ y < G2 * grid[3]
  BY TotalProduct
<1>2. /\ x % block[1] = y % block[1]
      /\ (x \div block[1]) % block[2] = (y \div block[1]) % block[2]
      /\ (x \div B2) % block[3] = (y \div B2) % block[3]
      /\ (x \div B3) % grid[1] = (y \div B3) % grid[1]
      /\ (x \div G1) % grid[2] = (y \div G1) % grid[2]
      /\ (x \div G2) % grid[3] = (y \div G2) % grid[3]
  <2>1. x \div 1 = x /\ y \div 1 = y
    BY <1>1
  <2> QED
    BY <2>1 DEF Decompose, Component, Dims
<1>3. x \div G2 = y \div G2
  <2>1. (x \div G2) % grid[3] = x \div G2
    BY <1>1, LastDigit
  <2>2. (y \div G2) % grid[3] = y \div G2
    BY <1>1, LastDigit
  <2> QED
    BY <1>2, <2>1, <2>2
<1>4. x \div G1 = y \div G1
  BY <1>1, <1>2, <1>3, SameDigit DEF Product, G2
<1>5. x \div B3 = y \div B3
  BY <1>1, <1>2, <1>4, SameDigit DEF Product, G1
<1>6. x \div B2 = y \div B2
  BY <1>1, <1>2, <1>5, SameDigit DEF Product, B3
<1>7. x \div block[1] = y \div block[1]
  BY <1>1, <1>2, <1>6, SameDigit DEF Product, B2
<1> QED
  BY <1>1, <1>2, <1>7, SameQuotient

\* The thread iteration k runs as.
Thread(k) == <<Decompose(k).bid, Decompose(k).tid>>

LEMMA ThreadsDiffer ==
  ASSUME <<grid, block>> \in Launches, DivisorsFit,
         NEW x \in 0..(Total - 1), NEW y \in 0..(Total - 1), Thread(x) = Thread(y)
  PROVE  x = y
<1>1. Decompose(x) = Decompose(y)
  BY DEF Thread, Decompose
<1> QED
  BY <1>1, DecomposeInjective

LEMMA DigitRange ==
  ASSUME NEW x \in Nat, NEW P \in Nat \ {0}, NEW d \in Nat \ {0}
  PROVE  (x \div P) % d \in 0..(d - 1)
<1>1. x \div P \in Nat
  BY DivMod
<1> QED
  BY <1>1, DivMod

LEMMA ThreadIsAPlace ==
  ASSUME <<grid, block>> \in Launches, DivisorsFit, NEW k \in Nat
  PROVE  Thread(k) \in Places
<1> USE FittingDivisors
<1>1. /\ (k \div 1) % block[1] \in 0..(block[1] - 1)
      /\ (k \div block[1]) % block[2] \in 0..(block[2] - 1)
      /\ (k \div B2) % block[3] \in 0..(block[3] - 1)
      /\ (k \div B3) % grid[1] \in 0..(grid[1] - 1)
      /\ (k \div G1) % grid[2] \in 0..(grid[2] - 1)
      /\ (k \div G2) % grid[3] \in 0..(grid[3] - 1)
  <2>1. 1 \in Nat \ {0}
    OBVIOUS
  <2> QED
    BY <2>1, DigitRange
<1> QED
  BY <1>1 DEF Thread, Decompose, Component, Dims, Places, Indices

(* A number put together from its lowest digit and the rest.               *)
Joined(c, d, e) == c + d * e
Below(c, d) == d \in Nat \ {0} /\ c \in 0..(d - 1)

LEMMA Written ==
  ASSUME NEW c, NEW d, NEW e, NEW n, Below(c, d), Below(e, n)
  PROVE  /\ Below(Joined(c, d, e), Product(d, n))
         /\ Joined(c, d, e) \div d = e /\ Joined(c, d, e) % d = c
<1>0. d \in Nat \ {0} /\ n \in Nat \ {0} /\ c \in 0..(d - 1) /\ e \in 0..(n - 1)
  BY DEF Below
<1> DEFINE x == c + d * e
<1>1. d * e \in Nat /\ d * (e + 1) <= d * n
  BY <1>0, Grows, ProductNat
<1>2. d * (e + 1) = d * e + d
  BY <1>0
<1>3. x \in Nat /\ x \in 0..(d * n - 1)
  BY <1>0, <1>1, <1>2
<1>4. x = d * e + c
  BY <1>0, <1>1
<1> HIDE DEF x
<1>5. x \div d = e /\ x % d = c
  BY <1>0, <1>3, <1>4, Quotient
<1>6. d * n \in Nat \ {0}
  BY <1>0, <1>3
<1> QED
  BY <1>3, <1>5, <1>6 DEF Product, Joined, Below, x

(* Every thread of a fitting launch has its iteration.                     *)
LEMMA EveryThread ==
  ASSUME <<grid, block>> \in Launches, DivisorsFit, NEW p \in Places
  PROVE  \E k \in 0..(Total - 1) : Thread(k) = p
<1>0. /\ block[1] \in Nat \ {0} /\ block[2] \in Nat \ {0} /\ block[3] \in Nat \ {0}
      /\ grid[1] \in Nat \ {0} /\ grid[2] \in Nat \ {0} /\ grid[3] \in Nat \ {0}
  BY FittingDivisors
<1> DEFINE b == p[1]  t == p[2]
           e6 == b[3]
           e5 == Joined(b[2], grid[2], e6)
           e4 == Joined(b[1], grid[1], e5)
           e3 == Joined(t[3], block[3], e4)
           e2 == Joined(t[2], block[2], e3)
           e1 == Joined(t[1], block[1], e2)
           n5 == Product(grid[2], grid[3])
           n4 == Product(grid[1], n5)
           n3 == Product(block[3], n4)
           n2 == Product(block[2], n3)
           n1 == Product(block[1], n2)
<1>1. /\ b[1] \in 0..(grid[1] - 1) /\ b[2] \in 0..(grid[2] - 1) /\ b[3] \in 0..(grid[3] - 1)
      /\ t[1] \in 0..(block[1] - 1) /\ t[2] \in 0..(block[2] - 1) /\ t[3] \in 0..(block[3] - 1)
      /\ p = <<<<b[1], b[2], b[3]>>, <<t[1], t[2], t[3]>>>>
  BY DEF Places, Indices
<1>2. /\ Below(b[1], grid[1]) /\ Below(b[2], grid[2]) /\ Below(b[3], grid[3])
       /\ Below(t[1], block[1]) /\ Below(t[2], block[2]) /\ Below(t[3], block[3])
  BY <1>0, <1>1 DEF Below
<1> HIDE DEF b, t
<1>3. Below(e5, n5) /\ e5 \div grid[2] = e6 /\ e5 % grid[2] = b[2]
  <2>1. Below(b[2], grid[2]) /\ Below(e6, grid[3])
    BY <1>2
  <2> QED
    BY <2>1, Written
<1> HIDE DEF e5, n5
<1>4. Below(e4, n4) /\ e4 \div grid[1] = e5 /\ e4 % grid[1] = b[1]
  <2>1. Below(b[1], grid[1])
    BY <1>2
  <2> QED
    BY <1>3, <2>1, Written
<1> HIDE DEF e4, n4
<1>5. Below(e3, n3) /\ e3 \div block[3] = e4 /\ e3 % block[3] = t[3]
  <2>1. Below(t[3], block[3])
    BY <1>2
  <2> QED
    BY <1>4, <2>1, Written
<1> HIDE DEF e3, n3
<1>6. Below(e2, n2) /\ e2 \div block[2] = e3 /\ e2 % block[2] = t[2]
  <2>1. Below(t[2], block[2])
    BY <1>2
  <2> QED
    BY <1>5, <2>1, Written
<1> HIDE DEF e2, n2
<1>7. Below(e1, n1) /\ e1 \div block[1] = e2 /\ e1 % block[1] = t[1]
  <2>1. Below(t[1], block[1])
    BY <1>2
  <2> QED
    BY <1>6, <2>1, Written
<1> HIDE DEF e1, n1
<1>8. e1 \in Nat
  BY <1>7 DEF Below
<1>9. e1 \div B2 = e3
  BY <1>0, <1>6, <1>7, <1>8, FittingDivisors, QuotientOfQuotient DEF Product, B2
<1>10. e1 \div B3 = e4
  BY <1>0, <1>5, <1>7, <1>9, <1>8, FittingDivisors, QuotientOfQuotient DEF Product, B3
<1>11. e1 \div G1 = e5
  BY <1>0, <1>4, <1>7, <1>10, <1>8, FittingDivisors, QuotientOfQuotient DEF Product, G1
<1>12. e1 \div G2 = e6
  BY <1>0, <1>3, <1>7, <1>11, <1>8, FittingDivisors, QuotientOfQuotient DEF Product, G2
<1>13. e1 \in 0..(Total - 1)
  <2>1. n1 = Total
    BY <1>0 DEF n1, n2, n3, n4, n5, Product, Total, Volume
  <2> QED
    BY <1>7, <2>1 DEF Below
<1>14. e1 \div 1 = e1 /\ e6 % grid[3] = b[3]
  BY <1>0, <1>1, <1>8, SmallRemainder
<1>15. Thread(e1) = p
  BY <1>1, <1>3, <1>4, <1>5, <1>6, <1>7, <1>9, <1>10, <1>11, <1>12, <1>14,
     FittingDivisors DEF Thread, Decompose, Component, Dims
<1> QED
  BY <1>13, <1>15

-----------------------------------------------------------------------------
(* The inductive invariant.                                                *)

Shapes ==
  /\ cur \in [Workers -> Nat] /\ DOMAIN context = Workers /\ DOMAIN seen = Workers
  /\ ran \in [Places \cup {<<Zero, Zero>>} -> Nat]

(* The loop runs nothing before it starts and after it ends.               *)
PhaseInv ==
  /\ phase \in {"enter", "returned"} => \A w \in Workers : pc[w] = "idle"
  /\ phase = "enter" => next = 0 /\ \A p \in DOMAIN ran : ran[p] = 0
  /\ phase \in {"loop", "crashed"} => Total > 1
  /\ phase = "returned" /\ Total > 1 => next = Total

(* A launch of at most one thread never enters the loop.                   *)
AloneInv ==
  Total <= 1 =>
    /\ \A w \in Workers : pc[w] = "idle"
    /\ phase = "returned" => ran = [p \in DOMAIN ran |-> IF p = <<Zero, Zero>> THEN 1 ELSE 0]

(* The workers' iterations differ, and each worker's context is its own.   *)
WorkersInv ==
  /\ \A w, v \in Workers : pc[w] # "idle" /\ pc[v] # "idle" /\ cur[w] = cur[v] => w = v
  /\ \A w \in Workers :
       /\ pc[w] \in {"kernel", "body"} => context[w] = Decompose(cur[w])
       /\ pc[w] = "body" => seen[w] = context[w].bid

\* Iteration k has been handed out and is over.
Over(k) == k < next /\ \A w \in Workers : pc[w] # "idle" => cur[w] # k

(* A thread has run exactly if its iteration is over.                      *)
RunsInv ==
  DivisorsFit /\ Total > 1 =>
    /\ \A p \in DOMAIN ran : ran[p] <= 1
    /\ \A p \in DOMAIN ran : ran[p] = 1 => \E k \in 0..(next - 1) : Over(k) /\ Thread(k) = p
    /\ \A k \in 0..(next - 1) : Over(k) => ran[Thread(k)] = 1

IInv == TypeOK /\ Shapes /\ PhaseInv /\ AloneInv /\ WorkersInv /\ RunsInv

(* A step changes nothing the launch determines.                           *)
LEMMA LaunchIsRigid ==
  ASSUME UNCHANGED launch
  PROVE  /\ Total' = Total /\ Places' = Places /\ DivisorsFit' = DivisorsFit
         /\ grid' = grid /\ block' = block
         /\ \A k : Thread(k)' = Thread(k) /\ Decompose(k)' = Decompose(k)
BY DEF launch, Total, Volume, Places, Indices, DivisorsFit, Thread, Decompose, Component,
       ProductBefore, Dims, Times

LEMMA InvInit == Init => IInv
<1> SUFFICES ASSUME Init PROVE IInv
  OBVIOUS
<1>1. <<grid, block>> \in Launches
  <2>1. PICK l \in Launches : grid = l[1] /\ block = l[2]
    BY DEF Init
  <2>2. l \in Dim3 \X Dim3
    BY LaunchAssumption
  <2> QED
    BY <2>1, <2>2
<1>2. Total \in Nat
  BY <1>1, TotalProduct
<1>3. TypeOK /\ Shapes /\ PhaseInv /\ AloneInv /\ WorkersInv
  BY <1>1, <1>2 DEF Init, TypeOK, Shapes, PhaseInv, AloneInv, WorkersInv
<1>4. RunsInv
  BY <1>3 DEF Init, RunsInv, Over
<1> QED
  BY <1>3, <1>4 DEF IInv

(* The two ways into a launch.                                             *)
LEMMA EnterStep == IInv /\ (RunAlone \/ EnterLoop) => IInv'
<1> SUFFICES ASSUME IInv, RunAlone \/ EnterLoop PROVE IInv'
  OBVIOUS
<1>1. UNCHANGED launch
  BY DEF RunAlone, EnterLoop
<1> USE LaunchIsRigid
<1>2. Total \in Nat
  BY TotalProduct DEF IInv, TypeOK
<1>3. CASE RunAlone
  <2>1. TypeOK'
    BY <1>1, <1>2, <1>3 DEF IInv, TypeOK, RunAlone, launch
  <2>2. ran' = [p \in DOMAIN ran |-> IF p = <<Zero, Zero>> THEN 1 ELSE 0]
    <3>1. <<Zero, Zero>> \in DOMAIN ran /\ \A p \in DOMAIN ran : ran[p] = 0
      BY <1>3 DEF IInv, Shapes, PhaseInv, RunAlone
    <3>2. ran' = [p \in DOMAIN ran |-> IF p = <<Zero, Zero>> THEN ran[<<Zero, Zero>>] + 1 ELSE ran[p]]
      BY <1>3 DEF RunAlone
    <3> QED
      BY <3>1, <3>2
  <2>3. Shapes'
    BY <1>1, <1>3, <2>2 DEF IInv, Shapes, RunAlone
  <2>4. PhaseInv' /\ AloneInv'
    <3>1. /\ phase = "enter" /\ phase' = "returned" /\ pc' = pc /\ Total' = Total /\ Total <= 1
          /\ \A w \in Workers : pc[w] = "idle"
      BY <1>1, <1>3 DEF IInv, PhaseInv, RunAlone
    <3>2. DOMAIN ran' = DOMAIN ran
      BY <2>2
    <3>3. ran' = [p \in DOMAIN ran' |-> IF p = <<Zero, Zero>> THEN 1 ELSE 0]
      BY <2>2, <3>2
    <3>4. AloneInv'
      BY <3>1, <3>3 DEF AloneInv
    <3>5. PhaseInv'
      BY <1>2, <3>1 DEF PhaseInv
    <3> QED
      BY <3>4, <3>5
  <2>5. WorkersInv'
    BY <1>1, <1>3 DEF IInv, PhaseInv, WorkersInv, RunAlone
  <2>6. RunsInv'
    BY <1>1, <1>2, <1>3 DEF RunsInv, RunAlone
  <2> QED
    BY <2>1, <2>3, <2>4, <2>5, <2>6 DEF IInv
<1>4. CASE EnterLoop
  <2>1. TypeOK'
    BY <1>1, <1>2, <1>4 DEF IInv, TypeOK, EnterLoop, launch
  <2>2. Shapes' /\ PhaseInv' /\ AloneInv'
    BY <1>1, <1>2, <1>4 DEF IInv, Shapes, PhaseInv, AloneInv, EnterLoop
  <2>3. WorkersInv' /\ RunsInv'
    BY <1>1, <1>4 DEF IInv, WorkersInv, RunsInv, Over, EnterLoop
  <2> QED
    BY <2>1, <2>2, <2>3 DEF IInv
<1> QED
  BY <1>3, <1>4

(* A worker takes an index: nobody has had it.                             *)
LEMMA TakeStep ==
  ASSUME IInv, NEW w \in Workers, Take(w)
  PROVE  IInv'
<1> USE LaunchIsRigid
<1>1. UNCHANGED launch
  BY DEF Take
<1>2. Total \in Nat /\ Total > 1 /\ next \in 0..(Total - 1)
  BY TotalProduct DEF IInv, TypeOK, PhaseInv, Take
<1>3. TypeOK'
  BY <1>1, <1>2 DEF IInv, TypeOK, Shapes, Take, launch
<1>4. Shapes' /\ PhaseInv' /\ AloneInv'
  BY <1>1, <1>2 DEF IInv, Shapes, PhaseInv, AloneInv, Take
<1>5. WorkersInv'
  BY <1>1, <1>2 DEF IInv, TypeOK, Shapes, WorkersInv, Take
<1>6. RunsInv'
  <2>1. \A k \in 0..(next - 1) : Over(k) => Over(k)'
    BY <1>2 DEF IInv, TypeOK, Shapes, Over, Take
  <2>2. \A k \in 0..(next' - 1) : Over(k)' => k \in 0..(next - 1) /\ Over(k)
    BY <1>2 DEF IInv, TypeOK, Shapes, Over, Take
  <2>3. ran' = ran /\ 0..(next - 1) \subseteq 0..(next' - 1)
    BY <1>2 DEF Take
  <2> QED
    BY <1>1, <2>1, <2>2, <2>3 DEF IInv, RunsInv
<1> QED
  BY <1>3, <1>4, <1>5, <1>6 DEF IInv

(* A worker stores its context, reads the block, or divides by zero: what  *)
(* is over stays over.                                                     *)
LEMMA ContextStep ==
  ASSUME IInv, NEW w \in Workers, StoreContext(w) \/ KernelReadsBlock(w) \/ Crash(w)
  PROVE  IInv'
<1> USE LaunchIsRigid
<1>1. UNCHANGED launch /\ ran' = ran /\ next' = next /\ cur' = cur
  BY DEF StoreContext, KernelReadsBlock, Crash
<1>2. Total \in Nat /\ Total > 1
  BY TotalProduct DEF IInv, TypeOK, PhaseInv, StoreContext, KernelReadsBlock, Crash
<1>3. TypeOK'
  BY <1>1, <1>2 DEF IInv, TypeOK, StoreContext, KernelReadsBlock, Crash, launch
<1>4. Shapes' /\ PhaseInv' /\ AloneInv'
  BY <1>1, <1>2 DEF IInv, Shapes, PhaseInv, AloneInv, StoreContext, KernelReadsBlock, Crash
<1>5. WorkersInv'
  BY <1>1 DEF IInv, TypeOK, Shapes, WorkersInv, StoreContext, KernelReadsBlock, Crash
<1>6. \A k : Over(k)' <=> Over(k)
  BY <1>1 DEF IInv, TypeOK, Over, StoreContext, KernelReadsBlock, Crash
<1>7. RunsInv'
  BY <1>1, <1>6 DEF IInv, RunsInv
<1> QED
  BY <1>3, <1>4, <1>5, <1>7 DEF IInv

(* The kernel's body runs as the thread of its iteration: for the first    *)
(* time, as two iterations never are the same thread.                      *)
LEMMA RunStep ==
  ASSUME IInv, NEW w \in Workers, KernelReadsThread(w)
  PROVE  IInv'
<1> USE LaunchIsRigid
<1>1. UNCHANGED launch /\ next' = next /\ cur' = cur
  BY DEF KernelReadsThread
<1>2. Total \in Nat /\ Total > 1
  BY TotalProduct DEF IInv, TypeOK, PhaseInv, KernelReadsThread
<1>3. TypeOK'
  BY <1>1, <1>2 DEF IInv, TypeOK, KernelReadsThread, launch
<1>4. ran' = [ran EXCEPT ![Thread(cur[w])] = @ + 1]
  BY DEF IInv, WorkersInv, Thread, KernelReadsThread
<1>5. Shapes'
  <2> DEFINE q == Thread(cur[w])
             D == Places \cup {<<Zero, Zero>>}
  <2>1. ran' = [p \in D |-> IF p = q THEN ran[q] + 1 ELSE ran[p]]
    BY <1>4 DEF IInv, Shapes
  <2> HIDE DEF q, D
  <2>2. \A p \in D : ran[p] \in Nat
    BY DEF IInv, Shapes, D
  <2>3. ran' \in [D -> Nat]
    BY <2>1, <2>2
  <2> QED
    BY <1>1, <2>3 DEF IInv, Shapes, KernelReadsThread, D
<1>6. PhaseInv' /\ AloneInv'
  BY <1>1, <1>2 DEF IInv, TypeOK, PhaseInv, AloneInv, KernelReadsThread
<1>7. WorkersInv'
  BY <1>1 DEF IInv, TypeOK, WorkersInv, KernelReadsThread
<1>8. RunsInv'
  <2> SUFFICES ASSUME DivisorsFit PROVE RunsInv'
    BY <1>1 DEF RunsInv
  <2> DEFINE c == cur[w]
             q == Thread(c)
  <2>1. c \in 0..(next - 1) /\ next \in 0..Total /\ ~Over(c)
    BY DEF IInv, TypeOK, Over, KernelReadsThread
  <2>2. q \in Places
    BY <2>1, ThreadIsAPlace DEF IInv, TypeOK
  <2>3. \A k \in 0..(next - 1) : Over(k)' <=> Over(k) \/ k = c
    BY <1>1, <2>1 DEF IInv, TypeOK, WorkersInv, Over, KernelReadsThread
  <2>4. \A k \in 0..(next - 1) : Thread(k) = q => k = c
    BY <1>2, <2>1, ThreadsDiffer DEF IInv, TypeOK
  <2>5. ran[q] = 0
    <3>1. ran[q] \in Nat /\ ran[q] <= 1 /\ ran[q] # 1
      BY <1>2, <2>1, <2>2, <2>4 DEF IInv, Shapes, RunsInv
    <3> QED
      BY <3>1
  <2>6. \A p \in DOMAIN ran : ran'[p] = IF p = q THEN 1 ELSE ran[p]
    BY <1>4, <2>5 DEF IInv, Shapes
  <2>7. q \in DOMAIN ran /\ DOMAIN ran' = DOMAIN ran
    BY <1>4, <2>2 DEF IInv, Shapes
  <2> HIDE DEF q
  <2>8. \A p \in DOMAIN ran' : ran'[p] <= 1
    BY <1>2, <2>6, <2>7 DEF IInv, RunsInv
  <2>9. \A p \in DOMAIN ran' : ran'[p] = 1 => \E k \in 0..(next - 1) : Over(k)' /\ Thread(k) = p
    <3> SUFFICES ASSUME NEW p \in DOMAIN ran, ran'[p] = 1
                 PROVE  \E k \in 0..(next - 1) : Over(k)' /\ Thread(k) = p
      BY <2>7
    <3>1. CASE p = q
      BY <2>1, <2>3, <3>1 DEF q
    <3>2. CASE p # q
      BY <1>2, <2>3, <2>6, <3>2 DEF IInv, RunsInv
    <3> QED
      BY <3>1, <3>2
  <2>10. \A k \in 0..(next - 1) : Over(k)' => ran'[Thread(k)] = 1
    <3> SUFFICES ASSUME NEW k \in 0..(next - 1), Over(k)' PROVE ran'[Thread(k)] = 1
      OBVIOUS
    <3>1. CASE k = c
      BY <2>6, <2>7, <3>1 DEF q
    <3>2. CASE k # c
      <4>1. Thread(k) \in DOMAIN ran
        BY <2>1, ThreadIsAPlace DEF IInv, TypeOK, Shapes
      <4>2. Over(k) /\ Thread(k) # q
        BY <2>3, <2>4, <3>2
      <4> QED
        BY <1>2, <2>6, <4>1, <4>2 DEF IInv, RunsInv
    <3> QED
      BY <3>1, <3>2
  <2> QED
    BY <1>1, <2>8, <2>9, <2>10 DEF RunsInv
<1> QED
  BY <1>3, <1>5, <1>6, <1>7, <1>8 DEF IInv

LEMMA ReturnStep == IInv /\ Return => IInv'
<1> SUFFICES ASSUME IInv, Return PROVE IInv'
  OBVIOUS
<1> USE LaunchIsRigid
<1>1. UNCHANGED <<launch, pc, next, cur, context, seen, ran>>
  BY DEF Return
<1>2. Total \in Nat /\ Total > 1
  BY TotalProduct DEF IInv, TypeOK, PhaseInv, Return
<1>3. TypeOK'
  BY <1>1, <1>2 DEF IInv, TypeOK, Return, launch
<1>4. Shapes' /\ PhaseInv' /\ AloneInv' /\ WorkersInv'
  BY <1>1, <1>2 DEF IInv, Shapes, PhaseInv, AloneInv, WorkersInv, Return
<1>5. RunsInv'
  BY <1>1 DEF IInv, RunsInv, Over
<1> QED
  BY <1>3, <1>4, <1>5 DEF IInv

LEMMA InvStep == IInv /\ [Next]_vars => IInv'
<1>1. ASSUME IInv, UNCHANGED vars PROVE IInv'
  <2>1. UNCHANGED launch
    BY <1>1 DEF vars, launch
  <2>2. TypeOK' /\ Shapes' /\ PhaseInv' /\ AloneInv' /\ WorkersInv'
    BY <1>1, <2>1, LaunchIsRigid DEF vars, IInv, TypeOK, Shapes, PhaseInv, AloneInv, WorkersInv, launch
  <2>3. RunsInv'
    BY <1>1, <2>1, LaunchIsRigid DEF vars, IInv, RunsInv, Over
  <2> QED
    BY <2>2, <2>3 DEF IInv
<1>2. ASSUME IInv, NEW w \in Workers, Iteration(w) PROVE IInv'
  BY <1>2, TakeStep, ContextStep, RunStep DEF Iteration
<1> QED
  BY <1>1, <1>2, EnterStep, ReturnStep DEF Next

-----------------------------------------------------------------------------
(* The theorems.                                                           *)

(* The inductive invariant holds throughout every launch.                  *)
THEOREM Invariance == Spec => []IInv
BY InvInit, InvStep, PTL DEF Spec

(* Every variable keeps its type, and no worker's index leaves the loop's  *)
(* range.                                                                  *)
THEOREM TypeCorrect == Spec => []TypeOK
<1>1. IInv => TypeOK
  BY DEF IInv
<1> QED
  BY <1>1, Invariance, PTL

LEMMA AtMostOnce == IInv => NoThreadTwice
<1> SUFFICES ASSUME IInv, DivisorsFit, NEW p \in DOMAIN ran PROVE ran[p] <= 1
  BY DEF NoThreadTwice
<1>1. Total \in Nat
  BY TotalProduct DEF IInv, TypeOK
<1>2. CASE Total > 1
  BY <1>2 DEF IInv, RunsInv
<1>3. CASE Total <= 1
  BY <1>1, <1>3 DEF IInv, TypeOK, PhaseInv, AloneInv, Shapes
<1> QED
  BY <1>1, <1>2, <1>3

(* No thread of a fitting launch runs twice, whatever the launch, the      *)
(* number of workers and the width of an unsigned int.                     *)
THEOREM NoThreadRunsTwice == Spec => []NoThreadTwice
BY Invariance, AtMostOnce, PTL

LEMMA CompleteAtReturn == IInv => FittingLaunchesAreComplete
<1> SUFFICES ASSUME IInv, DivisorsFit, phase = "returned", NEW p \in Places PROVE ran[p] = 1
  BY DEF FittingLaunchesAreComplete, RunsOnceEach
<1>1. <<grid, block>> \in Launches /\ Total \in Nat
  BY TotalProduct DEF IInv, TypeOK
<1>2. PICK k \in 0..(Total - 1) : Thread(k) = p
  BY <1>1, EveryThread
<1>3. CASE Total > 1
  <2>1. next = Total /\ Over(k)
    BY <1>1, <1>3 DEF IInv, PhaseInv, Over
  <2> QED
    BY <1>2, <1>3, <2>1 DEF IInv, RunsInv
<1>4. CASE Total <= 1
  <2>1. <<Zero, Zero>> \in Places
    BY <1>1, FittingDivisors DEF Places, Indices, Zero
  <2>2. PICK z \in 0..(Total - 1) : Thread(z) = <<Zero, Zero>>
    BY <1>1, <2>1, EveryThread
  <2>3. p = <<Zero, Zero>>
    BY <1>1, <1>2, <1>4, <2>2
  <2> QED
    BY <1>4, <2>1, <2>3 DEF IInv, AloneInv, Shapes
<1> QED
  BY <1>1, <1>3, <1>4

(* When a fitting launch returns, its kernel has run exactly once as each  *)
(* thread of each block (xecuda_kernel.h:60-100).                          *)
THEOREM LaunchesAreComplete == Spec => []FittingLaunchesAreComplete
BY Invariance, CompleteAtReturn, PTL
=============================================================================

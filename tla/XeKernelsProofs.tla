-------------------------- MODULE XeKernelsProofs ---------------------------
(***************************************************************************)
(* Theorems about XeKernels, for any number of threads, any assignment of  *)
(* entry points to them, any calls that fail and any number of epochs.     *)
(***************************************************************************)
EXTENDS XeKernels, TLAPS

Order(k) == ArgOrder[k]

Jobs == [by : Threads, kernel : Kernels,
         args : UNION {[ArgsOf(k) -> Threads] : k \in Kernels}]

Shapes ==
  /\ args = [k \in Kernels |-> args[k]]
  /\ nextArg \in [Threads -> Nat]
  /\ jobs \in Seq(Jobs)
  /\ ~up => epoch < MaxEpoch

(* A job belongs to a thread that waits for it, and all its arguments were *)
(* set by calls of its entry point.                                        *)
JobOK(job) ==
  /\ pc[job.by] = "sync" /\ job.kernel = K(job.by)
  /\ job.args \in [ArgsOf(job.kernel) -> Threads]
  /\ \A a \in ArgsOf(job.kernel) : K(job.args[a]) = job.kernel
QueueInv == \A i \in DOMAIN jobs : JobOK(jobs[i])

(* Arguments are set in order, by callers of the kernel.                   *)
Begun(t) ==
  /\ pc[t] \in {"ensure", "compile", "alloc", "write"} => nextArg[t] = 1
  /\ pc[t] = "arg" =>
       /\ nextArg[t] \in 1 .. Len(Order(K(t)))
       /\ \A i \in 1 .. nextArg[t] - 1 : args[K(t)][Order(K(t))[i]] # NoCall
  /\ pc[t] = "launch" => \A a \in ArgsOf(K(t)) : args[K(t)][a] # NoCall
ArgsInv ==
  /\ \A k \in Kernels : \A a \in ArgsOf(k) : args[k][a] # NoCall => K(args[k][a]) = k
  /\ \A t \in Threads : Begun(t)

TempsInv ==
  \A t \in Threads :
    /\ pc[t] \in {"alloc", "write", "read", "free"} => K(t) = "matvec"
    /\ pc[t] \in {"idle", "ensure", "compile", "alloc"} \/ K(t) # "matvec" => temps[t] = {}
    /\ pc[t] \in {"write", "arg", "launch", "sync", "read"} /\ K(t) = "matvec" =>
         temps[t] = Temporaries

(* The output of a thread that has its entry point to itself is empty      *)
(* until its job has run.                                                  *)
Good(t) == out[t] = {t} \/ (K(t) # "sgemm" /\ refused[t] /\ out[t] = {})
Produced(t) ==
  /\ pc[t] \in {"ensure", "compile", "alloc", "write", "arg", "launch"} => out[t] = {}
  /\ pc[t] = "sync" /\ Finished(t) => Good(t)
  /\ pc[t] = "read" => Good(t)
  /\ pc[t] \in {"idle", "free"} /\ ret[t] = "success" => Good(t)
OutInv == \A t \in Threads : Alone(t) => Produced(t)

IInv == TypeOK /\ Shapes /\ QueueInv /\ ArgsInv /\ TempsInv /\ OutInv

-----------------------------------------------------------------------------
(* The in-order command queue: which elements it has after Append and Tail. *)

(* An element put at the end is the only new one.                          *)
LEMMA Appending ==
  ASSUME NEW S, NEW s \in Seq(S), NEW e \in S
  PROVE  /\ Append(s, e) \in Seq(S)
         /\ \A i \in DOMAIN Append(s, e) :
              Append(s, e)[i] = e \/ \E j \in DOMAIN s : Append(s, e)[i] = s[j]
         /\ \E i \in DOMAIN Append(s, e) : Append(s, e)[i] = e
OBVIOUS

(* Taking the first element takes nothing else.                            *)
LEMMA Running ==
  ASSUME NEW S, NEW s \in Seq(S), s # << >>
  PROVE  /\ Head(s) \in S /\ Tail(s) \in Seq(S)
         /\ \E i \in DOMAIN s : s[i] = Head(s)
         /\ \A i \in DOMAIN Tail(s) : \E j \in DOMAIN s : Tail(s)[i] = s[j]
         /\ \A j \in DOMAIN s : s[j] = Head(s) \/ \E i \in DOMAIN Tail(s) : Tail(s)[i] = s[j]
<1>1. /\ Len(s) \in Nat \ {0} /\ DOMAIN s = 1 .. Len(s) /\ Head(s) = s[1] /\ s[1] \in S
      /\ Tail(s) \in Seq(S) /\ DOMAIN Tail(s) = 1 .. Len(s) - 1
      /\ \A i \in 1 .. Len(s) - 1 : Tail(s)[i] = s[i + 1]
  OBVIOUS
<1>2. \E i \in DOMAIN s : s[i] = Head(s)
  BY <1>1
<1>3. \A i \in DOMAIN Tail(s) : i + 1 \in DOMAIN s /\ Tail(s)[i] = s[i + 1]
  BY <1>1
<1>4. \A j \in DOMAIN s : s[j] = Head(s) \/ (j - 1 \in DOMAIN Tail(s) /\ Tail(s)[j - 1] = s[j])
  BY <1>1
<1> QED
  BY <1>1, <1>2, <1>3, <1>4

-----------------------------------------------------------------------------
(* What the proofs need to know of the order of the arguments.             *)
LEMMA Orders ==
  \A k \in Kernels :
    /\ Len(Order(k)) \in Nat \ {0}
    /\ \A i \in 1 .. Len(Order(k)) : Order(k)[i] \in ArgsOf(k)
    /\ \A a \in ArgsOf(k) : \E i \in 1 .. Len(Order(k)) : a = Order(k)[i]
    /\ {"in", "out"} \subseteq ArgsOf(k)
<1>1. Order("sgemm") = <<"dims", "in", "out", "scale">>
  BY DEF Order, ArgOrder
<1>2. Order("matvec") = <<"in", "out", "dims">>
  BY DEF Order, ArgOrder
<1>3. Order("memset") = <<"out", "in", "dims">>
  BY DEF Order, ArgOrder
<1>4. \A k \in Kernels : ArgsOf(k) = {Order(k)[i] : i \in DOMAIN Order(k)}
  BY DEF ArgsOf, Order
<1> QED
  BY <1>1, <1>2, <1>3, <1>4 DEF Kernels

LEMMA Entries ==
  ASSUME IInv
  PROVE  \A t \in Threads : K(t) \in Kernels
BY KernelsAssumption DEF IInv, TypeOK, K

LEMMA AtRest ==
  ASSUME IInv, NEW t \in Threads, pc[t] # "sync"
  PROVE  Finished(t)
BY DEF IInv, QueueInv, JobOK, Finished

(* A thread goes on without touching the queue.                            *)
LEMMA QueueKept ==
  ASSUME IInv, NEW t \in Threads, NEW to, pc' = [pc EXCEPT ![t] = to], Finished(t),
         jobs' = jobs, entryOf' = entryOf
  PROVE  /\ QueueInv' /\ jobs' \in Seq(Jobs)
         /\ \A i \in DOMAIN jobs' : jobs'[i].by \in Threads /\ jobs'[i].kernel \in Kernels
         /\ \A u \in Threads : Finished(u)' <=> Finished(u)
<1>1. \A i \in DOMAIN jobs : jobs[i].by \in Threads /\ jobs[i].by # t
  BY DEF IInv, TypeOK, Finished
<1>2. QueueInv'
  BY <1>1 DEF IInv, TypeOK, QueueInv, JobOK, K
<1> QED
  BY <1>1, <1>2 DEF IInv, TypeOK, Shapes, Finished

(* Nor the arguments, nor the other threads' results.                      *)
LEMMA ArgsKept ==
  ASSUME IInv, NEW t \in Threads, NEW to, pc' = [pc EXCEPT ![t] = to],
         UNCHANGED <<entryOf, args>>, \A u \in Threads : u # t => nextArg'[u] = nextArg[u],
         Begun(t)'
  PROVE  ArgsInv'
<1>1. \A k \in Kernels : \A a \in ArgsOf(k) : args'[k][a] # NoCall => entryOf'[args'[k][a]] = k
  BY DEF IInv, ArgsInv, K
<1>2. ASSUME NEW u \in Threads, u # t PROVE Begun(u)'
  <2>1. pc'[u] = pc[u] /\ nextArg'[u] = nextArg[u]
    BY <1>2 DEF IInv, TypeOK
  <2>2. Begun(u)
    BY DEF IInv, ArgsInv
  <2> QED
    BY <2>1, <2>2 DEF Begun, K
<1> QED
  BY <1>1, <1>2 DEF ArgsInv, K

LEMMA OutKept ==
  ASSUME IInv, NEW t \in Threads, NEW to, pc' = [pc EXCEPT ![t] = to], entryOf' = entryOf,
         \A u \in Threads : u # t =>
           /\ out'[u] = out[u] /\ refused'[u] = refused[u] /\ ret'[u] = ret[u]
           /\ Finished(u)' => Finished(u),
         Alone(t) => Produced(t)'
  PROVE  OutInv'
<1>1. \A u \in Threads : Alone(u)' <=> Alone(u)
  BY DEF Alone, K
<1>2. ASSUME NEW u \in Threads, u # t, Alone(u) PROVE Produced(u)'
  <2>1. pc'[u] = pc[u]
    BY <1>2 DEF IInv, TypeOK
  <2>2. Produced(u)
    BY <1>2 DEF IInv, OutInv
  <2>3. Good(u) <=> Good(u)'
    BY <1>2 DEF Good, K
  <2> QED
    BY <1>2, <2>1, <2>2, <2>3 DEF Produced
<1> QED
  BY <1>1, <1>2 DEF OutInv

-----------------------------------------------------------------------------
(* The invariant holds initially, and every action keeps it.               *)

LEMMA InvInit == Init => IInv
<1> SUFFICES ASSUME Init PROVE IInv
  OBVIOUS
<1>1. \A t \in Threads : K(t) \in Kernels
  BY KernelsAssumption DEF Init, K
<1>2. TypeOK
  BY <1>1, Orders, KernelsAssumption DEF Init, TypeOK, Steps, Order
<1>3. Shapes
  BY KernelsAssumption DEF Init, Shapes
<1>4. QueueInv
  BY DEF Init, QueueInv
<1>5. ArgsInv
  BY DEF Init, ArgsInv, Begun
<1>6. TempsInv
  BY DEF Init, TempsInv
<1>7. OutInv
  BY DEF Init, OutInv, Produced
<1> QED
  BY <1>2, <1>3, <1>4, <1>5, <1>6, <1>7 DEF IInv

LEMMA CallInv == ASSUME IInv, NEW t \in Threads, Call(t) PROVE IInv'
<1> USE DEF Call, Transition, Return, backend
<1>1. PICK to \in {"ensure"} : pc[t] = "idle" /\ pc' = [pc EXCEPT ![t] = to]
  OBVIOUS
<1>2. entryOf' = entryOf /\ \A u \in Threads : K(u) \in Kernels
  BY Entries
<1>3. /\ QueueInv' /\ jobs' \in Seq(Jobs)
      /\ \A i \in DOMAIN jobs' : jobs'[i].by \in Threads /\ jobs'[i].kernel \in Kernels
      /\ \A u \in Threads : Finished(u)' <=> Finished(u)
  BY <1>1, <1>2, AtRest, QueueKept
<1>4. TypeOK'
  BY <1>1, <1>2, <1>3, Orders DEF IInv, TypeOK, Steps, K, Order
<1>5. Shapes'
  BY <1>3 DEF IInv, Shapes
<1>6. ArgsInv'
  <2>1. Begun(t)' /\ \A u \in Threads : u # t => nextArg'[u] = nextArg[u]
    BY <1>1, <1>2 DEF IInv, TypeOK, Shapes, Begun, K
  <2> QED
    BY <1>1, <1>2, <2>1, ArgsKept
<1>7. TempsInv'
  BY <1>1, <1>2 DEF IInv, TypeOK, TempsInv, K
<1>8. OutInv'
  <2>1. Alone(t) => Produced(t)'
    BY <1>1, <1>2, <1>3, AtRest DEF IInv, TypeOK, OutInv, Produced, Good, K
  <2>2. \A u \in Threads : u # t => out'[u] = out[u] /\ refused'[u] = refused[u] /\ ret'[u] = ret[u]
    BY DEF IInv, TypeOK
  <2> QED
    BY <1>1, <1>2, <1>3, <2>1, <2>2, OutKept
<1> QED
  BY <1>3, <1>4, <1>5, <1>6, <1>7, <1>8 DEF IInv

LEMMA OnceEnterInv == ASSUME IInv, NEW t \in Threads, OnceEnter(t) PROVE IInv'
<1> USE DEF OnceEnter, Transition, Return, backend
<1>1. PICK to \in {"compile"} : pc[t] = "ensure" /\ pc' = [pc EXCEPT ![t] = to]
  OBVIOUS
<1>2. entryOf' = entryOf /\ \A u \in Threads : K(u) \in Kernels
  BY Entries
<1>3. /\ QueueInv' /\ jobs' \in Seq(Jobs)
      /\ \A i \in DOMAIN jobs' : jobs'[i].by \in Threads /\ jobs'[i].kernel \in Kernels
      /\ \A u \in Threads : Finished(u)' <=> Finished(u)
  BY <1>1, <1>2, AtRest, QueueKept
<1>4. TypeOK'
  BY <1>1, <1>2, <1>3 DEF IInv, TypeOK, Steps, K
<1>5. Shapes'
  BY <1>3 DEF IInv, Shapes
<1>6. ArgsInv'
  <2>1. Begun(t)'
    BY <1>1, <1>2 DEF IInv, TypeOK, ArgsInv, Begun, K
  <2> QED
    BY <1>1, <2>1, ArgsKept
<1>7. TempsInv'
  BY <1>1, <1>2 DEF IInv, TypeOK, TempsInv, K
<1>8. OutInv'
  <2>1. Alone(t) => Produced(t)'
    BY <1>1, <1>2, <1>3, AtRest DEF IInv, TypeOK, OutInv, Produced, Good, K
  <2>2. \A u \in Threads : u # t => out'[u] = out[u] /\ refused'[u] = refused[u] /\ ret'[u] = ret[u]
    BY DEF IInv, TypeOK
  <2> QED
    BY <1>1, <1>2, <1>3, <2>1, <2>2, OutKept
<1> QED
  BY <1>3, <1>4, <1>5, <1>6, <1>7, <1>8 DEF IInv

LEMMA CompileInv == ASSUME IInv, NEW t \in Threads, Compile(t) PROVE IInv'
<1> USE DEF Compile, Transition, Return, backend
<1>1. PICK to \in {"ensure"} : pc[t] = "compile" /\ pc' = [pc EXCEPT ![t] = to]
  OBVIOUS
<1>2. entryOf' = entryOf /\ \A u \in Threads : K(u) \in Kernels
  BY Entries
<1>3. /\ QueueInv' /\ jobs' \in Seq(Jobs)
      /\ \A i \in DOMAIN jobs' : jobs'[i].by \in Threads /\ jobs'[i].kernel \in Kernels
      /\ \A u \in Threads : Finished(u)' <=> Finished(u)
  BY <1>1, <1>2, AtRest, QueueKept
<1>4. TypeOK'
  BY <1>1, <1>2, <1>3 DEF IInv, TypeOK, Steps, K
<1>5. Shapes'
  BY <1>3 DEF IInv, Shapes
<1>6. ArgsInv'
  <2>1. Begun(t)'
    BY <1>1, <1>2 DEF IInv, TypeOK, ArgsInv, Begun, K
  <2> QED
    BY <1>1, <2>1, ArgsKept
<1>7. TempsInv'
  BY <1>1, <1>2 DEF IInv, TypeOK, TempsInv, K
<1>8. OutInv'
  <2>1. Alone(t) => Produced(t)'
    BY <1>1, <1>2, <1>3, AtRest DEF IInv, TypeOK, OutInv, Produced, Good, K
  <2>2. \A u \in Threads : u # t => out'[u] = out[u] /\ refused'[u] = refused[u] /\ ret'[u] = ret[u]
    BY DEF IInv, TypeOK
  <2> QED
    BY <1>1, <1>2, <1>3, <2>1, <2>2, OutKept
<1> QED
  BY <1>3, <1>4, <1>5, <1>6, <1>7, <1>8 DEF IInv

LEMMA OnceDoneInv == ASSUME IInv, NEW t \in Threads, OnceDone(t) PROVE IInv'
<1> USE DEF OnceDone, Transition, Return, backend
<1>1. PICK to \in {"alloc", "arg", "idle"} : pc[t] = "ensure" /\ pc' = [pc EXCEPT ![t] = to]
  OBVIOUS
<1>2. entryOf' = entryOf /\ \A u \in Threads : K(u) \in Kernels
  BY Entries
<1>3. /\ QueueInv' /\ jobs' \in Seq(Jobs)
      /\ \A i \in DOMAIN jobs' : jobs'[i].by \in Threads /\ jobs'[i].kernel \in Kernels
      /\ \A u \in Threads : Finished(u)' <=> Finished(u)
  BY <1>1, <1>2, AtRest, QueueKept
<1>4. TypeOK'
  BY <1>1, <1>2, <1>3 DEF IInv, TypeOK, Steps, K
<1>5. Shapes'
  BY <1>3 DEF IInv, Shapes
<1>6. ArgsInv'
  <2>1. Begun(t)'
    BY <1>1, <1>2, Orders DEF IInv, TypeOK, ArgsInv, Begun, K, Order
  <2> QED
    BY <1>1, <2>1, ArgsKept
<1>7. TempsInv'
  BY <1>1, <1>2 DEF IInv, TypeOK, TempsInv, K
<1>8. OutInv'
  <2>1. Alone(t) => Produced(t)'
    BY <1>1, <1>2, <1>3, AtRest DEF IInv, TypeOK, OutInv, Produced, Good, K
  <2>2. \A u \in Threads : u # t => out'[u] = out[u] /\ refused'[u] = refused[u] /\ ret'[u] = ret[u]
    BY DEF IInv, TypeOK
  <2> QED
    BY <1>1, <1>2, <1>3, <2>1, <2>2, OutKept
<1> QED
  BY <1>3, <1>4, <1>5, <1>6, <1>7, <1>8 DEF IInv

LEMMA SetArgInv == ASSUME IInv, NEW t \in Threads, SetArg(t) PROVE IInv'
<1> USE DEF SetArg, Transition, Return, backend
<1>1. PICK to \in {"launch", "arg"} : pc[t] = "arg" /\ pc' = [pc EXCEPT ![t] = to]
  OBVIOUS
<1>2. entryOf' = entryOf /\ \A u \in Threads : K(u) \in Kernels
  BY Entries
<1>a. /\ nextArg[t] \in 1 .. Len(Order(K(t))) /\ Len(Order(K(t))) \in Nat
      /\ Order(K(t))[nextArg[t]] \in ArgsOf(K(t))
      /\ to = IF nextArg[t] = Len(Order(K(t))) THEN "launch" ELSE "arg"
  BY <1>1, <1>2, Orders DEF IInv, TypeOK, ArgsInv, Begun, Order
<1>b. \A k \in Kernels : \A a \in ArgsOf(k) :
        args'[k][a] = IF k = K(t) /\ a = Order(K(t))[nextArg[t]] THEN t ELSE args[k][a]
  BY <1>2, <1>a DEF IInv, TypeOK, Shapes, Order
<1>c. \A k \in Kernels : args'[k] \in [ArgsOf(k) -> Threads \cup {NoCall}]
  BY <1>2, <1>a DEF IInv, TypeOK, Shapes, Order
<1>d. \A u \in Threads : nextArg'[u] = IF u = t THEN nextArg[t] + 1 ELSE nextArg[u]
  BY DEF IInv, Shapes
<1>3. /\ QueueInv' /\ jobs' \in Seq(Jobs)
      /\ \A i \in DOMAIN jobs' : jobs'[i].by \in Threads /\ jobs'[i].kernel \in Kernels
      /\ \A u \in Threads : Finished(u)' <=> Finished(u)
  BY <1>1, <1>2, AtRest, QueueKept
<1>4. TypeOK'
  BY <1>1, <1>2, <1>3, <1>a, <1>c, <1>d DEF IInv, TypeOK, Steps, K, Order
<1>5. Shapes'
  <2>1. args' = [k \in Kernels |-> args'[k]]
    BY DEF IInv, Shapes
  <2>2. nextArg' \in [Threads -> Nat]
    BY <1>a DEF IInv, Shapes
  <2> QED
    BY <1>3, <2>1, <2>2 DEF IInv, Shapes
<1>6. ArgsInv'
  <2>1. ASSUME NEW k \in Kernels, NEW a \in ArgsOf(k), args'[k][a] # NoCall
        PROVE  entryOf'[args'[k][a]] = k
    BY <1>2, <1>b, <2>1 DEF IInv, ArgsInv, K
  <2>2. ASSUME NEW u \in Threads PROVE Begun(u)'
    <3>1. CASE u = t /\ to = "arg"
      <4>1. pc'[t] = "arg" /\ nextArg'[t] = nextArg[t] + 1 /\ nextArg[t] # Len(Order(K(t)))
        BY <1>1, <1>a, <1>d, <3>1 DEF IInv, TypeOK
      <4>2. nextArg'[t] \in 1 .. Len(Order(K(t)))
        BY <1>a, <4>1
      <4>3. ASSUME NEW i \in 1 .. nextArg'[t] - 1 PROVE args'[K(t)][Order(K(t))[i]] # NoCall
        <5>1. i \in 1 .. Len(Order(K(t))) /\ Order(K(t))[i] \in ArgsOf(K(t))
          BY <1>2, <1>a, <4>1, Orders
        <5>2. CASE i = nextArg[t]
          BY <1>2, <1>b, <5>1, <5>2, KernelsAssumption
        <5>3. CASE i # nextArg[t]
          <6>1. args[K(t)][Order(K(t))[i]] # NoCall
            BY <1>1, <1>a, <4>1, <5>3 DEF IInv, ArgsInv, Begun
          <6> QED
            BY <1>2, <1>b, <5>1, <6>1, KernelsAssumption
        <5> QED
          BY <5>2, <5>3
      <4>4. entryOf'[t] = entryOf[t]
        BY <1>2
      <4> QED
        BY <3>1, <4>1, <4>2, <4>3, <4>4 DEF Begun, K
    <3>2. CASE u = t /\ to = "launch"
      <4>1. nextArg[t] = Len(Order(K(t)))
        BY <1>a, <3>2
      <4>2. ASSUME NEW a \in ArgsOf(K(t)) PROVE args'[K(t)][a] # NoCall
        <5>1. PICK i \in 1 .. Len(Order(K(t))) : a = Order(K(t))[i]
          BY <1>2, Orders
        <5>2. CASE i = nextArg[t]
          BY <1>2, <1>b, <5>1, <5>2, KernelsAssumption
        <5>3. CASE i # nextArg[t]
          <6>1. args[K(t)][a] # NoCall
            BY <1>1, <1>a, <4>1, <5>1, <5>3 DEF IInv, ArgsInv, Begun
          <6> QED
            BY <1>2, <1>b, <6>1, KernelsAssumption
        <5> QED
          BY <5>2, <5>3
      <4>3. pc'[t] = "launch"
        BY <1>1, <3>2 DEF IInv, TypeOK
      <4> QED
        BY <1>2, <3>2, <4>2, <4>3 DEF Begun, K
    <3>3. CASE u # t
      <4>1. pc'[u] = pc[u] /\ nextArg'[u] = nextArg[u]
        BY <1>1, <1>d, <3>3 DEF IInv, TypeOK
      <4>2. \A a \in ArgsOf(K(u)) : args[K(u)][a] # NoCall => args'[K(u)][a] # NoCall
        BY <1>2, <1>b, KernelsAssumption
      <4>3. Begun(u)
        BY DEF IInv, ArgsInv
      <4>4. \A i \in 1 .. Len(Order(K(u))) : Order(K(u))[i] \in ArgsOf(K(u))
        BY <1>2, Orders
      <4>5. Len(Order(K(u))) \in Nat
        BY <1>2, Orders
      <4>6. entryOf'[u] = entryOf[u]
        BY <1>2
      <4> QED
        BY <4>1, <4>2, <4>3, <4>4, <4>5, <4>6 DEF Begun, K
    <3> QED
      BY <1>1, <3>1, <3>2, <3>3
  <2> QED
    BY <2>1, <2>2 DEF ArgsInv, K
<1>7. TempsInv'
  BY <1>1, <1>2 DEF IInv, TypeOK, TempsInv, K
<1>8. OutInv'
  <2>1. Alone(t) => Produced(t)'
    BY <1>1, <1>2, <1>3, AtRest DEF IInv, TypeOK, OutInv, Produced, Good, K
  <2>2. \A u \in Threads : u # t => out'[u] = out[u] /\ refused'[u] = refused[u] /\ ret'[u] = ret[u]
    BY DEF IInv, TypeOK
  <2> QED
    BY <1>1, <1>2, <1>3, <2>1, <2>2, OutKept
<1> QED
  BY <1>3, <1>4, <1>5, <1>6, <1>7, <1>8 DEF IInv

LEMMA LaunchAcceptedInv == ASSUME IInv, NEW t \in Threads, LaunchAccepted(t) PROVE IInv'
<1> USE DEF LaunchAccepted, Transition, Return, backend
<1>1. PICK to \in {"sync"} : pc[t] = "launch" /\ pc' = [pc EXCEPT ![t] = to]
  OBVIOUS
<1>2. entryOf' = entryOf /\ \A u \in Threads : K(u) \in Kernels
  BY Entries
<1>a. args[K(t)] \in [ArgsOf(K(t)) -> Threads]
  BY <1>1, <1>2 DEF IInv, TypeOK, ArgsInv, Begun
<1>b. PICK e \in Jobs : e = [by |-> t, kernel |-> K(t), args |-> args[K(t)]]
  BY <1>2, <1>a DEF Jobs
<1>c. e.by = t /\ e.kernel = K(t) /\ e.args = args[K(t)]
  BY <1>b
<1>d. JobOK(e)'
  <2>1. \A a \in ArgsOf(K(t)) : entryOf[args[K(t)][a]] = K(t)
    BY <1>1, <1>2 DEF IInv, ArgsInv, Begun, K
  <2>2. pc'[t] = "sync"
    BY <1>1 DEF IInv, TypeOK
  <2> QED
    BY <1>2, <1>a, <1>c, <2>1, <2>2 DEF JobOK, K
<1>e. \A job : JobOK(job) /\ job.by # t => JobOK(job)'
  BY <1>1, <1>2 DEF IInv, TypeOK, JobOK, K
<1>f. /\ jobs' \in Seq(Jobs)
      /\ \A i \in DOMAIN jobs' : jobs'[i] = e \/ \E j \in DOMAIN jobs : jobs'[i] = jobs[j]
      /\ \E i \in DOMAIN jobs' : jobs'[i] = e
      /\ \A j \in DOMAIN jobs : \E i \in DOMAIN jobs' : jobs'[i] = jobs[j]
  <2>1. jobs' = Append(jobs, e) /\ jobs \in Seq(Jobs)
    BY <1>b DEF IInv, Shapes
  <2>2. \A j \in DOMAIN jobs : j \in DOMAIN jobs' /\ jobs'[j] = jobs[j]
    BY <2>1
  <2> QED
    BY <2>1, <2>2, Appending
<1>g. \A j \in DOMAIN jobs : JobOK(jobs[j]) /\ jobs[j].by # t
  BY <1>1, AtRest DEF IInv, QueueInv, Finished
<1>3. /\ QueueInv' /\ jobs' \in Seq(Jobs)
      /\ \A i \in DOMAIN jobs' : jobs'[i].by \in Threads /\ jobs'[i].kernel \in Kernels
      /\ ~Finished(t)' /\ \A u \in Threads : u # t /\ Finished(u)' => Finished(u)
  <2>1. ASSUME NEW job, NEW i \in DOMAIN jobs', jobs'[i] = job PROVE JobOK(job)'
    <3>1. CASE job = e
      BY <1>d, <3>1
    <3>2. CASE \E j \in DOMAIN jobs : job = jobs[j]
      BY <1>e, <1>g, <3>2
    <3> QED
      BY <1>f, <2>1, <3>1, <3>2
  <2>2. \A i \in DOMAIN jobs' : jobs'[i].by \in Threads /\ jobs'[i].kernel \in Kernels
    BY <1>2, <1>c, <1>f DEF IInv, TypeOK
  <2>3. ~Finished(t)' /\ \A u \in Threads : u # t /\ Finished(u)' => Finished(u)
    BY <1>c, <1>f DEF Finished
  <2>4. QueueInv'
    BY <2>1 DEF QueueInv, JobOK
  <2> QED
    BY <1>f, <2>2, <2>3, <2>4
<1>4. TypeOK'
  BY <1>1, <1>2, <1>3 DEF IInv, TypeOK, Steps, K
<1>5. Shapes'
  BY <1>3 DEF IInv, Shapes
<1>6. ArgsInv'
  <2>1. Begun(t)'
    BY <1>1, <1>2 DEF IInv, TypeOK, ArgsInv, Begun, K
  <2> QED
    BY <1>1, <2>1, ArgsKept
<1>7. TempsInv'
  BY <1>1, <1>2 DEF IInv, TypeOK, TempsInv, K
<1>8. OutInv'
  <2>1. Alone(t) => Produced(t)'
    BY <1>1, <1>2, <1>3, AtRest DEF IInv, TypeOK, OutInv, Produced, Good, K
  <2>2. \A u \in Threads : u # t => out'[u] = out[u] /\ refused'[u] = refused[u] /\ ret'[u] = ret[u]
    BY DEF IInv, TypeOK
  <2> QED
    BY <1>1, <1>2, <1>3, <2>1, <2>2, OutKept
<1> QED
  BY <1>3, <1>4, <1>5, <1>6, <1>7, <1>8 DEF IInv

LEMMA LaunchRefusedInv == ASSUME IInv, NEW t \in Threads, LaunchRefused(t) PROVE IInv'
<1> USE DEF LaunchRefused, Transition, Return, backend
<1>1. PICK to \in {"sync", "idle"} : pc[t] = "launch" /\ pc' = [pc EXCEPT ![t] = to]
  OBVIOUS
<1>2. entryOf' = entryOf /\ \A u \in Threads : K(u) \in Kernels
  BY Entries
<1>3. /\ QueueInv' /\ jobs' \in Seq(Jobs)
      /\ \A i \in DOMAIN jobs' : jobs'[i].by \in Threads /\ jobs'[i].kernel \in Kernels
      /\ \A u \in Threads : Finished(u)' <=> Finished(u)
  BY <1>1, <1>2, AtRest, QueueKept
<1>4. TypeOK'
  BY <1>1, <1>2, <1>3 DEF IInv, TypeOK, Steps, K
<1>5. Shapes'
  BY <1>3 DEF IInv, Shapes
<1>6. ArgsInv'
  <2>1. Begun(t)'
    BY <1>1, <1>2 DEF IInv, TypeOK, ArgsInv, Begun, K
  <2> QED
    BY <1>1, <2>1, ArgsKept
<1>7. TempsInv'
  BY <1>1, <1>2 DEF IInv, TypeOK, TempsInv, K
<1>8. OutInv'
  <2>1. Alone(t) => Produced(t)'
    BY <1>1, <1>2, <1>3, AtRest DEF IInv, TypeOK, OutInv, Produced, Good, K
  <2>2. \A u \in Threads : u # t => out'[u] = out[u] /\ refused'[u] = refused[u] /\ ret'[u] = ret[u]
    BY DEF IInv, TypeOK
  <2> QED
    BY <1>1, <1>2, <1>3, <2>1, <2>2, OutKept
<1> QED
  BY <1>3, <1>4, <1>5, <1>6, <1>7, <1>8 DEF IInv

LEMMA SyncInv == ASSUME IInv, NEW t \in Threads, Sync(t) PROVE IInv'
<1> USE DEF Sync, Transition, Return, backend
<1>1. PICK to \in {"read", "idle"} : pc[t] = "sync" /\ pc' = [pc EXCEPT ![t] = to]
  OBVIOUS
<1>2. entryOf' = entryOf /\ \A u \in Threads : K(u) \in Kernels
  BY Entries
<1>3. /\ QueueInv' /\ jobs' \in Seq(Jobs)
      /\ \A i \in DOMAIN jobs' : jobs'[i].by \in Threads /\ jobs'[i].kernel \in Kernels
      /\ \A u \in Threads : Finished(u)' <=> Finished(u)
  BY <1>1, <1>2, QueueKept
<1>4. TypeOK'
  BY <1>1, <1>2, <1>3 DEF IInv, TypeOK, Steps, K
<1>5. Shapes'
  BY <1>3 DEF IInv, Shapes
<1>6. ArgsInv'
  <2>1. Begun(t)'
    BY <1>1, <1>2 DEF IInv, TypeOK, ArgsInv, Begun, K
  <2> QED
    BY <1>1, <2>1, ArgsKept
<1>7. TempsInv'
  BY <1>1, <1>2 DEF IInv, TypeOK, TempsInv, K
<1>8. OutInv'
  <2>1. Alone(t) => Produced(t)'
    BY <1>1, <1>2, <1>3, AtRest DEF IInv, TypeOK, OutInv, Produced, Good, K
  <2>2. \A u \in Threads : u # t => out'[u] = out[u] /\ refused'[u] = refused[u] /\ ret'[u] = ret[u]
    BY DEF IInv, TypeOK
  <2> QED
    BY <1>1, <1>2, <1>3, <2>1, <2>2, OutKept
<1> QED
  BY <1>3, <1>4, <1>5, <1>6, <1>7, <1>8 DEF IInv

LEMMA MatVecAllocInv == ASSUME IInv, NEW t \in Threads, MatVecAlloc(t) PROVE IInv'
<1> USE DEF MatVecAlloc, Transition, Return, backend
<1>1. PICK to \in {"write", "free"} : pc[t] = "alloc" /\ pc' = [pc EXCEPT ![t] = to]
  OBVIOUS
<1>2. entryOf' = entryOf /\ \A u \in Threads : K(u) \in Kernels
  BY Entries
<1>3. /\ QueueInv' /\ jobs' \in Seq(Jobs)
      /\ \A i \in DOMAIN jobs' : jobs'[i].by \in Threads /\ jobs'[i].kernel \in Kernels
      /\ \A u \in Threads : Finished(u)' <=> Finished(u)
  BY <1>1, <1>2, AtRest, QueueKept
<1>4. TypeOK'
  BY <1>1, <1>2, <1>3 DEF IInv, TypeOK, Steps, K
<1>5. Shapes'
  BY <1>3 DEF IInv, Shapes
<1>6. ArgsInv'
  <2>1. Begun(t)'
    BY <1>1, <1>2 DEF IInv, TypeOK, ArgsInv, Begun, K
  <2> QED
    BY <1>1, <2>1, ArgsKept
<1>7. TempsInv'
  BY <1>1, <1>2 DEF IInv, TypeOK, TempsInv, K
<1>8. OutInv'
  <2>1. Alone(t) => Produced(t)'
    BY <1>1, <1>2, <1>3, AtRest DEF IInv, TypeOK, OutInv, Produced, Good, K
  <2>2. \A u \in Threads : u # t => out'[u] = out[u] /\ refused'[u] = refused[u] /\ ret'[u] = ret[u]
    BY DEF IInv, TypeOK
  <2> QED
    BY <1>1, <1>2, <1>3, <2>1, <2>2, OutKept
<1> QED
  BY <1>3, <1>4, <1>5, <1>6, <1>7, <1>8 DEF IInv

LEMMA MatVecWriteInv == ASSUME IInv, NEW t \in Threads, MatVecWrite(t) PROVE IInv'
<1> USE DEF MatVecWrite, Transition, Return, backend
<1>1. PICK to \in {"arg", "free"} : pc[t] = "write" /\ pc' = [pc EXCEPT ![t] = to]
  OBVIOUS
<1>2. entryOf' = entryOf /\ \A u \in Threads : K(u) \in Kernels
  BY Entries
<1>3. /\ QueueInv' /\ jobs' \in Seq(Jobs)
      /\ \A i \in DOMAIN jobs' : jobs'[i].by \in Threads /\ jobs'[i].kernel \in Kernels
      /\ \A u \in Threads : Finished(u)' <=> Finished(u)
  BY <1>1, <1>2, AtRest, QueueKept
<1>4. TypeOK'
  BY <1>1, <1>2, <1>3 DEF IInv, TypeOK, Steps, K
<1>5. Shapes'
  BY <1>3 DEF IInv, Shapes
<1>6. ArgsInv'
  <2>1. Begun(t)'
    BY <1>1, <1>2, Orders DEF IInv, TypeOK, ArgsInv, Begun, K, Order
  <2> QED
    BY <1>1, <2>1, ArgsKept
<1>7. TempsInv'
  BY <1>1, <1>2 DEF IInv, TypeOK, TempsInv, K
<1>8. OutInv'
  <2>1. Alone(t) => Produced(t)'
    BY <1>1, <1>2, <1>3, AtRest DEF IInv, TypeOK, OutInv, Produced, Good, K
  <2>2. \A u \in Threads : u # t => out'[u] = out[u] /\ refused'[u] = refused[u] /\ ret'[u] = ret[u]
    BY DEF IInv, TypeOK
  <2> QED
    BY <1>1, <1>2, <1>3, <2>1, <2>2, OutKept
<1> QED
  BY <1>3, <1>4, <1>5, <1>6, <1>7, <1>8 DEF IInv

LEMMA MatVecReadInv == ASSUME IInv, NEW t \in Threads, MatVecRead(t) PROVE IInv'
<1> USE DEF MatVecRead, Transition, Return, backend
<1>1. PICK to \in {"free"} : pc[t] = "read" /\ pc' = [pc EXCEPT ![t] = to]
  OBVIOUS
<1>2. entryOf' = entryOf /\ \A u \in Threads : K(u) \in Kernels
  BY Entries
<1>3. /\ QueueInv' /\ jobs' \in Seq(Jobs)
      /\ \A i \in DOMAIN jobs' : jobs'[i].by \in Threads /\ jobs'[i].kernel \in Kernels
      /\ \A u \in Threads : Finished(u)' <=> Finished(u)
  BY <1>1, <1>2, AtRest, QueueKept
<1>4. TypeOK'
  BY <1>1, <1>2, <1>3 DEF IInv, TypeOK, Steps, K
<1>5. Shapes'
  BY <1>3 DEF IInv, Shapes
<1>6. ArgsInv'
  <2>1. Begun(t)'
    BY <1>1, <1>2 DEF IInv, TypeOK, ArgsInv, Begun, K
  <2> QED
    BY <1>1, <2>1, ArgsKept
<1>7. TempsInv'
  BY <1>1, <1>2 DEF IInv, TypeOK, TempsInv, K
<1>8. OutInv'
  <2>1. Alone(t) => Produced(t)'
    BY <1>1, <1>2, <1>3, AtRest DEF IInv, TypeOK, OutInv, Produced, Good, K
  <2>2. \A u \in Threads : u # t => out'[u] = out[u] /\ refused'[u] = refused[u] /\ ret'[u] = ret[u]
    BY DEF IInv, TypeOK
  <2> QED
    BY <1>1, <1>2, <1>3, <2>1, <2>2, OutKept
<1> QED
  BY <1>3, <1>4, <1>5, <1>6, <1>7, <1>8 DEF IInv

LEMMA MatVecFreeInv == ASSUME IInv, NEW t \in Threads, MatVecFree(t) PROVE IInv'
<1> USE DEF MatVecFree, Transition, Return, backend
<1>1. PICK to \in {"idle"} : pc[t] = "free" /\ pc' = [pc EXCEPT ![t] = to]
  OBVIOUS
<1>2. entryOf' = entryOf /\ \A u \in Threads : K(u) \in Kernels
  BY Entries
<1>3. /\ QueueInv' /\ jobs' \in Seq(Jobs)
      /\ \A i \in DOMAIN jobs' : jobs'[i].by \in Threads /\ jobs'[i].kernel \in Kernels
      /\ \A u \in Threads : Finished(u)' <=> Finished(u)
  BY <1>1, <1>2, AtRest, QueueKept
<1>4. TypeOK'
  BY <1>1, <1>2, <1>3 DEF IInv, TypeOK, Steps, K
<1>5. Shapes'
  BY <1>3 DEF IInv, Shapes
<1>6. ArgsInv'
  <2>1. Begun(t)'
    BY <1>1, <1>2 DEF IInv, TypeOK, ArgsInv, Begun, K
  <2> QED
    BY <1>1, <2>1, ArgsKept
<1>7. TempsInv'
  BY <1>1, <1>2 DEF IInv, TypeOK, TempsInv, K
<1>8. OutInv'
  <2>1. Alone(t) => Produced(t)'
    BY <1>1, <1>2, <1>3, AtRest DEF IInv, TypeOK, OutInv, Produced, Good, K
  <2>2. \A u \in Threads : u # t => out'[u] = out[u] /\ refused'[u] = refused[u] /\ ret'[u] = ret[u]
    BY DEF IInv, TypeOK
  <2> QED
    BY <1>1, <1>2, <1>3, <2>1, <2>2, OutKept
<1> QED
  BY <1>3, <1>4, <1>5, <1>6, <1>7, <1>8 DEF IInv

LEMMA ExecuteInv == ASSUME IInv, Execute PROVE IInv'
<1> DEFINE job == Head(jobs)
<1>1. /\ job \in Jobs /\ jobs' \in Seq(Jobs)
      /\ \E i \in DOMAIN jobs : jobs[i] = job
      /\ \A i \in DOMAIN jobs' : \E j \in DOMAIN jobs : jobs'[i] = jobs[j]
      /\ \A j \in DOMAIN jobs : jobs[j] = job \/ \E i \in DOMAIN jobs' : jobs'[i] = jobs[j]
  BY Running DEF IInv, Shapes, Execute
<1>2. /\ out' = IF BuffersExist(job)
                THEN [out EXCEPT ![job.args["out"]] = {job.args[a] : a \in ArgsOf(job.kernel)}]
                ELSE out
      /\ UNCHANGED <<entryOf, up, epoch, once, kernel, args, pc, nextArg, temps, refused, ret>>
  BY DEF Execute, backend
<1> HIDE DEF job
<1>3. JobOK(job) /\ job.by \in Threads /\ job.kernel \in Kernels
  BY <1>1 DEF IInv, TypeOK, QueueInv
<1>4. "out" \in ArgsOf(job.kernel) /\ "in" \in ArgsOf(job.kernel)
  BY <1>3, Orders
<1>5. out' \in [Threads -> SUBSET Threads]
  <2>1. {job.args[a] : a \in ArgsOf(job.kernel)} \subseteq Threads
    BY <1>3 DEF JobOK
  <2> QED
    BY <1>2, <2>1 DEF IInv, TypeOK
<1>6. TypeOK'
  <2>1. \A i \in DOMAIN jobs' : jobs'[i].by \in Threads /\ jobs'[i].kernel \in Kernels
    BY <1>1 DEF IInv, TypeOK
  <2> QED
    BY <1>2, <1>5, <2>1 DEF IInv, TypeOK, K
<1>7. Shapes'
  BY <1>1, <1>2 DEF IInv, Shapes
<1>8. QueueInv'
  BY <1>1, <1>2 DEF IInv, QueueInv, JobOK, K
<1>9. ArgsInv' /\ TempsInv'
  BY <1>2 DEF IInv, ArgsInv, Begun, TempsInv, K
<1>10. OutInv'
  <2> SUFFICES ASSUME NEW t \in Threads, Alone(t)
               PROVE  Produced(t)'
    BY <1>2 DEF OutInv, Alone, K
  <2>1. CASE job.by = t
    <3>1. pc[t] = "sync" /\ job.kernel = K(t)
      BY <1>3, <2>1 DEF JobOK
    <3>2. \A a \in ArgsOf(job.kernel) : job.args[a] = t
      BY <1>3, <3>1 DEF JobOK, Alone
    <3>3. BuffersExist(job)
      BY <1>4, <3>1, <3>2 DEF BuffersExist, IInv, TempsInv
    <3>4. {job.args[a] : a \in ArgsOf(job.kernel)} = {t}
      BY <1>4, <3>2
    <3>5. out'[t] = {t}
      BY <1>2, <1>4, <3>2, <3>3, <3>4 DEF IInv, TypeOK
    <3> QED
      BY <1>2, <3>1, <3>5 DEF Produced, Good
  <2>2. CASE job.by # t
    <3>1. job.kernel # K(t)
      BY <1>3, <2>2 DEF JobOK, Alone
    <3>2. job.args["out"] # t
      BY <1>3, <1>4, <3>1 DEF JobOK
    <3>3. out'[t] = out[t]
      BY <1>2, <3>2 DEF IInv, TypeOK
    <3>4. Finished(t)' => Finished(t)
      BY <1>1, <2>2 DEF Finished
    <3>5. Good(t)' <=> Good(t)
      BY <1>2, <3>3 DEF Good, K
    <3> QED
      BY <1>2, <3>3, <3>4, <3>5 DEF IInv, OutInv, Produced
  <2> QED
    BY <2>1, <2>2
<1> QED
  BY <1>6, <1>7, <1>8, <1>9, <1>10 DEF IInv

LEMMA BackendInv == ASSUME IInv, Shutdown \/ Reinit PROVE IInv'
<1>1. UNCHANGED <<entryOf, once, kernel, args, jobs, pc, nextArg, temps, out, refused, ret>>
  BY DEF Shutdown, Reinit
<1>2. TypeOK' /\ Shapes'
  <2>1. up' \in BOOLEAN /\ epoch' \in 1..MaxEpoch /\ (~up' => epoch' < MaxEpoch)
    <3>1. CASE Shutdown
      BY <3>1 DEF Shutdown, IInv, TypeOK
    <3>2. CASE Reinit
      <4>1. MaxEpoch \in Nat /\ epoch \in 1..MaxEpoch /\ epoch < MaxEpoch
        BY <3>2, KernelsAssumption DEF Reinit, IInv, TypeOK, Shapes
      <4>2. up' = TRUE /\ epoch' = epoch + 1
        BY <3>2 DEF Reinit
      <4> QED
        BY <4>1, <4>2
    <3> QED
      BY <3>1, <3>2
  <2>2. TypeOK'
    BY <1>1, <2>1 DEF IInv, TypeOK, K
  <2>3. Shapes'
    BY <1>1, <2>1 DEF IInv, Shapes
  <2> QED
    BY <2>2, <2>3
<1>3. QueueInv' /\ ArgsInv' /\ TempsInv'
  BY <1>1 DEF IInv, QueueInv, JobOK, ArgsInv, Begun, TempsInv, K
<1>4. OutInv'
  BY <1>1 DEF IInv, OutInv, Produced, Good, Alone, Finished, K
<1> QED
  BY <1>2, <1>3, <1>4 DEF IInv

LEMMA NextInv == IInv /\ [Next]_vars => IInv'
<1> SUFFICES ASSUME IInv, [Next]_vars PROVE IInv'
  OBVIOUS
<1>1. ASSUME NEW t \in Threads, Call(t) PROVE IInv'
  BY <1>1, CallInv
<1>2. ASSUME NEW t \in Threads, CallCode(t) PROVE IInv'
  BY <1>2, OnceEnterInv, CompileInv, OnceDoneInv, SetArgInv, LaunchAcceptedInv, LaunchRefusedInv,
     SyncInv, MatVecAllocInv, MatVecWriteInv, MatVecReadInv, MatVecFreeInv DEF CallCode
<1>3. CASE Execute
  BY <1>3, ExecuteInv
<1>4. CASE Shutdown \/ Reinit
  BY <1>4, BackendInv
<1>5. CASE UNCHANGED vars
  <2>1. UNCHANGED <<entryOf, up, epoch, once, kernel, args, jobs, pc, nextArg, temps, out, refused, ret>>
    BY <1>5 DEF vars
  <2>2. TypeOK'
    BY <2>1 DEF IInv, TypeOK, K
  <2>3. Shapes'
    BY <2>1 DEF IInv, Shapes
  <2>4. QueueInv' /\ ArgsInv' /\ TempsInv'
    BY <2>1 DEF IInv, QueueInv, JobOK, ArgsInv, Begun, TempsInv, K
  <2>5. OutInv'
    BY <2>1 DEF IInv, OutInv, Produced, Good, Alone, Finished, K
  <2> QED
    BY <2>2, <2>3, <2>4, <2>5 DEF IInv
<1> QED
  BY <1>1, <1>2, <1>3, <1>4, <1>5 DEF Next

(* Every reachable state satisfies the inductive invariant.                *)
THEOREM Invariance == Spec => []IInv
<1>1. Init => IInv
  BY InvInit
<1>2. IInv /\ [Next]_vars => IInv'
  BY NextInv
<1> QED
  BY <1>1, <1>2, PTL DEF Spec

-----------------------------------------------------------------------------
(* The values every variable may take: no kernel runs with an argument     *)
(* that was never set, even when threads share it.                         *)
THEOREM TypeCorrect == Spec => []TypeOK
<1>1. IInv => TypeOK
  BY DEF IInv
<1> QED
  BY <1>1, Invariance, PTL

(* A call alone in its entry point that reports success computed its       *)
(* result, or had its launch refused, whatever the other threads do.       *)
THEOREM SuccessIsComputed == Spec => []ComputedOrRefused
<1>1. IInv => ComputedOrRefused
  BY DEF IInv, OutInv, Produced, Good, ComputedOrRefused, Returned
<1> QED
  BY <1>1, Invariance, PTL

(* No temporary is freed while a job in the queue names it.                *)
THEOREM BuffersOutlive == Spec => []QueuedBuffersExist
<1>1. ASSUME IInv, NEW i \in DOMAIN jobs, Alone(jobs[i].by) PROVE BuffersExist(jobs[i])
  <2>1. JobOK(jobs[i]) /\ jobs[i].by \in Threads /\ jobs[i].kernel \in Kernels
    BY <1>1 DEF IInv, TypeOK, QueueInv
  <2>2. \A a \in ArgsOf(jobs[i].kernel) : jobs[i].args[a] = jobs[i].by
    BY <1>1, <2>1 DEF JobOK, Alone
  <2>3. {"in", "out"} \subseteq ArgsOf(jobs[i].kernel)
    BY <2>1, Orders
  <2>4. jobs[i].kernel = "matvec" => temps[jobs[i].by] = Temporaries
    BY <1>1, <2>1 DEF IInv, JobOK, TempsInv
  <2> QED
    BY <2>2, <2>3, <2>4 DEF BuffersExist
<1>2. IInv => QueuedBuffersExist
  BY <1>1 DEF QueuedBuffersExist
<1> QED
  BY <1>2, Invariance, PTL

(* Whatever failed in it, xeCudaMatVecQ4KM leaves no temporary behind.     *)
THEOREM TemporariesGone == Spec => []NoTemporaryLeft
<1>1. IInv => NoTemporaryLeft
  BY DEF IInv, TempsInv, NoTemporaryLeft
<1> QED
  BY <1>1, Invariance, PTL
=============================================================================

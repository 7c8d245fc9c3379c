-------------------------- MODULE XeRuntimeProofs ---------------------------
(***************************************************************************)
(* Theorems about XeRuntime, for any number of threads, buffers, programs  *)
(* and errors.                                                             *)
(***************************************************************************)
EXTENDS XeRuntime, TLAPS

Commands ==
  [op : {"read"}, by : Threads, from : Buffers]
    \cup [op : {"write"}, by : Threads, to : Buffers, val : Values]
    \cup [op : {"kernel"}, by : Threads, to : Buffers]
    \cup [op : {"marker"}, by : Threads]

JobsInv == jobs \in Seq(Commands)

(* A thread with a command in the queue is in a call that will wait for it, *)
(* and while it reads, for nothing but the read of its source.             *)
QueueInv ==
  \A i \in DOMAIN jobs :
    /\ pc[jobs[i].by] \in {"reading", "wait", "sync"}
    /\ pc[jobs[i].by] = "reading" => jobs[i].op = "read" /\ jobs[i].from = src[jobs[i].by]

(* A copy knows where to and from, and its history goes on.                *)
PlacesInv ==
  \A t \in Threads :
    /\ src[t] \in Buffers \cup {t} /\ dst[t] \in Buffers \cup {t}
    /\ pc[t] \in {"put", "alloc", "store"} => dst[t] \in Buffers
    /\ seen[t] # {} => src[t] \in Buffers
    /\ pc[t] \in {"alloc", "read", "reading", "got", "store"} =>
         src[t] \in Buffers /\ content[src[t]] \in seen[t]

(* A read that has run has read something its source held.                 *)
CopyInv ==
  \A t \in Threads :
    pc[t] \in {"got", "store"} \/ (pc[t] = "reading" /\ Finished(t)) => tmp[t] \in seen[t]

(* A program belongs to one running call, or to a caller.                  *)
ModulesInv ==
  /\ ProgramsAccounted
  /\ \A t \in Threads : prog[t] # None <=> pc[t] = "createKernel"
  /\ \A t \in Threads : prog[t] \notin held
  /\ \A t, u \in Threads : prog[t] = prog[u] /\ prog[t] # None => t = u

RecordedInv == \A t \in Threads : recorded[t] = {}

IInv ==
  /\ TypeOK /\ JobsInv /\ QueueInv /\ PlacesInv /\ CopyInv
  /\ ErrorsReportedOnce /\ ModulesInv /\ RecordedInv

-----------------------------------------------------------------------------
(* The in-order command queue: which elements it has after Append and Tail. *)

(* An element put at the end is the only new one.                          *)
LEMMA Appending ==
  ASSUME NEW S, NEW s \in Seq(S), NEW e \in S
  PROVE  /\ Append(s, e) \in Seq(S)
         /\ \A i \in DOMAIN Append(s, e) :
              Append(s, e)[i] = e \/ \E j \in DOMAIN s : Append(s, e)[i] = s[j]
         /\ \E i \in DOMAIN Append(s, e) : Append(s, e)[i] = e
OBVIOUS

(* Taking the first element takes nothing else.                            *)
LEMMA Running ==
  ASSUME NEW S, NEW s \in Seq(S), s # << >>
  PROVE  /\ Head(s) \in S /\ Tail(s) \in Seq(S)
         /\ \E i \in DOMAIN s : s[i] = Head(s)
         /\ \A i \in DOMAIN Tail(s) : \E j \in DOMAIN s : Tail(s)[i] = s[j]
         /\ \A j \in DOMAIN s : s[j] = Head(s) \/ \E i \in DOMAIN Tail(s) : Tail(s)[i] = s[j]
<1>1. /\ Len(s) \in Nat \ {0} /\ DOMAIN s = 1 .. Len(s) /\ Head(s) = s[1] /\ s[1] \in S
      /\ Tail(s) \in Seq(S) /\ DOMAIN Tail(s) = 1 .. Len(s) - 1
      /\ \A i \in 1 .. Len(s) - 1 : Tail(s)[i] = s[i + 1]
  OBVIOUS
<1>2. \E i \in DOMAIN s : s[i] = Head(s)
  BY <1>1
<1>3. \A i \in DOMAIN Tail(s) : i + 1 \in DOMAIN s /\ Tail(s)[i] = s[i + 1]
  BY <1>1
<1>4. \A j \in DOMAIN s : s[j] = Head(s) \/ (j - 1 \in DOMAIN Tail(s) /\ Tail(s)[j - 1] = s[j])
  BY <1>1
<1> QED
  BY <1>1, <1>2, <1>3, <1>4

-----------------------------------------------------------------------------
(* The queue.                                                              *)

(* A command put into the queue by a thread that will wait for it.         *)
LEMMA Enqueued ==
  ASSUME IInv, NEW t \in Threads, NEW op, [op EXCEPT !.by = t] \in Commands, Enqueue(t, op),
         NEW to \in {"reading", "wait", "sync"},
         pc' = [pc EXCEPT ![t] = to],
         to # "reading" \/ /\ op = Read(src[t]) /\ src'[t] = src[t]
                           /\ pc[t] = "read",
         \A u \in Threads : u # t => src'[u] = src[u],
         pc[t] # "reading"
  PROVE  /\ JobsInv' /\ QueueInv' /\ \A i \in DOMAIN jobs' : jobs'[i].by \in Threads
         /\ ~Finished(t)' /\ \A u \in Threads : u # t => (Finished(u)' <=> Finished(u))
<1> DEFINE e == [op EXCEPT !.by = t]
<1>1. e.by = t
  BY DEF Commands
<1>2. to = "reading" => e.op = "read" /\ e.from = src'[t]
  BY DEF Read
<1>3. e \in Commands /\ jobs' = Append(jobs, e)
  BY DEF Enqueue
<1> HIDE DEF e
<1>4. /\ jobs' \in Seq(Commands)
      /\ \A i \in DOMAIN jobs' : jobs'[i] = e \/ \E j \in DOMAIN jobs : jobs'[i] = jobs[j]
      /\ \E i \in DOMAIN jobs' : jobs'[i] = e
  BY <1>3, Appending DEF IInv, JobsInv
<1>5. \A i \in DOMAIN jobs : jobs[i].by \in Threads
  BY DEF IInv, TypeOK
<1>6. \A i \in DOMAIN jobs' : jobs'[i].by \in Threads
  BY <1>1, <1>4, <1>5
<1>7. QueueInv'
  <2> SUFFICES ASSUME NEW i \in DOMAIN jobs'
               PROVE  /\ pc'[jobs'[i].by] \in {"reading", "wait", "sync"}
                      /\ pc'[jobs'[i].by] = "reading" =>
                           jobs'[i].op = "read" /\ jobs'[i].from = src'[jobs'[i].by]
    BY DEF QueueInv
  <2>1. CASE jobs'[i] = e
    BY <1>1, <1>2, <2>1 DEF IInv, TypeOK
  <2>2. ASSUME NEW j \in DOMAIN jobs, jobs'[i] = jobs[j] PROVE
               /\ pc'[jobs'[i].by] \in {"reading", "wait", "sync"}
               /\ pc'[jobs'[i].by] = "reading" =>
                    jobs'[i].op = "read" /\ jobs'[i].from = src'[jobs'[i].by]
    BY <1>5, <2>2 DEF IInv, TypeOK, QueueInv
  <2> QED
    BY <1>4, <2>1, <2>2
<1>8. ~Finished(t)'
  BY <1>1, <1>4 DEF Finished
<1>9. \A u \in Threads : u # t => (Finished(u)' <=> Finished(u))
  <2>1. \A j \in DOMAIN jobs : \E i \in DOMAIN jobs' : jobs'[i] = jobs[j]
    BY <1>3 DEF IInv, JobsInv
  <2> QED
    BY <1>1, <1>4, <2>1 DEF Finished
<1> QED
  BY <1>4, <1>6, <1>7, <1>8, <1>9 DEF JobsInv

LEMMA Unqueued ==
  ASSUME IInv, NEW t \in Threads, NEW to, pc' = [pc EXCEPT ![t] = to], Finished(t),
         jobs' = jobs, \A u \in Threads : u # t => src'[u] = src[u]
  PROVE  /\ JobsInv' /\ QueueInv' /\ \A i \in DOMAIN jobs' : jobs'[i].by \in Threads
         /\ \A u \in Threads : Finished(u)' <=> Finished(u)
<1>1. \A i \in DOMAIN jobs : jobs[i].by \in Threads /\ jobs[i].by # t
  BY DEF IInv, TypeOK, Finished
<1>2. QueueInv'
  BY <1>1 DEF IInv, TypeOK, QueueInv
<1> QED
  BY <1>1, <1>2 DEF IInv, JobsInv, Finished

LEMMA AtRest ==
  ASSUME IInv, NEW t \in Threads, pc[t] \notin {"reading", "wait", "sync"}
  PROVE  Finished(t)
BY DEF IInv, QueueInv, Finished

(* What a thread does that compiles nothing and sets no error.             *)
LEMMA Elsewhere ==
  ASSUME IInv, NEW t \in Threads, NEW to, pc' = [pc EXCEPT ![t] = to],
         pc[t] # "createKernel", to # "createKernel", UNCHANGED <<modules, errors, recorded>>
  PROVE  ModulesInv' /\ ErrorsReportedOnce' /\ RecordedInv'
<1>1. ModulesInv'
  BY DEF IInv, TypeOK, ModulesInv, ProgramsAccounted, modules
<1>2. ErrorsReportedOnce'
  BY DEF IInv, ErrorsReportedOnce, errors
<1> QED
  BY <1>1, <1>2 DEF IInv, RecordedInv

(* Forgetting a copy that is over.                                         *)
LEMMA Forgetting ==
  ASSUME IInv, NEW t \in Threads, Forget(t), NEW to \in {"idle", "wait"},
         pc' = [pc EXCEPT ![t] = to], content' = content
  PROVE  /\ PlacesInv'
         /\ src' \in [Threads -> Places] /\ dst' \in [Threads -> Places]
         /\ seen' \in [Threads -> SUBSET Values]
         /\ \A u \in Threads : u # t => src'[u] = src[u] /\ seen'[u] = seen[u]
<1>1. \A u \in Threads : u # t => src'[u] = src[u] /\ dst'[u] = dst[u] /\ seen'[u] = seen[u]
  BY DEF Forget
<1>2. src'[t] = t /\ dst'[t] = t /\ seen'[t] = {} /\ pc'[t] = to
  BY DEF Forget, IInv, TypeOK
<1>3. PlacesInv'
  BY <1>1, <1>2 DEF IInv, TypeOK, PlacesInv
<1>4. src' \in [Threads -> Places] /\ dst' \in [Threads -> Places] /\ seen' \in [Threads -> SUBSET Values]
  BY DEF Forget, IInv, TypeOK, Places
<1> QED
  BY <1>1, <1>3, <1>4

-----------------------------------------------------------------------------
(* The invariant holds initially, and every action keeps it.               *)

LEMMA InvInit == Init => IInv
<1> SUFFICES ASSUME Init PROVE IInv
  OBVIOUS
<1>1. TypeOK
  BY RuntimeAssumption DEF Init, TypeOK, Values, Places, Steps
<1>2. JobsInv /\ QueueInv
  BY DEF Init, JobsInv, QueueInv
<1>3. PlacesInv /\ CopyInv /\ RecordedInv
  BY DEF Init, PlacesInv, CopyInv, RecordedInv
<1>4. ErrorsReportedOnce
  <2> SUFFICES ASSUME NEW t \in Threads
               PROVE  reported[t] + (IF lastError = t THEN 1 ELSE 0) <= raised[t]
    BY DEF ErrorsReportedOnce
  <2>1. lastError # t /\ reported[t] = 0 /\ raised[t] = 0
    BY RuntimeAssumption DEF Init
  <2> QED
    BY <2>1
<1>5. ModulesInv
  BY DEF Init, ModulesInv, ProgramsAccounted
<1> QED
  BY <1>1, <1>2, <1>3, <1>4, <1>5 DEF IInv

LEMMA CopyCallInv == ASSUME IInv, NEW t \in Threads, CopyCall(t) PROVE IInv'
<1> USE DEF CopyCall, Transition, memory, calls
<1>1. PICK s \in Buffers \cup {t}, d \in Buffers \cup {t} :
        /\ s # d
        /\ src' = [src EXCEPT ![t] = s] /\ dst' = [dst EXCEPT ![t] = d]
        /\ seen' = [seen EXCEPT ![t] = IF s = t THEN {} ELSE {content[s]}]
        /\ pc[t] = "idle"
        /\ pc' = [pc EXCEPT ![t] = IF s = t THEN "put" ELSE IF d = t THEN "read" ELSE "alloc"]
  OBVIOUS
<1>2. Finished(t) /\ \A u \in Threads : u # t => src'[u] = src[u]
  BY <1>1, AtRest
<1>3. /\ JobsInv' /\ QueueInv' /\ \A i \in DOMAIN jobs' : jobs'[i].by \in Threads
      /\ \A u \in Threads : Finished(u)' <=> Finished(u)
  BY <1>1, <1>2, Unqueued
<1>4. TypeOK'
  BY <1>1, <1>3 DEF IInv, TypeOK, modules, errors, Steps, Places, Values
<1>5. PlacesInv'
  BY <1>1, RuntimeAssumption DEF IInv, TypeOK, PlacesInv
<1>6. CopyInv'
  BY <1>1, <1>3 DEF IInv, TypeOK, CopyInv
<1>7. ModulesInv' /\ ErrorsReportedOnce' /\ RecordedInv'
  BY <1>1, Elsewhere
<1> QED
  BY <1>3, <1>4, <1>5, <1>6, <1>7 DEF IInv

LEMMA CopyAllocInv == ASSUME IInv, NEW t \in Threads, CopyAlloc(t) PROVE IInv'
<1> USE DEF CopyAlloc, Transition, memory
<1>1. PICK to \in {"read", "idle"} : pc[t] = "alloc" /\ pc' = [pc EXCEPT ![t] = to]
  OBVIOUS
<1>2. pc'[t] = to
  BY <1>1 DEF IInv, TypeOK
<1>3. /\ PlacesInv'
      /\ src' \in [Threads -> Places] /\ dst' \in [Threads -> Places]
      /\ seen' \in [Threads -> SUBSET Values]
      /\ \A u \in Threads : u # t => src'[u] = src[u] /\ seen'[u] = seen[u]
  <2>1. CASE to = "idle"
    <3>1. Forget(t)
      BY <1>2, <2>1
    <3> QED
      BY <1>1, <2>1, <3>1, Forgetting
  <2>2. CASE to = "read"
    <3>1. UNCHANGED calls
      BY <1>2, <2>2
    <3> QED
      BY <1>1, <2>2, <3>1 DEF IInv, TypeOK, PlacesInv, calls
  <2> QED
    BY <2>1, <2>2
<1>4. Finished(t)
  BY <1>1, AtRest
<1>5. /\ JobsInv' /\ QueueInv' /\ \A i \in DOMAIN jobs' : jobs'[i].by \in Threads
      /\ \A u \in Threads : Finished(u)' <=> Finished(u)
  BY <1>1, <1>3, <1>4, Unqueued
<1>6. TypeOK'
  BY <1>1, <1>3, <1>5 DEF IInv, TypeOK, modules, errors, Steps
<1>7. CopyInv'
  BY <1>1, <1>3, <1>5 DEF IInv, TypeOK, CopyInv
<1>8. ModulesInv' /\ ErrorsReportedOnce' /\ RecordedInv'
  BY <1>1, Elsewhere
<1> QED
  BY <1>3, <1>5, <1>6, <1>7, <1>8 DEF IInv

LEMMA CopyReadInv == ASSUME IInv, NEW t \in Threads, CopyRead(t) PROVE IInv'
<1> USE DEF CopyRead, Transition, memory
<1>1. CASE pc[t] = "read" /\ pc' = [pc EXCEPT ![t] = "reading"] /\ Enqueue(t, Read(src[t])) /\ UNCHANGED calls
  <2>1. src[t] \in Buffers
    BY <1>1 DEF IInv, PlacesInv
  <2>2. [Read(src[t]) EXCEPT !.by = t] \in Commands
    BY <2>1 DEF Read, Commands
  <2>3. /\ JobsInv' /\ QueueInv' /\ \A i \in DOMAIN jobs' : jobs'[i].by \in Threads
        /\ ~Finished(t)' /\ \A u \in Threads : u # t => (Finished(u)' <=> Finished(u))
    BY <1>1, <2>2, Enqueued DEF calls
  <2>4. TypeOK'
    BY <1>1, <2>3 DEF IInv, TypeOK, calls, modules, errors, Steps
  <2>5. PlacesInv'
    BY <1>1 DEF IInv, TypeOK, PlacesInv, calls
  <2>6. CopyInv'
    BY <1>1, <2>3 DEF IInv, TypeOK, CopyInv, calls
  <2>7. ModulesInv' /\ ErrorsReportedOnce' /\ RecordedInv'
    BY <1>1, Elsewhere
  <2> QED
    BY <2>3, <2>4, <2>5, <2>6, <2>7 DEF IInv
<1>2. CASE pc[t] = "read" /\ pc' = [pc EXCEPT ![t] = "idle"] /\ UNCHANGED jobs /\ Forget(t)
  <2>1. /\ PlacesInv'
        /\ src' \in [Threads -> Places] /\ dst' \in [Threads -> Places]
        /\ seen' \in [Threads -> SUBSET Values]
        /\ \A u \in Threads : u # t => src'[u] = src[u] /\ seen'[u] = seen[u]
    BY <1>2, Forgetting
  <2>2. Finished(t)
    BY <1>2, AtRest
  <2>3. /\ JobsInv' /\ QueueInv' /\ \A i \in DOMAIN jobs' : jobs'[i].by \in Threads
        /\ \A u \in Threads : Finished(u)' <=> Finished(u)
    BY <1>2, <2>1, <2>2, Unqueued
  <2>4. TypeOK'
    BY <1>2, <2>1, <2>3 DEF IInv, TypeOK, modules, errors, Steps
  <2>5. CopyInv'
    BY <1>2, <2>1, <2>3 DEF IInv, TypeOK, CopyInv
  <2>6. ModulesInv' /\ ErrorsReportedOnce' /\ RecordedInv'
    BY <1>2, Elsewhere
  <2> QED
    BY <2>1, <2>3, <2>4, <2>5, <2>6 DEF IInv
<1> QED
  BY <1>1, <1>2

LEMMA CopyReadDoneInv == ASSUME IInv, NEW t \in Threads, CopyReadDone(t) PROVE IInv'
<1> USE DEF CopyReadDone, Transition, memory, calls
<1>1. PICK to \in {"got", "store"} :
        pc[t] = "reading" /\ pc' = [pc EXCEPT ![t] = to] /\ (to = "store" => dst[t] # t)
  OBVIOUS
<1>2. /\ JobsInv' /\ QueueInv' /\ \A i \in DOMAIN jobs' : jobs'[i].by \in Threads
      /\ \A u \in Threads : Finished(u)' <=> Finished(u)
  BY <1>1, Unqueued
<1>3. TypeOK'
  BY <1>1, <1>2 DEF IInv, TypeOK, modules, errors, Steps
<1>4. PlacesInv'
  BY <1>1 DEF IInv, TypeOK, PlacesInv
<1>5. CopyInv'
  BY <1>1, <1>2 DEF IInv, TypeOK, CopyInv
<1>6. ModulesInv' /\ ErrorsReportedOnce' /\ RecordedInv'
  BY <1>1, Elsewhere
<1> QED
  BY <1>2, <1>3, <1>4, <1>5, <1>6 DEF IInv

LEMMA CopyReturnInv == ASSUME IInv, NEW t \in Threads, CopyReturn(t) PROVE IInv'
<1> USE DEF CopyReturn, Transition
<1>1. /\ PlacesInv'
      /\ src' \in [Threads -> Places] /\ dst' \in [Threads -> Places]
      /\ seen' \in [Threads -> SUBSET Values]
      /\ \A u \in Threads : u # t => src'[u] = src[u] /\ seen'[u] = seen[u]
  BY Forgetting
<1>2. Finished(t)
  BY AtRest
<1>3. /\ JobsInv' /\ QueueInv' /\ \A i \in DOMAIN jobs' : jobs'[i].by \in Threads
      /\ \A u \in Threads : Finished(u)' <=> Finished(u)
  BY <1>1, <1>2, Unqueued
<1>4. TypeOK'
  BY <1>1, <1>3 DEF IInv, TypeOK, modules, errors, Steps
<1>5. CopyInv'
  BY <1>1, <1>3 DEF IInv, TypeOK, CopyInv
<1>6. ModulesInv' /\ ErrorsReportedOnce' /\ RecordedInv'
  BY Elsewhere
<1> QED
  BY <1>1, <1>3, <1>4, <1>5, <1>6 DEF IInv

LEMMA CopyWriteInv == ASSUME IInv, NEW t \in Threads, CopyWrite(t) PROVE IInv'
<1> USE DEF CopyWrite, Transition
<1>1. PICK to \in {"wait", "idle"} : pc[t] \in {"put", "store"} /\ pc' = [pc EXCEPT ![t] = to]
  OBVIOUS
<1>2. /\ PlacesInv'
      /\ src' \in [Threads -> Places] /\ dst' \in [Threads -> Places]
      /\ seen' \in [Threads -> SUBSET Values]
      /\ \A u \in Threads : u # t => src'[u] = src[u] /\ seen'[u] = seen[u]
  BY <1>1, Forgetting
<1>3. /\ JobsInv' /\ QueueInv' /\ \A i \in DOMAIN jobs' : jobs'[i].by \in Threads
      /\ \A u \in Threads : u # t => (Finished(u)' <=> Finished(u))
  <2>1. ASSUME NEW val \in Values, Enqueue(t, Write(dst[t], val)), pc' = [pc EXCEPT ![t] = "wait"]
        PROVE  /\ JobsInv' /\ QueueInv' /\ \A i \in DOMAIN jobs' : jobs'[i].by \in Threads
               /\ \A u \in Threads : u # t => (Finished(u)' <=> Finished(u))
    <3>1. dst[t] \in Buffers
      BY <1>1 DEF IInv, PlacesInv
    <3>2. [Write(dst[t], val) EXCEPT !.by = t] \in Commands
      BY <3>1 DEF Write, Commands
    <3> QED
      BY <1>1, <1>2, <2>1, <3>2, Enqueued
  <2>2. CASE pc[t] = "put" /\ pc' = [pc EXCEPT ![t] = "wait"] /\ Enqueue(t, Write(dst[t], t))
    BY <2>1, <2>2 DEF Values, Places
  <2>3. CASE pc[t] = "store" /\ pc' = [pc EXCEPT ![t] = "wait"] /\ Enqueue(t, Write(dst[t], tmp[t]))
    <3>1. tmp[t] \in Values
      BY <2>3 DEF IInv, TypeOK, CopyInv
    <3> QED
      BY <2>1, <2>3, <3>1
  <2>4. CASE UNCHANGED jobs
    <3>1. Finished(t)
      BY <1>1, AtRest
    <3> QED
      BY <1>1, <1>2, <2>4, <3>1, Unqueued
  <2> QED
    BY <2>2, <2>3, <2>4
<1>4. TypeOK'
  BY <1>1, <1>2, <1>3 DEF IInv, TypeOK, modules, errors, Steps
<1>5. CopyInv'
  BY <1>1, <1>2, <1>3 DEF IInv, TypeOK, CopyInv
<1>6. ModulesInv' /\ ErrorsReportedOnce' /\ RecordedInv'
  BY <1>1, Elsewhere
<1> QED
  BY <1>2, <1>3, <1>4, <1>5, <1>6 DEF IInv

LEMMA CopyUnknownKindInv == ASSUME IInv, NEW t \in Threads, CopyUnknownKind(t) PROVE IInv'
<1> USE DEF CopyUnknownKind, memory, calls, modules
<1>1. TypeOK'
  BY RuntimeAssumption DEF IInv, TypeOK
<1>2. JobsInv' /\ QueueInv' /\ PlacesInv' /\ CopyInv' /\ RecordedInv'
  BY DEF IInv, JobsInv, QueueInv, PlacesInv, CopyInv, Finished, RecordedInv
<1>3. ErrorsReportedOnce'
  <2> SUFFICES ASSUME NEW u \in Threads
               PROVE  reported[u] + (IF lastError' = u THEN 1 ELSE 0) <= raised'[u]
    BY DEF ErrorsReportedOnce
  <2>1. reported[u] \in Nat /\ raised[u] \in Nat /\ raised \in [Threads -> 0 .. MaxErrors]
    BY DEF IInv, TypeOK
  <2>2. reported[u] + (IF lastError = u THEN 1 ELSE 0) <= raised[u]
    BY DEF IInv, ErrorsReportedOnce
  <2>3. CASE u = t
    <3>1. raised'[u] = raised[u] + 1 /\ lastError' = u
      BY <2>1, <2>3
    <3> QED
      BY <2>1, <2>2, <3>1
  <2>4. CASE u # t
    <3>1. raised'[u] = raised[u] /\ lastError' # u
      BY <2>1, <2>4
    <3> QED
      BY <2>1, <2>2, <3>1
  <2> QED
    BY <2>3, <2>4
<1>4. ModulesInv'
  BY DEF IInv, ModulesInv, ProgramsAccounted
<1> QED
  BY <1>1, <1>2, <1>3, <1>4 DEF IInv

LEMMA LaunchKernelInv == ASSUME IInv, NEW t \in Threads, LaunchKernel(t) PROVE IInv'
<1> USE DEF LaunchKernel, Transition, memory, calls
<1>1. CASE UNCHANGED <<pc, jobs>>
  BY <1>1 DEF IInv, TypeOK, JobsInv, QueueInv, PlacesInv, CopyInv, Finished, RecordedInv,
              ErrorsReportedOnce, ModulesInv, ProgramsAccounted, modules, errors
<1>2. ASSUME NEW d \in Buffers, pc[t] = "idle", pc' = [pc EXCEPT ![t] = "sync"], Enqueue(t, Kernel(d))
      PROVE  IInv'
  <2>1. [Kernel(d) EXCEPT !.by = t] \in Commands
    BY DEF Kernel, Commands
  <2>2. /\ JobsInv' /\ QueueInv' /\ \A i \in DOMAIN jobs' : jobs'[i].by \in Threads
        /\ \A u \in Threads : u # t => (Finished(u)' <=> Finished(u))
    BY <1>2, <2>1, Enqueued
  <2>3. TypeOK'
    BY <1>2, <2>2 DEF IInv, TypeOK, modules, errors, Steps
  <2>4. PlacesInv'
    BY <1>2 DEF IInv, TypeOK, PlacesInv
  <2>5. CopyInv'
    BY <1>2, <2>2 DEF IInv, TypeOK, CopyInv
  <2>6. ModulesInv' /\ ErrorsReportedOnce' /\ RecordedInv'
    BY <1>2, Elsewhere
  <2> QED
    BY <2>2, <2>3, <2>4, <2>5, <2>6 DEF IInv
<1> QED
  BY <1>1, <1>2

LEMMA SynchronizeCallInv == ASSUME IInv, NEW t \in Threads, SynchronizeCall(t) PROVE IInv'
<1> USE DEF SynchronizeCall, Transition, memory, calls
<1>1. Finished(t)
  BY AtRest
<1>2. /\ JobsInv' /\ QueueInv' /\ \A i \in DOMAIN jobs' : jobs'[i].by \in Threads
      /\ \A u \in Threads : Finished(u)' <=> Finished(u)
  BY <1>1, Unqueued
<1>3. TypeOK'
  BY <1>2 DEF IInv, TypeOK, modules, errors, Steps
<1>4. PlacesInv' /\ CopyInv'
  BY <1>2 DEF IInv, TypeOK, PlacesInv, CopyInv
<1>5. ModulesInv' /\ ErrorsReportedOnce' /\ RecordedInv'
  BY Elsewhere
<1> QED
  BY <1>2, <1>3, <1>4, <1>5 DEF IInv

LEMMA SyncInv == ASSUME IInv, NEW t \in Threads, Sync(t) PROVE IInv'
<1> USE DEF Sync, Transition, memory, calls
<1>1. [Marker EXCEPT !.by = t] \in Commands
  BY DEF Marker, Commands
<1>2. /\ JobsInv' /\ QueueInv' /\ \A i \in DOMAIN jobs' : jobs'[i].by \in Threads
      /\ \A u \in Threads : u # t => (Finished(u)' <=> Finished(u))
  BY <1>1, Enqueued
<1>3. TypeOK'
  BY <1>2 DEF IInv, TypeOK, modules, errors, Steps
<1>4. PlacesInv' /\ CopyInv'
  BY <1>2 DEF IInv, TypeOK, PlacesInv, CopyInv
<1>5. ModulesInv' /\ ErrorsReportedOnce' /\ RecordedInv'
  BY Elsewhere
<1> QED
  BY <1>2, <1>3, <1>4, <1>5 DEF IInv

LEMMA WaitInv == ASSUME IInv, NEW t \in Threads, Wait(t) PROVE IInv'
<1> USE DEF Wait, Transition, memory, calls
<1>1. /\ JobsInv' /\ QueueInv' /\ \A i \in DOMAIN jobs' : jobs'[i].by \in Threads
      /\ \A u \in Threads : Finished(u)' <=> Finished(u)
  BY Unqueued
<1>2. TypeOK'
  BY <1>1 DEF IInv, TypeOK, modules, errors, Steps
<1>3. PlacesInv' /\ CopyInv'
  BY <1>1 DEF IInv, TypeOK, PlacesInv, CopyInv
<1>4. ModulesInv' /\ ErrorsReportedOnce' /\ RecordedInv'
  BY Elsewhere
<1> QED
  BY <1>1, <1>2, <1>3, <1>4 DEF IInv

LEMMA EventRecordInv == ASSUME IInv, NEW t \in Threads, EventRecord(t) PROVE IInv'
<1> USE DEF EventRecord, memory, calls, modules, errors
<1>1. {i \in DOMAIN jobs : jobs[i].by = t} = {}
  BY AtRest DEF Finished
<1>2. RecordedInv'
  BY <1>1 DEF IInv, RecordedInv, TypeOK
<1>3. TypeOK'
  BY <1>1 DEF IInv, TypeOK
<1>4. JobsInv' /\ QueueInv' /\ PlacesInv' /\ CopyInv' /\ ErrorsReportedOnce'
  BY DEF IInv, JobsInv, QueueInv, PlacesInv, CopyInv, Finished, ErrorsReportedOnce
<1>5. ModulesInv'
  BY DEF IInv, ModulesInv, ProgramsAccounted
<1> QED
  BY <1>2, <1>3, <1>4, <1>5 DEF IInv

LEMMA CompileProgramInv == ASSUME IInv, NEW t \in Threads, CompileProgram(t) PROVE IInv'
<1> USE DEF CompileProgram, Transition, memory, calls, errors
<1>1. CASE UNCHANGED <<pc, live, prog>>
  BY <1>1 DEF IInv, TypeOK, JobsInv, QueueInv, PlacesInv, CopyInv, Finished, RecordedInv,
              ErrorsReportedOnce, ModulesInv, ProgramsAccounted
<1>2. ASSUME NEW p \in Programs \ live, pc[t] = "idle", pc' = [pc EXCEPT ![t] = "createKernel"],
             live' = live \cup {p}, prog' = [prog EXCEPT ![t] = p]
      PROVE  IInv'
  <2>1. Finished(t)
    BY <1>2, AtRest
  <2>2. /\ JobsInv' /\ QueueInv' /\ \A i \in DOMAIN jobs' : jobs'[i].by \in Threads
        /\ \A u \in Threads : Finished(u)' <=> Finished(u)
    BY <1>2, <2>1, Unqueued
  <2>3. TypeOK'
    BY <1>2, <2>2 DEF IInv, TypeOK, Steps
  <2>4. PlacesInv' /\ CopyInv' /\ ErrorsReportedOnce' /\ RecordedInv'
    BY <1>2, <2>2 DEF IInv, TypeOK, PlacesInv, CopyInv, ErrorsReportedOnce, RecordedInv
  <2>5. /\ prog'[t] = p /\ p # None /\ p \notin held /\ prog[t] = None
        /\ \A u \in Threads : u # t => prog'[u] = prog[u] /\ pc'[u] = pc[u] /\ prog[u] # p
    BY <1>2, RuntimeAssumption DEF IInv, TypeOK, ModulesInv, ProgramsAccounted
  <2>6. live' = held' \cup ({prog'[u] : u \in Threads} \ {None})
    <3>1. {prog'[u] : u \in Threads} \ {None} = ({prog[u] : u \in Threads} \ {None}) \cup {p}
      BY <2>5
    <3> QED
      BY <1>2, <3>1 DEF IInv, ModulesInv, ProgramsAccounted
  <2>7. pc'[t] = "createKernel"
    BY <1>2 DEF IInv, TypeOK
  <2>8. ModulesInv'
    BY <2>5, <2>6, <2>7 DEF IInv, ModulesInv, ProgramsAccounted
  <2> QED
    BY <2>2, <2>3, <2>4, <2>8 DEF IInv
<1> QED
  BY <1>1, <1>2

LEMMA CreateKernelInv == ASSUME IInv, NEW t \in Threads, CreateKernel(t) PROVE IInv'
<1> USE DEF CreateKernel, Transition, memory, calls, errors
<1>1. Finished(t)
  BY AtRest
<1>2. /\ JobsInv' /\ QueueInv' /\ \A i \in DOMAIN jobs' : jobs'[i].by \in Threads
      /\ \A u \in Threads : Finished(u)' <=> Finished(u)
  BY <1>1, Unqueued
<1>3. prog[t] \in Programs /\ prog[t] # None
  BY DEF IInv, TypeOK, ModulesInv
<1>4. TypeOK'
  BY <1>2, <1>3 DEF IInv, TypeOK, Steps
<1>5. PlacesInv' /\ CopyInv' /\ ErrorsReportedOnce' /\ RecordedInv'
  BY <1>2 DEF IInv, TypeOK, PlacesInv, CopyInv, ErrorsReportedOnce, RecordedInv
<1>6. /\ prog'[t] = None /\ pc'[t] = "idle"
      /\ \A u \in Threads : u # t => prog'[u] = prog[u] /\ pc'[u] = pc[u] /\ prog[u] # prog[t]
  BY <1>3 DEF IInv, TypeOK, ModulesInv
<1>7. {prog'[u] : u \in Threads} \ {None} = ({prog[u] : u \in Threads} \ {None}) \ {prog[t]}
  BY <1>3, <1>6
<1>8. live' = held' \cup ({prog'[u] : u \in Threads} \ {None})
  BY <1>3, <1>7 DEF IInv, ModulesInv, ProgramsAccounted
<1>9. ModulesInv'
  <2>1. held' \subseteq held \cup {prog[t]} /\ None \notin held'
    BY <1>3, RuntimeAssumption DEF IInv, TypeOK
  <2>2. \A u \in Threads : prog'[u] \notin held'
    BY <1>6, <2>1 DEF IInv, ModulesInv
  <2>3. \A u \in Threads : prog'[u] # None <=> pc'[u] = "createKernel"
    BY <1>6 DEF IInv, ModulesInv
  <2>4. \A u, v \in Threads : prog'[u] = prog'[v] /\ prog'[u] # None => u = v
    BY <1>6 DEF IInv, ModulesInv
  <2> QED
    BY <1>8, <2>2, <2>3, <2>4 DEF ModulesInv, ProgramsAccounted
<1> QED
  BY <1>2, <1>4, <1>5, <1>9 DEF IInv

LEMMA GetLastErrorInv == ASSUME IInv, GetLastError PROVE IInv'
<1> USE DEF GetLastError, memory, calls, modules
<1>1. lastError \in Threads /\ lastError' = None
  BY DEF IInv, TypeOK
<1>2. ASSUME NEW u \in Threads
      PROVE  /\ reported'[u] + (IF lastError' = u THEN 1 ELSE 0) <= raised'[u]
             /\ reported'[u] \in Nat /\ reported'[u] <= MaxErrors
  <2>1. reported[u] \in Nat /\ raised[u] \in Nat /\ raised[u] <= MaxErrors
    BY RuntimeAssumption DEF IInv, TypeOK
  <2>2. reported[u] + (IF lastError = u THEN 1 ELSE 0) <= raised[u]
    BY DEF IInv, ErrorsReportedOnce
  <2>3. lastError' # u
    BY <1>1, RuntimeAssumption
  <2>4. CASE u = lastError
    <3>1. reported'[u] = reported[u] + 1
      BY <1>1, <2>4 DEF IInv, TypeOK
    <3> QED
      BY <2>1, <2>2, <2>3, <2>4, <3>1, RuntimeAssumption
  <2>5. CASE u # lastError
    <3>1. reported'[u] = reported[u]
      BY <1>1, <2>5 DEF IInv, TypeOK
    <3> QED
      BY <2>1, <2>2, <2>3, <2>5, <3>1, RuntimeAssumption
  <2> QED
    BY <2>4, <2>5
<1>3. ErrorsReportedOnce'
  BY <1>2 DEF ErrorsReportedOnce
<1>4. reported' \in [Threads -> 0 .. MaxErrors]
  <2>1. reported' = [u \in Threads |-> reported'[u]]
    BY DEF IInv, TypeOK
  <2>2. \A u \in Threads : reported'[u] \in 0 .. MaxErrors
    BY <1>2, RuntimeAssumption
  <2> QED
    BY <2>1, <2>2
<1>5. TypeOK'
  BY <1>1, <1>4 DEF IInv, TypeOK
<1>6. JobsInv' /\ QueueInv' /\ PlacesInv' /\ CopyInv' /\ RecordedInv'
  BY DEF IInv, JobsInv, QueueInv, PlacesInv, CopyInv, Finished, RecordedInv
<1>7. ModulesInv'
  BY DEF IInv, ModulesInv, ProgramsAccounted
<1> QED
  BY <1>3, <1>5, <1>6, <1>7 DEF IInv

LEMMA ExecuteInv == ASSUME IInv, Execute PROVE IInv'
<1> DEFINE job == Head(jobs)
<1>1. /\ job \in Commands /\ jobs' \in Seq(Commands)
      /\ \E i \in DOMAIN jobs : jobs[i] = job
      /\ \A i \in DOMAIN jobs' : \E j \in DOMAIN jobs : jobs'[i] = jobs[j]
      /\ \A j \in DOMAIN jobs : jobs[j] = job \/ \E i \in DOMAIN jobs' : jobs'[i] = jobs[j]
  BY Running DEF IInv, JobsInv, Execute
<1>2. /\ content' = CASE job.op = "write" -> [content EXCEPT ![job.to] = job.val]
                       [] job.op = "kernel" -> [content EXCEPT ![job.to] = "computed"]
                       [] OTHER -> content
      /\ tmp' = IF job.op = "read" THEN [tmp EXCEPT ![job.by] = content[job.from]] ELSE tmp
      /\ seen' = [t \in Threads |->
                    IF seen[t] = {} THEN {} ELSE seen[t] \cup {content'[src[t]]}]
      /\ UNCHANGED <<pc, src, dst, modules, errors, recorded>>
  BY DEF Execute
<1> HIDE DEF job
<1>3. job.by \in Threads /\ pc[job.by] \in {"reading", "wait", "sync"}
  BY <1>1 DEF IInv, TypeOK, QueueInv
<1>4. job.op = "read" =>
        job.from \in Buffers /\ (pc[job.by] = "reading" => job.from = src[job.by])
  BY <1>1 DEF IInv, QueueInv, Commands
<1>5. pc[job.by] = "reading" => job.op = "read"
  BY <1>1 DEF IInv, QueueInv
<1>6. content' \in [Buffers -> Values]
  <2>1. CASE job.op = "write"
    BY <1>1, <1>2, <2>1 DEF IInv, TypeOK, Commands
  <2>2. CASE job.op = "kernel"
    BY <1>1, <1>2, <2>2 DEF IInv, TypeOK, Commands, Values
  <2>3. CASE job.op \notin {"write", "kernel"}
    BY <1>2, <2>3 DEF IInv, TypeOK
  <2> QED
    BY <2>1, <2>2, <2>3
<1>7. tmp' \in [Threads -> Values \cup {None}]
  BY <1>2, <1>3, <1>4 DEF IInv, TypeOK
<1>8. /\ seen' \in [Threads -> SUBSET Values]
      /\ \A t \in Threads : seen[t] \subseteq seen'[t]
      /\ \A t \in Threads : seen'[t] # {} => seen[t] # {} /\ content'[src[t]] \in seen'[t]
  <2>1. \A t \in Threads : seen[t] # {} => content'[src[t]] \in Values
    BY <1>6 DEF IInv, PlacesInv
  <2> QED
    BY <1>2, <2>1 DEF IInv, TypeOK
<1>9. JobsInv' /\ QueueInv' /\ \A i \in DOMAIN jobs' : jobs'[i].by \in Threads
  BY <1>1, <1>2 DEF IInv, TypeOK, JobsInv, QueueInv
<1>10. TypeOK'
  BY <1>2, <1>6, <1>7, <1>8, <1>9 DEF IInv, TypeOK, modules, errors
<1>11. PlacesInv'
  BY <1>2, <1>8 DEF IInv, PlacesInv
<1>12. CopyInv'
  <2> SUFFICES ASSUME NEW t \in Threads,
                      pc[t] \in {"got", "store"} \/ (pc[t] = "reading" /\ Finished(t)')
               PROVE  tmp'[t] \in seen'[t]
    BY <1>2 DEF CopyInv
  <2>1. CASE pc[t] = "reading" /\ job.by = t
    <3>1. job.op = "read" /\ job.from = src[t] /\ tmp'[t] = content[src[t]]
      BY <1>2, <1>3, <1>4, <1>5, <2>1 DEF IInv, TypeOK
    <3> QED
      BY <1>8, <2>1, <3>1 DEF IInv, PlacesInv
  <2>2. CASE job.by # t
    <3>1. tmp'[t] = tmp[t]
      BY <1>2, <2>2 DEF IInv, TypeOK
    <3>2. pc[t] = "reading" => Finished(t)
      BY <1>1, <2>2 DEF Finished
    <3>3. tmp[t] \in seen[t]
      BY <3>2 DEF IInv, CopyInv
    <3> QED
      BY <1>8, <3>1, <3>3
  <2> QED
    BY <1>3, <2>1, <2>2
<1>13. ErrorsReportedOnce' /\ RecordedInv'
  BY <1>2 DEF IInv, ErrorsReportedOnce, RecordedInv, errors
<1>14. ModulesInv'
  BY <1>2 DEF IInv, ModulesInv, ProgramsAccounted, modules
<1> QED
  BY <1>9, <1>10, <1>11, <1>12, <1>13, <1>14 DEF IInv

LEMMA NextInv == IInv /\ [Next]_vars => IInv'
<1> SUFFICES ASSUME IInv, [Next]_vars PROVE IInv'
  OBVIOUS
<1>1. ASSUME NEW t \in Threads, CopyCode(t) PROVE IInv'
  BY <1>1, CopyCallInv, CopyAllocInv, CopyReadInv, CopyReadDoneInv, CopyReturnInv, CopyWriteInv,
     CopyUnknownKindInv DEF CopyCode
<1>2. ASSUME NEW t \in Threads, L0Code(t) PROVE IInv'
  BY <1>2, LaunchKernelInv, CompileProgramInv, CreateKernelInv DEF L0Code
<1>3. ASSUME NEW t \in Threads, SyncCode(t) PROVE IInv'
  BY <1>3, SynchronizeCallInv, SyncInv, WaitInv, EventRecordInv DEF SyncCode
<1>4. CASE GetLastError
  BY <1>4, GetLastErrorInv
<1>5. CASE Execute
  BY <1>5, ExecuteInv
<1>6. CASE UNCHANGED vars
  BY <1>6 DEF vars, memory, calls, modules, errors, IInv, TypeOK, JobsInv, QueueInv, PlacesInv,
              CopyInv, Finished, ErrorsReportedOnce, ModulesInv, ProgramsAccounted, RecordedInv
<1> QED
  BY <1>1, <1>2, <1>3, <1>4, <1>5, <1>6 DEF Next

(* Every reachable state satisfies the inductive invariant.                *)
THEOREM Invariance == Spec => []IInv
<1>1. Init => IInv
  BY InvInit
<1>2. IInv /\ [Next]_vars => IInv'
  BY NextInv
<1> QED
  BY <1>1, <1>2, PTL DEF Spec

-----------------------------------------------------------------------------
(* The values every variable may take, in every behaviour of the runtime.  *)
THEOREM TypeCorrect == Spec => []TypeOK
<1>1. IInv => TypeOK
  BY DEF IInv
<1> QED
  BY <1>1, Invariance, PTL

(* What xeCudaMemcpy hands over was in its source during the call, with    *)
(* any number of other threads' commands in between.                       *)
THEOREM CopiesAreOfTheCall == Spec => []CopiedValueWasThere
<1>1. IInv => CopiedValueWasThere
  BY DEF IInv, CopyInv, CopiedValueWasThere
<1> QED
  BY <1>1, Invariance, PTL

(* A thread outside calls has nothing in the queue, so its event, recorded *)
(* with the host's clock, comes after its work.                            *)
THEOREM EventsComeAfter == Spec => []EventsFollowWork
<1>1. IInv => EventsFollowWork
  BY AtRest DEF IInv, RecordedInv, EventsFollowWork
<1> QED
  BY <1>1, Invariance, PTL

(* An error is fetched at most once, by whichever thread asks first.       *)
THEOREM NoErrorTwice == Spec => []ErrorsReportedOnce
<1>1. IInv => ErrorsReportedOnce
  BY DEF IInv
<1> QED
  BY <1>1, Invariance, PTL

(* xeL0CreateModuleFromSpirv loses no program, whichever step fails.       *)
THEOREM NoProgramLost == Spec => []ProgramsAccounted
<1>1. IInv => ProgramsAccounted
  BY DEF IInv, ModulesInv
<1> QED
  BY <1>1, Invariance, PTL
=============================================================================

--------------------- MODULE EventLoopThreadPoolProofs ---------------------
(***************************************************************************)
(* Proofs about EventLoopThreadPool, for a pool of any size.  Inv says how *)
(* far start() and the destructor are, which threads there are at that     *)
(* point, and whose loop_ is set: on that rests that a loop in loops_ is   *)
(* complete and that the destructor passes no thread whose loop runs.      *)
(***************************************************************************)
EXTENDS EventLoopThreadPool, SequenceTheorems, TLAPS

-----------------------------------------------------------------------------
(* Types.                                                                   *)

LEMMA InitTypeOK == Init => TypeOK
<1> SUFFICES ASSUME Init PROVE TypeOK
  OBVIOUS
<1>1. /\ numThreads_ \in 0..MaxThreads /\ cur \in 0..(MaxThreads + 1) /\ next_ \in Nat
      /\ given \in [0..MaxThreads -> 0..MaxNext]
  BY MaxAssumption DEF Init
<1>2. worker \in [Threads -> WorkerPoints] /\ loops_ \in Seq(Threads)
  BY EmptySeq DEF Init, WorkerPoints
<1>3. QED
  BY <1>1, <1>2 DEF Init, TypeOK, Points

LEMMA WorkerTypeOK ==
  ASSUME TypeOK, NEW i \in Threads, Worker(i) \/ Quit(i)
  PROVE  TypeOK'
<1> USE DEF TypeOK, Points, WorkerPoints, poolVars, mainVars, At
<1>1. CASE Born(i)
  BY <1>1 DEF Born
<1>2. CASE MakeLoop(i)
  BY <1>2 DEF MakeLoop, Threads
<1>3. CASE Publish(i)
  BY <1>3 DEF Publish
<1>4. CASE EnterLoop(i)
  BY <1>4 DEF EnterLoop
<1>5. CASE LoopReturn(i)
  BY <1>5 DEF LoopReturn
<1>6. CASE Clear(i)
  BY <1>6 DEF Clear
<1>7. CASE End(i)
  BY <1>7 DEF End
<1>8. CASE Quit(i)
  BY <1>8 DEF Quit
<1>9. QED
  BY <1>1, <1>2, <1>3, <1>4, <1>5, <1>6, <1>7, <1>8 DEF Worker

-----------------------------------------------------------------------------
(* Where start() and the destructor are.                                    *)

Reached == IF Starting THEN cur ELSE Len(loops_)

(* cur is a thread of the pool whenever it is used as one, and the pool has *)
(* the loops of the threads that startLoop has returned for.                *)
Progress ==
  /\ main = "new" => cur = 0 /\ Len(loops_) = 0
  /\ main = "start" => cur \in 0..numThreads_ /\ Len(loops_) = cur
  /\ main \in {"sem", "lock", "asleep"} => cur \in 1..numThreads_ /\ Len(loops_) = cur - 1
  /\ main \in {"destroy", "gone"} => cur \in 1..(Len(loops_) + 1)
  /\ main = "join" => cur \in 1..Len(loops_)
  /\ Len(loops_) <= MaxThreads

(* Exactly the threads that start() has come to exist. *)
Made == \A i \in Threads : worker[i] = "none" <=> i > Reached

(* loop_ is set from its publication until its thread or the destructor     *)
(* resets it, and the latter then joins that thread.                        *)
Published ==
  \A i \in Threads :
    /\ loop_[i] => worker[i] \in {"enter", "looping", "ended"}
    /\ worker[i] \in {"enter", "looping", "ended"} =>
         loop_[i] \/ (main = "join" /\ cur = i)

(* A thread that has passed its callback has called it. *)
Inited ==
  \A i \in Threads : worker[i] \notin {"none", "born", "func"} /\ callback => i \in inited

(* The loops up to next_ have been given once more than the last one. *)
Turn ==
  /\ Starting \/ main = "new" => next_ = 0 /\ given = [i \in 0..MaxThreads |-> 0]
  /\ \A j \in DOMAIN loops_ :
       given[j] = given[Len(loops_)] + (IF j <= next_ THEN 1 ELSE 0)

Inv ==
  TypeOK /\ Progress /\ Made /\ Published /\ Inited /\ LoopsAreComplete
    /\ DestroyedAfterLoop /\ Turn

LEMMA InitInv == Init => Inv
<1> SUFFICES ASSUME Init PROVE Inv
  OBVIOUS
<1>1. TypeOK
  BY InitTypeOK
<1>2. Progress /\ Turn /\ LoopsAreComplete
  BY MaxAssumption, EmptySeq DEF Init, Progress, Starting, Turn, LoopsAreComplete
<1>3. Made
  BY MaxAssumption DEF Init, Made, Reached, Starting, Threads
<1>4. Published /\ Inited /\ DestroyedAfterLoop
  BY DEF Init, Published, Inited, DestroyedAfterLoop, Passed
<1>5. QED
  BY <1>1, <1>2, <1>3, <1>4 DEF Inv

LEMMA WorkerInv ==
  ASSUME Inv, NEW i \in Threads, Worker(i) \/ Quit(i)
  PROVE  Inv'
<1>1. TypeOK'
  BY WorkerTypeOK DEF Inv
<1>2. /\ UNCHANGED <<numThreads_, callback, cur, loops_, next_, given>>
      /\ main' \in {main, "lock"} /\ (main' # main => main = "asleep")
      /\ inited \subseteq inited'
      /\ \A k \in Threads : k # i => worker'[k] = worker[k] /\ loop_'[k] = loop_[k]
  BY DEF Inv, TypeOK, Worker, Quit, At, Born, MakeLoop, Publish, EnterLoop, LoopReturn, Clear,
         End, poolVars, mainVars
<1>3. \/ worker'[i] = worker[i] /\ loop_'[i] = loop_[i]
      \/ worker[i] = "born" /\ worker'[i] = "func" /\ loop_'[i] = loop_[i]
      \/ worker[i] = "func" /\ worker'[i] = "publish" /\ loop_'[i] = loop_[i]
           /\ (callback => i \in inited')
      \/ worker[i] = "publish" /\ worker'[i] = "enter" /\ loop_'[i]
      \/ worker[i] = "enter" /\ worker'[i] = "looping" /\ loop_'[i] = loop_[i]
      \/ worker[i] = "looping" /\ worker'[i] = "ended" /\ loop_'[i] = loop_[i]
      \/ worker[i] = "ended" /\ worker'[i] = "cleared" /\ ~loop_'[i]
      \/ worker[i] = "cleared" /\ worker'[i] = "done" /\ loop_'[i] = loop_[i]
  BY DEF Inv, TypeOK, Worker, Quit, At, Born, MakeLoop, Publish, EnterLoop, LoopReturn, Clear,
         End, poolVars, mainVars
<1>4. Progress' /\ Turn'
  BY <1>2 DEF Inv, Progress, Turn, Starting
<1>5. Made'
  BY <1>2, <1>3 DEF Inv, Made, Reached, Starting
<1>6. Published' /\ Inited'
  BY <1>2, <1>3 DEF Inv, Published, Inited
<1>7. DestroyedAfterLoop'
  BY <1>2, <1>3 DEF Inv, DestroyedAfterLoop, Passed
<1>8. LoopsAreComplete'
  <2> SUFFICES ASSUME NEW k \in DOMAIN loops_
               PROVE  /\ loops_[k] = k
                      /\ worker'[k] \notin {"none", "born", "func", "publish"}
                      /\ callback => k \in inited'
    BY <1>2 DEF LoopsAreComplete
  <2>1. k \in Threads /\ loops_[k] = k /\ (callback => k \in inited)
        /\ worker[k] \notin {"none", "born", "func", "publish"}
    BY ElementOfSeq DEF Inv, TypeOK, LoopsAreComplete
  <2>2. QED
    BY <2>1, <1>2, <1>3
<1>9. QED
  BY <1>1, <1>4, <1>5, <1>6, <1>7, <1>8 DEF Inv

-----------------------------------------------------------------------------
(* start(), getNextLoop and the destructor.                                 *)

(* What a step that leaves threads and loops_ alone has to keep. *)
LEMMA MainInv ==
  ASSUME Inv, TypeOK', Progress', Turn', Reached' = Reached, DestroyedAfterLoop',
         UNCHANGED <<callback, worker, loops_>>, inited \subseteq inited',
         Published'
  PROVE  Inv'
BY DEF Inv, Made, Inited, LoopsAreComplete

LEMMA StartInv ==
  ASSUME Inv, Start \/ InStart \/ SpuriousWakeup
  PROVE  Inv'
<1> USE DEF Points, poolVars, Starting
<1>0. MaxThreads \in Nat /\ numThreads_ \in 0..MaxThreads /\ loops_ \in Seq(Threads)
      /\ Len(loops_) \in Nat
  BY MaxAssumption DEF Inv, TypeOK
<1>1. CASE StartNext
  <2>1. /\ cur' = cur + 1 /\ main = "start" /\ main' = "sem" /\ cur + 1 \in 1..numThreads_
        /\ cur + 1 \in Threads
        /\ worker' = [worker EXCEPT ![cur + 1] = "born"] /\ worker[cur + 1] = "none"
        /\ UNCHANGED <<numThreads_, callback, loops_, next_, given, inited, loop_, quit_>>
    BY <1>0, <1>1, MaxAssumption DEF StartNext, Inv, Progress, Made, Reached, Threads
  <2>2. TypeOK'
    BY <1>0, <2>1, MaxAssumption DEF Inv, TypeOK, WorkerPoints
  <2>3. Progress' /\ Turn'
    BY <1>0, <2>1 DEF Inv, Progress, Turn
  <2>4. Made'
    BY <1>0, <2>1 DEF Inv, TypeOK, Made, Reached, Threads
  <2>5. Published' /\ Inited' /\ DestroyedAfterLoop'
    BY <2>1 DEF Inv, TypeOK, Published, Inited, DestroyedAfterLoop, Passed
  <2>6. LoopsAreComplete'
    <3>1. cur + 1 \notin DOMAIN loops_
      BY <1>0, <2>1 DEF Inv, Progress
    <3>2. DOMAIN loops_ \subseteq Threads
      BY ElementOfSeq, <1>0 DEF Inv, LoopsAreComplete
    <3>3. QED
      BY <2>1, <3>1, <3>2 DEF Inv, TypeOK, LoopsAreComplete
  <2>7. QED
    BY <2>2, <2>3, <2>4, <2>5, <2>6 DEF Inv
<1>2. CASE SemWait \/ SpuriousWakeup
  <2>1. /\ main \in {"sem", "asleep"} /\ main' = "lock"
        /\ UNCHANGED <<numThreads_, callback, cur, loops_, next_, given, worker, inited, loop_,
                       quit_>>
    BY <1>2 DEF SemWait, SpuriousWakeup
  <2>2. TypeOK' /\ Progress' /\ Turn' /\ Reached' = Reached /\ DestroyedAfterLoop' /\ Published'
    BY <2>1 DEF Inv, TypeOK, Progress, Turn, Reached, DestroyedAfterLoop, Passed, Published
  <2>3. QED
    BY <2>1, <2>2, MainInv
<1>3. CASE StartLoop
  <2>1. CASE ~loop_[cur]
    <3>1. /\ main = "lock" /\ main' = "asleep"
          /\ UNCHANGED <<numThreads_, callback, cur, loops_, next_, given, worker, inited,
                         loop_, quit_>>
      BY <1>3, <2>1 DEF StartLoop
    <3>2. TypeOK' /\ Progress' /\ Turn' /\ Reached' = Reached /\ DestroyedAfterLoop'
          /\ Published'
      BY <3>1 DEF Inv, TypeOK, Progress, Turn, Reached, DestroyedAfterLoop, Passed, Published
    <3>3. QED
      BY <3>1, <3>2, MainInv
  <2>2. CASE loop_[cur]
    <3>1. /\ main = "lock" /\ main' = "start" /\ loops_' = Append(loops_, cur)
          /\ UNCHANGED <<numThreads_, callback, cur, next_, given, worker, inited, loop_, quit_>>
      BY <1>3, <2>2 DEF StartLoop
    <3>2. cur \in 1..numThreads_ /\ cur \in Threads /\ Len(loops_) = cur - 1
      BY <1>0, <3>1 DEF Inv, Progress, Threads
    <3>3. /\ loops_' \in Seq(Threads) /\ Len(loops_') = cur /\ DOMAIN loops_' = 1..cur
          /\ DOMAIN loops_ = 1..(cur - 1)
          /\ \A k \in 1..cur : loops_'[k] = IF k = cur THEN cur ELSE loops_[k]
      BY <1>0, <3>1, <3>2, AppendProperties
    <3>4. worker[cur] \in {"enter", "looping", "ended"} /\ (callback => cur \in inited)
      BY <2>2, <3>2 DEF Inv, Published, Inited
    <3>5. TypeOK' /\ Progress'
      BY <1>0, <3>1, <3>2, <3>3 DEF Inv, TypeOK, Progress, Turn
    <3>6. Made' /\ Inited' /\ DestroyedAfterLoop' /\ Published'
      BY <3>1 DEF Inv, Made, Reached, Inited, DestroyedAfterLoop, Passed, Published
    <3>7. LoopsAreComplete'
      BY <3>1, <3>2, <3>3, <3>4 DEF Inv, LoopsAreComplete
    <3>8. Turn'
      BY <1>0, <3>1, <3>2, <3>3 DEF Inv, Turn, Threads
    <3>9. QED
      BY <3>5, <3>6, <3>7, <3>8 DEF Inv
  <2>3. QED
    BY <2>1, <2>2
<1>4. CASE StartDone
  <2>1. /\ main = "start" /\ main' = "ready" /\ cur = numThreads_
        /\ inited \subseteq inited' /\ inited' \subseteq inited \cup {0}
        /\ UNCHANGED <<numThreads_, callback, cur, loops_, next_, given, worker, loop_, quit_>>
    BY <1>4 DEF StartDone
  <2>2. TypeOK' /\ Progress' /\ Turn' /\ Reached' = Reached /\ DestroyedAfterLoop' /\ Published'
    BY <1>0, <2>1 DEF Inv, TypeOK, Progress, Turn, Reached, DestroyedAfterLoop, Passed, Published
  <2>3. QED
    BY <2>1, <2>2, MainInv
<1>5. CASE Start
  <2>1. /\ main = "new" /\ main' = "start" /\ callback' \in BOOLEAN
        /\ UNCHANGED <<numThreads_, cur, loops_, next_, given, worker, inited, loop_, quit_>>
    BY <1>5 DEF Start
  <2>2. TypeOK' /\ Progress' /\ Turn'
    BY <1>0, <2>1 DEF Inv, TypeOK, Progress, Turn
  <2>3. Made' /\ DestroyedAfterLoop' /\ Published'
    BY <1>0, <2>1 DEF Inv, Progress, Made, Reached, DestroyedAfterLoop, Passed, Published
  <2>4. Inited' /\ LoopsAreComplete'
    <3>1. \A i \in Threads : worker[i] = "none"
      BY <1>0, <2>1 DEF Inv, Progress, Made, Reached, Threads
    <3>2. DOMAIN loops_ = {}
      BY <1>0, <2>1 DEF Inv, Progress
    <3>3. QED
      BY <2>1, <3>1, <3>2 DEF Inited, LoopsAreComplete
  <2>5. QED
    BY <2>2, <2>3, <2>4 DEF Inv
<1>6. QED
  BY <1>1, <1>2, <1>3, <1>4, <1>5 DEF InStart

LEMMA SetThreadNumInv ==
  ASSUME Inv, NEW n \in 0..MaxThreads, SetThreadNum(n)
  PROVE  Inv'
<1>1. /\ main \in {"new", "ready"} /\ numThreads_' = n
      /\ UNCHANGED <<callback, main, cur, loops_, next_, given, worker, inited, loop_, quit_>>
  BY DEF SetThreadNum, mainVars
<1>2. TypeOK' /\ Progress' /\ Turn' /\ Reached' = Reached /\ DestroyedAfterLoop' /\ Published'
  BY <1>1 DEF Inv, TypeOK, Progress, Starting, Turn, Reached, DestroyedAfterLoop, Passed,
              Published
<1>3. QED
  BY <1>1, <1>2, MainInv

(* The next loop is the one after the last: 1 after Len(loops_), and 0, for *)
(* baseLoop_, when there are none.                                          *)
LEMMA NextLoopIs ==
  ASSUME Inv
  PROVE  IF loops_ = <<>> THEN NextLoop = 0 /\ next_ = 0
         ELSE next_ + 1 \in DOMAIN loops_ /\ NextLoop = next_ + 1
<1>1. /\ loops_ \in Seq(Threads) /\ next_ \in Nat /\ (next_ = 0 \/ next_ < Len(loops_))
      /\ Len(loops_) \in Nat /\ DOMAIN loops_ = 1..Len(loops_)
      /\ (loops_ = <<>> <=> Len(loops_) = 0)
  BY EmptySeq DEF Inv, TypeOK
<1>2. QED
  BY <1>1 DEF Inv, LoopsAreComplete, NextLoop

LEMMA GetNextLoopInv ==
  ASSUME Inv, GetNextLoop
  PROVE  Inv'
<1>1. /\ main = "ready" /\ given[NextLoop] < MaxNext
      /\ given' = [given EXCEPT ![NextLoop] = @ + 1]
      /\ next_' = IF next_ + 1 >= Len(loops_) THEN 0 ELSE next_ + 1
      /\ UNCHANGED <<numThreads_, callback, main, cur, loops_, worker, inited, loop_, quit_>>
  BY DEF GetNextLoop, poolVars
<1>2. /\ loops_ \in Seq(Threads) /\ next_ \in Nat /\ Len(loops_) \in 0..MaxThreads
      /\ DOMAIN loops_ = 1..Len(loops_)
      /\ given \in [0..MaxThreads -> 0..MaxNext] /\ MaxNext \in Nat /\ MaxThreads \in Nat
      /\ (loops_ = <<>> <=> Len(loops_) = 0)
  BY <1>1, MaxAssumption, EmptySeq DEF Inv, TypeOK, Progress, Starting
<1>3. NextLoop \in 0..MaxThreads
  BY <1>2, NextLoopIs
<1>4. given' \in [0..MaxThreads -> 0..MaxNext] /\ next_' \in Nat
      /\ (next_' = 0 \/ next_' < Len(loops_))
  BY <1>1, <1>2, <1>3
<1>5. TypeOK'
  BY <1>1, <1>4 DEF Inv, TypeOK
<1>6. Turn'
  <2> SUFFICES ASSUME NEW j \in DOMAIN loops_
               PROVE  given'[j] = given'[Len(loops_)] + (IF j <= next_' THEN 1 ELSE 0)
    BY <1>1 DEF Turn, Starting
  <2> DEFINE n == Len(loops_)
  <2>0. j \in 1..n /\ n \in 0..MaxThreads
    BY <1>2
  <2>1. n \in 1..MaxThreads /\ j \in 1..n /\ loops_ # <<>>
    BY <1>2, <2>0
  <2>2. next_ + 1 \in 1..n /\ given' = [given EXCEPT ![next_ + 1] = @ + 1]
    <3>1. next_ + 1 \in DOMAIN loops_ /\ NextLoop = next_ + 1
      BY <2>1, NextLoopIs
    <3>2. QED
      BY <1>1, <1>2, <3>1
  <2>3. \A k \in 1..n : k \in 0..MaxThreads /\ given[k] \in Nat
    BY <1>2, <2>1
  <2>4. \A k \in 1..n : given[k] = given[n] + (IF k <= next_ THEN 1 ELSE 0)
    BY <1>2 DEF Inv, Turn
  <2>10. n = Len(loops_) /\ next_' = IF next_ + 1 >= n THEN 0 ELSE next_ + 1
    BY <1>1
  <2> HIDE DEF n
  <2>5. \A k \in 1..n : given'[k] = IF k = next_ + 1 THEN given[k] + 1 ELSE given[k]
    BY <1>2, <2>2, <2>3
  <2>6. CASE next_ + 1 = n
    <3>1. next_' = 0 /\ given[n] \in Nat /\ given'[n] = given[n] + 1
      BY <2>10, <1>2, <2>1, <2>3, <2>5, <2>6
    <3>2. given'[j] = given[n] + 1
      <4>1. CASE j = n
        BY <3>1, <4>1
      <4>2. CASE j # n
        <5>1. j <= next_ /\ j # next_ + 1
          <6>1. j \in Int /\ n \in Int /\ next_ \in Int /\ j <= n
            BY <1>2, <2>1
          <6>2. QED
            BY <2>6, <4>2, <6>1
        <5>2. given[j] = given[n] + 1 /\ given'[j] = given[j]
          BY <2>1, <2>4, <2>5, <5>1
        <5>3. QED
          BY <5>2
      <4>3. QED
        BY <4>1, <4>2
    <3>3. QED
      BY <2>10, <2>1, <3>1, <3>2
  <2>7. CASE next_ + 1 < n
    <3>1. next_' = next_ + 1 /\ given[n] \in Nat /\ given'[n] = given[n]
      BY <2>10, <1>2, <2>1, <2>3, <2>5, <2>7
    <3>2. given'[j] = given[n] + (IF j <= next_ + 1 THEN 1 ELSE 0)
      BY <1>2, <2>1, <2>3, <2>4, <2>5, <2>7, <3>1
    <3>3. QED
      BY <2>10, <2>1, <3>1, <3>2
  <2>8. next_ + 1 = n \/ next_ + 1 < n
    BY <1>2, <2>1, <2>2
  <2>9. QED
    BY <2>6, <2>7, <2>8
<1>7. Progress' /\ Reached' = Reached /\ DestroyedAfterLoop' /\ Published'
  BY <1>1 DEF Inv, Progress, Reached, Starting, DestroyedAfterLoop, Passed, Published
<1>8. QED
  BY <1>1, <1>5, <1>6, <1>7, MainInv

LEMMA DestroyInv ==
  ASSUME Inv, Destroy \/ InDestructor
  PROVE  Inv'
<1> USE DEF Points, poolVars, Starting
<1>0. MaxThreads \in Nat /\ numThreads_ \in 0..MaxThreads /\ Len(loops_) \in Nat
      /\ cur \in 0..(MaxThreads + 1)
  BY MaxAssumption DEF Inv, TypeOK
<1>1. CASE Destroy
  <2>1. /\ main = "ready" /\ main' = "destroy" /\ cur' = 1
        /\ UNCHANGED <<numThreads_, callback, loops_, next_, given, worker, inited, loop_, quit_>>
    BY <1>1 DEF Destroy
  <2>2. TypeOK' /\ Progress' /\ Turn' /\ Reached' = Reached
    BY <1>0, <2>1 DEF Inv, TypeOK, Progress, Turn, Reached
  <2>3. DestroyedAfterLoop' /\ Published'
    BY <2>1 DEF Inv, DestroyedAfterLoop, Passed, Published, Threads
  <2>4. QED
    BY <2>1, <2>2, <2>3, MainInv
<1>2. CASE Destructor
  <2>1. /\ main = "destroy" /\ cur <= Len(loops_) /\ cur \in Threads /\ cur \in DOMAIN loops_
    BY <1>0, <1>2 DEF Destructor, Inv, TypeOK, Progress, Threads
  <2>2. worker[cur] \notin {"none", "born", "func", "publish"} /\ worker[cur] \in WorkerPoints
    BY <2>1 DEF Inv, LoopsAreComplete, TypeOK
  <2>3. CASE loop_[cur]
    <3>1. /\ loop_' = [loop_ EXCEPT ![cur] = FALSE] /\ main' = "join"
          /\ UNCHANGED <<numThreads_, callback, cur, loops_, next_, given, worker, inited, quit_>>
      BY <1>2, <2>3 DEF Destructor
    <3>2. TypeOK' /\ Progress' /\ Turn' /\ Reached' = Reached
      BY <1>0, <2>1, <3>1 DEF Inv, TypeOK, Progress, Turn, Reached
    <3>3. DestroyedAfterLoop' /\ Published'
      BY <2>1, <3>1 DEF Inv, TypeOK, DestroyedAfterLoop, Passed, Published
    <3>4. QED
      BY <3>1, <3>2, <3>3, MainInv
  <2>4. CASE ~loop_[cur]
    <3>1. /\ cur' = cur + 1
          /\ UNCHANGED <<numThreads_, callback, main, loops_, next_, given, worker, inited, loop_,
                         quit_>>
      BY <1>2, <2>4 DEF Destructor
    <3>2. cur + 1 \in 0..(MaxThreads + 1) /\ cur + 1 \in 1..(Len(loops_) + 1)
      BY <1>0, <2>1 DEF Inv, Progress
    <3>7. TypeOK'
      BY <3>1, <3>2 DEF Inv, TypeOK
    <3>8. Progress' /\ Turn' /\ Reached' = Reached
      BY <2>1, <3>1, <3>2 DEF Inv, Progress, Turn, Reached, Destructor
    <3>3. worker[cur] \in {"cleared", "done"}
      BY <2>1, <2>2, <2>4 DEF Inv, Published, WorkerPoints
    <3>4. DestroyedAfterLoop'
      BY <1>0, <2>1, <3>1, <3>3 DEF Inv, DestroyedAfterLoop, Passed, Threads
    <3>5. Published'
      BY <2>1, <3>1 DEF Inv, Published
    <3>6. QED
      BY <3>1, <3>7, <3>8, <3>4, <3>5, MainInv
  <2>5. QED
    BY <2>3, <2>4
<1>3. CASE Join
  <2>1. /\ main = "join" /\ worker[cur] = "done" /\ main' = "destroy" /\ cur' = cur + 1
        /\ UNCHANGED <<numThreads_, callback, loops_, next_, given, worker, inited, loop_, quit_>>
        /\ cur \in 1..Len(loops_) /\ Len(loops_) <= MaxThreads
    BY <1>3 DEF Join, Inv, Progress
  <2>2. TypeOK' /\ Progress' /\ Turn' /\ Reached' = Reached
    BY <1>0, <2>1 DEF Inv, TypeOK, Progress, Turn, Reached
  <2>3. DestroyedAfterLoop'
    BY <1>0, <2>1 DEF Inv, DestroyedAfterLoop, Passed, Threads
  <2>4. Published'
    BY <2>1 DEF Inv, Published
  <2>5. QED
    BY <2>1, <2>2, <2>3, <2>4, MainInv
<1>4. CASE Destroyed
  <2>1. /\ main = "destroy" /\ main' = "gone"
        /\ UNCHANGED <<numThreads_, callback, cur, loops_, next_, given, worker, inited, loop_,
                       quit_>>
    BY <1>4 DEF Destroyed
  <2>2. TypeOK' /\ Progress' /\ Turn' /\ Reached' = Reached /\ DestroyedAfterLoop' /\ Published'
    BY <1>0, <2>1 DEF Inv, TypeOK, Progress, Turn, Reached, DestroyedAfterLoop, Passed, Published
  <2>3. QED
    BY <2>1, <2>2, MainInv
<1>5. QED
  BY <1>1, <1>2, <1>3, <1>4 DEF InDestructor

LEMMA NextInv == Inv /\ [Next]_vars => Inv'
<1>1. ASSUME Inv, UNCHANGED vars
      PROVE  Inv'
  <2> USE <1>1 DEF vars, poolVars, mainVars
  <2>1. TypeOK' /\ Progress' /\ Turn' /\ Reached' = Reached /\ DestroyedAfterLoop' /\ Published'
    BY DEF Inv, TypeOK, Progress, Starting, Turn, Reached, DestroyedAfterLoop, Passed, Published
  <2>2. QED
    BY <2>1, MainInv
<1>2. QED
  BY <1>1, WorkerInv, SetThreadNumInv, StartInv, GetNextLoopInv, DestroyInv DEF Next

LEMMA InvHolds == Spec => []Inv
BY InitInv, NextInv, PTL DEF Spec

-----------------------------------------------------------------------------
(* The results.                                                             *)

(* Every variable keeps its type; next_ is 0 or the number of a loop that   *)
(* there is (EventLoopThreadPool.cc:54-67).                                 *)
THEOREM TypeCorrect == Spec => []TypeOK
BY InvHolds, PTL DEF Inv

(* The pool holds the loop of each thread, in the order in which they were  *)
(* started, only after its thread has constructed it and its callback has   *)
(* returned, whatever the threads' order and whoever calls quit().          *)
THEOREM LoopsComplete == Spec => []LoopsAreComplete
BY InvHolds, PTL DEF Inv

LEMMA TurnIsRound == Inv => RoundRobin
<1> SUFFICES ASSUME Inv, NEW j \in DOMAIN loops_, NEW k \in DOMAIN loops_, j < k
             PROVE  given[j] - given[k] \in {0, 1}
  BY DEF RoundRobin
<1>1. j \in 0..MaxThreads /\ k \in 0..MaxThreads /\ Len(loops_) \in 0..MaxThreads
      /\ next_ \in Nat /\ given \in [0..MaxThreads -> 0..MaxNext] /\ MaxNext \in Nat
  BY MaxAssumption DEF Inv, TypeOK, Progress, Starting, Points
<1>2. /\ given[j] = given[Len(loops_)] + (IF j <= next_ THEN 1 ELSE 0)
      /\ given[k] = given[Len(loops_)] + (IF k <= next_ THEN 1 ELSE 0)
  BY DEF Inv, Turn
<1>3. QED
  BY <1>1, <1>2

(* getNextLoop gives the loops out evenly, for any number of them and of    *)
(* calls.                                                                   *)
THEOREM Fair == Spec => []RoundRobin
BY InvHolds, TurnIsRound, PTL

(* The destructor leaves no thread behind that is still in loop().          *)
THEOREM DestroyedAfter == Spec => []DestroyedAfterLoop
BY InvHolds, PTL DEF Inv
=============================================================================

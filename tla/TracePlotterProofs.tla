--------------------------- MODULE TracePlotterProofs ---------------------------
(***************************************************************************)
(* What the trace plotter's loader, its pool of downloading goroutines and *)
(* its charts do for any spans, page sizes and number of goroutines.       *)
(***************************************************************************)
EXTENDS TracePlotter, FiniteSetTheorems, SequenceTheorems, WellFoundedInduction, TLAPS

Early == {"search", "scroll", "parse", "mkdir"}
Busy == {"claimed", "create", "copy"}

(* The pages read so far are the spans returned so far. *)
Loading ==
  /\ stored \in Seq(Range(stored))
  /\ flags \in [pageSize : Nat \ {0}, download : BOOLEAN, skipPlotting : BOOLEAN]
  /\ returned \in 0..Len(stored)
  /\ LoadsAll

(* The roots, once they are known. *)
Ordered ==
  /\ pc \in {"search", "scroll"} => e2e = <<>>
  /\ e2e \in Seq(DOMAIN traces)

(* Goroutines run only while main() waits, and the WaitGroup counts those  *)
(* that have not ended.                                                    *)
Pool ==
  /\ pc \in Early \cup {"wait", "plot", "graphs", "done", "panic"}
  /\ worker \in [Thread -> Stages]
  /\ at \in [Thread -> Nat]
  /\ index \in Nat
  /\ mutex \in Thread \cup {Nil}
  /\ pc \in Early => /\ index = 0 /\ mutex = Nil /\ saved = {}
                     /\ \A t \in Thread : worker[t] = "none"
  /\ pc \in {"mkdir", "wait"} => flags.download
  /\ pc = "wait" => /\ wg = Cardinality({t \in Thread : worker[t] # "ended"})
                    /\ \A t \in Thread : worker[t] # "none"
  /\ pc \notin Early \cup {"wait"} => \A t \in Thread : worker[t] \in {"none", "ended"}
  /\ pc \in {"plot", "graphs", "done"} /\ flags.download => \A t \in Thread : worker[t] = "ended"

(* Who holds the lock has read the index; who has released it is at a      *)
(* root that no other goroutine is at and that the index has passed.       *)
Claims ==
  /\ \A t \in Thread : worker[t] = "unlock" => mutex = t /\ at[t] = index
  /\ \A t \in Thread : worker[t] \in Busy => at[t] < index
  /\ \A t, u \in Thread :
       worker[t] \in Busy /\ worker[u] \in Busy /\ at[t] = at[u] => t = u
  /\ \A t \in Thread : worker[t] \in {"create", "copy"} => at[t] < Len(e2e)
  /\ \A t \in Thread : worker[t] = "ended" => Len(e2e) < index

(* A root has been tried once the index has passed it, unless a goroutine  *)
(* has yet to begin.                                                       *)
Tried ==
  /\ tries \in [DOMAIN tries -> {0, 1}]
  /\ pc \in {"wait", "plot", "graphs", "done"} /\ flags.download => DOMAIN tries = DOMAIN e2e
  /\ \A k \in DOMAIN tries :
       tries[k] = 1 <=>
         k <= index /\ \A t \in Thread : worker[t] = "claimed" => at[t] # k - 1

(* The trace of the k-th root, and whether no other root shares it. *)
RootTrace(k) == traces[e2e[k]].trace
Alone(k) == \A j \in DOMAIN e2e : RootTrace(j) = RootTrace(k) => j = k

(* A goroutine that copies has created the file last, and nobody is at a   *)
(* root that was saved, if no other root has its trace id.                 *)
Kept ==
  /\ file = [d \in DOMAIN file |-> file[d]]
  /\ creator = [d \in DOMAIN creator |-> creator[d]]
  /\ pc = "wait" => DOMAIN file = TraceIds /\ DOMAIN creator = TraceIds
  /\ \A t \in Thread :
       worker[t] = "copy" /\ Alone(at[t] + 1) => creator[RootTrace(at[t] + 1)] = t
  /\ \A k \in DOMAIN e2e :
       RootTrace(k) \in saved /\ Alone(k) =>
         /\ file[RootTrace(k)] = "whole"
         /\ k <= index
         /\ \A t \in Thread : worker[t] \in Busy => at[t] # k - 1

IInv == Loading /\ Ordered /\ Pool /\ Claims /\ Tried /\ Kept

-------------------------------------------------------------------------------
(* The page behind what was returned extends it to a longer beginning of   *)
(* what is stored, and is empty only at its end.                           *)
LEMMA NextPage ==
  ASSUME Loading
  PROVE  LET n == returned + Len(Page(returned)) IN
         /\ n \in 0..Len(stored)
         /\ SubSeq(stored, 1, returned) \o Page(returned) = SubSeq(stored, 1, n)
         /\ LastPage(Page(returned)) => SubSeq(stored, 1, n) = stored
<1> DEFINE m == IF EndOf(returned) < Len(stored) THEN EndOf(returned) ELSE Len(stored)
<1>1. /\ stored \in Seq(Range(stored)) /\ returned \in 0..Len(stored)
      /\ Len(stored) \in Nat /\ flags.pageSize \in Nat \ {0}
  BY LenProperties DEF Loading
<1>2. /\ m \in returned..Len(stored)
      /\ m = returned => returned = Len(stored)
  BY <1>1 DEF EndOf
<1>3. Page(returned) = SubSeq(stored, returned + 1, m)
  BY DEF Page
<1> HIDE DEF m
<1>4. SubSeq(stored, 1, returned) \o SubSeq(stored, returned + 1, m) = SubSeq(stored, 1, m)
  BY <1>1, <1>2, ConcatAdjacentSubSeq
<1>5. \A k \in (returned + 1)..m : stored[k] \in Range(stored)
  BY <1>1, <1>2, ElementOfSeq
<1>6. Len(SubSeq(stored, returned + 1, m)) = m - returned
  BY <1>1, <1>2, <1>5, SubSeqProperties
<1>7. SubSeq(stored, 1, Len(stored)) = stored
  BY <1>1, SubSeqFull
<1>8. CASE m = returned
  BY <1>1, <1>2, <1>3, <1>4, <1>6, <1>7, <1>8
<1>9. CASE m # returned
  <2>1. SubSeq(stored, returned + 1, m) # <<>>
    BY <1>1, <1>2, <1>6, <1>9
  <2>2. returned + Len(Page(returned)) = m
    BY <1>1, <1>2, <1>3, <1>6
  <2>3. ~LastPage(Page(returned))
    BY <1>3, <2>1 DEF LastPage
  <2>4. m \in 0..Len(stored)
    BY <1>1, <1>2
  <2>5. SubSeq(stored, 1, returned) \o Page(returned) = SubSeq(stored, 1, m)
    BY <1>3, <1>4
  <2> QED BY <2>2, <2>3, <2>4, <2>5
<1> QED BY <1>8, <1>9

(* Each page keeps what was loaded a beginning of what is stored.          *)
LEMMA LoadingStep == Loading /\ [Next]_vars => Loading'
<1> SUFFICES ASSUME Loading, [Next]_vars PROVE Loading'
  OBVIOUS
<1>1. CASE ReadPage
  <2> DEFINE n == returned + Len(Page(returned))
  <2>1. /\ n \in 0..Len(stored)
        /\ SubSeq(stored, 1, returned) \o Page(returned) = SubSeq(stored, 1, n)
        /\ LastPage(Page(returned)) => SubSeq(stored, 1, n) = stored
    BY NextPage
  <2>2. /\ traces' = SubSeq(stored, 1, n) /\ returned' = n
        /\ UNCHANGED <<flags, stored, failed>>
    BY <1>1, <2>1 DEF ReadPage, AppendHits, Loading, LoadsAll
  <2>3. pc' \notin {"search", "scroll", "panic"} => LastPage(Page(returned))
    BY <1>1 DEF ReadPage
  <2> QED BY <2>1, <2>2, <2>3 DEF Loading, LoadsAll
<1>2. CASE ReadFails
  BY <1>2 DEF ReadFails, Loading, LoadsAll, forest
<1>3. CASE ReadPanics \/ MkdirFails
  BY <1>3 DEF ReadPanics, MkdirFails, Loading, LoadsAll, forest, loading
<1>4. CASE ParseE2E \/ ParseSystem \/ Graphs \/ StartDownloads \/ Wait
  BY <1>4 DEF ParseE2E, ParseSystem, Graphs, StartDownloads, Wait, Loading, LoadsAll,
              forest, loading
<1>5. CASE \E t \in Thread : Download(t)
  BY <1>5 DEF Download, Lock, Unlock, Done, Get, CreateFails, Create, Copy, CopyFails,
              Loading, LoadsAll, mainParts, forest, loading
<1>6. CASE UNCHANGED vars
  BY <1>6 DEF vars, Loading, LoadsAll, forest, loading
<1> QED BY <1>1, <1>2, <1>3, <1>4, <1>5, <1>6 DEF Next, Main, Fault, Exited

(* The loaded spans form a sequence of which the roots are a part.         *)
LEMMA RootsFinite ==
  ASSUME Loading
  PROVE  /\ IsFiniteSet(Roots(traces))
         /\ Cardinality(Roots(traces)) \in Nat
         /\ Roots(traces) \subseteq DOMAIN traces
<1>1. stored \in Seq(Range(stored)) /\ returned \in 0..Len(stored) /\ Len(stored) \in Nat
  BY LenProperties DEF Loading
<1>2. \A k \in 1..returned : stored[k] \in Range(stored)
  BY <1>1, ElementOfSeq
<1>3. traces \in Seq(Range(stored))
  BY <1>1, <1>2, SubSeqProperties DEF Loading, LoadsAll
<1>4. DOMAIN traces = 1..Len(traces) /\ Len(traces) \in Nat
  BY <1>3, LenProperties
<1>5. IsFiniteSet(DOMAIN traces)
  BY <1>4, FS_Interval
<1>6. Roots(traces) \subseteq DOMAIN traces
  BY DEF Roots, Mapped
<1> QED BY <1>5, <1>6, FS_Subset, FS_CardinalityType

(* The order of the roots is a sequence of indices of the slice.           *)
LEMMA OrderedStep == Loading /\ Ordered /\ [Next]_vars => Ordered'
<1> SUFFICES ASSUME Loading, Ordered, [Next]_vars PROVE Ordered'
  OBVIOUS
<1>1. CASE ReadPage
  <2>1. e2e = <<>> /\ e2e' = e2e
    BY <1>1 DEF ReadPage, Ordered
  <2> QED BY <2>1, EmptySeq DEF Ordered
<1>2. CASE ParseE2E
  <2>1. PICK order \in SetToSeqs(Roots(traces)) : e2e' = order
    BY <1>2 DEF ParseE2E
  <2>2. order \in [1..Cardinality(Roots(traces)) -> Roots(traces)]
    BY DEF SetToSeqs
  <2>3. order \in Seq(Roots(traces))
    BY <2>2, RootsFinite, SeqDef
  <2>4. order \in Seq(DOMAIN traces)
    BY <2>3, RootsFinite, SeqMonotonic
  <2>5. traces' = traces /\ pc' \notin {"search", "scroll"}
    BY <1>2 DEF ParseE2E
  <2> QED BY <2>1, <2>4, <2>5 DEF Ordered
<1>3. CASE ReadFails \/ ReadPanics \/ MkdirFails
  BY <1>3 DEF ReadFails, ReadPanics, MkdirFails, Ordered, forest
<1>4. CASE ParseSystem \/ Graphs \/ StartDownloads \/ Wait
  BY <1>4 DEF ParseSystem, Graphs, StartDownloads, Wait, Ordered, forest
<1>5. CASE \E t \in Thread : Download(t)
  BY <1>5 DEF Download, Lock, Unlock, Done, Get, CreateFails, Create, Copy, CopyFails,
              Ordered, mainParts, forest
<1>6. CASE UNCHANGED vars
  BY <1>6 DEF vars, Ordered, forest
<1> QED BY <1>1, <1>2, <1>3, <1>4, <1>5, <1>6 DEF Next, Main, Fault, Exited

-------------------------------------------------------------------------------
(* The invariant holds before anything is loaded.                          *)
LEMMA InitIInv == Init => IInv
<1> SUFFICES ASSUME Init PROVE IInv
  OBVIOUS
<1>1. PICK s \in Settings : flags = s.flags /\ stored = s.stored
  BY DEF Init
<1>2. stored \in Seq(Range(stored)) /\ Len(stored) \in Nat
  BY <1>1, PlotterAssumption, LenProperties
<1>3. SubSeq(stored, 1, 0) = <<>>
  BY SubSeqEmpty
<1>4. Loading
  BY <1>1, <1>2, <1>3, PlotterAssumption DEF Init, Loading, LoadsAll
<1>5. Ordered
  BY EmptySeq DEF Init, Ordered
<1>6. Pool
  BY DEF Init, Pool, Early, Stages
<1>7. Claims
  BY DEF Init, Claims, Busy
<1>8. DOMAIN <<>> = {}
  OBVIOUS
<1>9. Tried
  BY <1>8 DEF Init, Tried
<1>10. Kept
  BY <1>8 DEF Init, Kept
<1> QED BY <1>4, <1>5, <1>6, <1>7, <1>9, <1>10 DEF IInv

(* A goroutine that runs finds main() waiting.                             *)
LEMMA RunningWhileWaiting ==
  ASSUME Pool, NEW t \in Thread, worker[t] \notin {"none", "ended"}
  PROVE  pc = "wait"
BY DEF Pool, Early

(* One action of main() or the environment leaves the pool alone, starts   *)
(* it or finds it ended.                                                   *)
LEMMA PoolMain == Pool /\ (Main \/ Fault \/ UNCHANGED vars) => Pool'
<1> SUFFICES ASSUME Pool, Main \/ Fault \/ UNCHANGED vars PROVE Pool'
  OBVIOUS
<1>1. CASE ReadPage \/ ReadFails \/ ReadPanics \/ MkdirFails
  BY <1>1 DEF ReadPage, ReadFails, ReadPanics, MkdirFails, Pool, Early, downloading, shared,
              files, loading
<1>2. CASE ParseE2E
  BY <1>2 DEF ParseE2E, Pool, Early, downloading, shared, files, loading
<1>3. CASE ParseSystem \/ Graphs
  BY <1>3 DEF ParseSystem, Graphs, Pool, Early, downloading, shared, files, loading
<1>4. CASE StartDownloads
  <2>1. flags.download
    BY <1>4 DEF StartDownloads, Pool
  <2>2. {t \in Thread : worker'[t] # "ended"} = Thread
    BY <1>4 DEF StartDownloads
  <2> QED BY <1>4, <2>1, <2>2 DEF StartDownloads, Pool, Early, Stages, loading
<1>5. CASE Wait
  <2> DEFINE W == {t \in Thread : worker[t] # "ended"}
  <2>1. IsFiniteSet(W) /\ Cardinality(W) = 0
    BY <1>5, PlotterAssumption, FS_Subset DEF Wait, Pool
  <2>2. W = {}
    BY <2>1, FS_EmptySet
  <2>3. \A t \in Thread : worker[t] = "ended"
    BY <2>2
  <2> QED BY <1>5, <2>3 DEF Wait, Pool, Early, downloading, shared, files, loading
<1>6. CASE UNCHANGED vars
  BY <1>6 DEF vars, Pool, downloading, shared, files, loading
<1> QED BY <1>1, <1>2, <1>3, <1>4, <1>5, <1>6 DEF Main, Fault

(* A goroutine that ends takes itself off the WaitGroup.                   *)
LEMMA PoolDownload ==
  ASSUME Pool, NEW t \in Thread, Download(t)
  PROVE  Pool'
<1> DEFINE W == {u \in Thread : worker[u] # "ended"}
<1>1. IsFiniteSet(W)
  BY PlotterAssumption, FS_Subset
<1>2. /\ worker[t] \notin {"none", "ended"}
      /\ UNCHANGED <<pc, flags>>
  BY DEF Download, Lock, Unlock, Done, Get, CreateFails, Create, Copy, CopyFails, mainParts, loading
<1>3. pc = "wait"
  BY <1>2, RunningWhileWaiting
<1>4. CASE Done(t)
  <2>1. worker' = [worker EXCEPT ![t] = "ended"] /\ wg' = wg - 1
        /\ UNCHANGED <<index, mutex, at, saved>>
    BY <1>4 DEF Done, Goto, WgDone, files
  <2>2. W' = W \ {t}
    BY <2>1, <1>2 DEF Pool
  <2>3. Cardinality(W') = Cardinality(W) - 1
    <3>1. t \in W
      BY <1>2
    <3> HIDE DEF W
    <3> QED BY <1>1, <2>2, <3>1, FS_RemoveElement
  <2> HIDE DEF W
  <2>4. wg' = Cardinality(W')
    BY <1>3, <2>1, <2>3 DEF Pool, W
  <2> QED BY <1>2, <1>3, <2>1, <2>4 DEF Pool, Early, Stages, W
<1>5. ASSUME UNCHANGED wg, NEW stage \in Stages \ {"none", "ended"}, Goto(t, stage),
             at' \in [Thread -> Nat], index' \in Nat, mutex' \in Thread \cup {Nil}
      PROVE  Pool'
  <2>1. worker' = [worker EXCEPT ![t] = stage]
    BY <1>5 DEF Goto
  <2>2. W' = W
    BY <2>1, <1>2, <1>5 DEF Pool
  <2> HIDE DEF W
  <2>3. wg' = Cardinality(W')
    BY <1>3, <1>5, <2>2 DEF Pool, W
  <2> QED BY <1>2, <1>3, <1>5, <2>1, <2>3 DEF Pool, Early, Stages, W
<1>6. CASE Lock(t)
  BY <1>5, <1>6 DEF Lock, Pool, Stages
<1>7. CASE Unlock(t)
  BY <1>5, <1>7 DEF Unlock, Pool, Stages
<1>8. CASE \E answered \in BOOLEAN : Get(t, answered)
  BY <1>5, <1>8 DEF Get, Pool, Stages, shared
<1>9. CASE CreateFails(t) \/ Create(t) \/ Copy(t) \/ CopyFails(t)
  BY <1>5, <1>9 DEF CreateFails, Create, Copy, CopyFails, Pool, Stages, shared
<1> QED BY <1>4, <1>6, <1>7, <1>8, <1>9 DEF Download

(* Only StartDownloads, outside the goroutines, touches what they share.   *)
LEMMA MainLeavesAlone ==
  ASSUME Pool, Main \/ Fault \/ UNCHANGED vars
  PROVE  /\ UNCHANGED <<index, mutex, at, saved>>
         /\ \/ UNCHANGED <<worker, tries, file, creator>>
            \/ StartDownloads
         /\ \/ UNCHANGED <<traces, e2e>>
            \/ pc \in {"search", "scroll", "parse"}
BY DEF Main, Fault, ReadPage, ReadFails, ReadPanics, MkdirFails, ParseE2E, ParseSystem, Graphs,
       StartDownloads, Wait, vars, downloading, shared, files, forest

(* Mutual exclusion gives every goroutine a root of its own.               *)
LEMMA ClaimsStep == Loading /\ Ordered /\ Pool /\ Claims /\ [Next]_vars => Claims'
<1> SUFFICES ASSUME Loading, Ordered, Pool, Claims, [Next]_vars PROVE Claims'
  OBVIOUS
<1>1. CASE Main \/ Fault \/ UNCHANGED vars
  <2>1. CASE StartDownloads
    BY <2>1, MainLeavesAlone DEF StartDownloads, Claims, Busy
  <2>2. CASE pc \in {"search", "scroll", "parse"} /\ ~StartDownloads
    BY <1>1, <2>2, MainLeavesAlone DEF Claims, Busy, Pool, Early
  <2>3. CASE pc \notin {"search", "scroll", "parse"} /\ ~StartDownloads
    BY <1>1, <2>3, MainLeavesAlone DEF Claims, Busy
  <2> QED BY <2>1, <2>2, <2>3
<1>2. ASSUME NEW t \in Thread, Download(t) PROVE Claims'
  <2>1. Len(e2e) \in Nat /\ e2e' = e2e
    BY <1>2, LenProperties DEF Ordered, Download, Lock, Unlock, Done, Get, CreateFails, Create,
                               Copy, CopyFails, mainParts
  <2>2. CASE Lock(t)
    BY <2>1, <2>2, PlotterAssumption DEF Lock, Goto, Free, Claims, Busy, Pool
  <2>3. CASE Unlock(t)
    BY <2>1, <2>3, PlotterAssumption DEF Unlock, Goto, Claims, Busy, Pool
  <2>4. CASE Done(t)
    BY <2>1, <2>4 DEF Done, Goto, PastEnd, Claims, Busy, Pool
  <2>5. CASE \E answered \in BOOLEAN : Get(t, answered)
    BY <2>1, <2>5 DEF Get, Goto, PastEnd, Claims, Busy, Pool, shared
  <2>6. CASE Create(t)
    BY <2>1, <2>6 DEF Create, Goto, Claims, Busy, Pool, shared
  <2>7. CASE CreateFails(t) \/ Copy(t) \/ CopyFails(t)
    BY <2>1, <2>7 DEF CreateFails, Copy, CopyFails, Goto, Claims, Busy, Pool, shared, files
  <2> QED BY <1>2, <2>2, <2>3, <2>4, <2>5, <2>6, <2>7 DEF Download
<1> QED BY <1>1, <1>2 DEF Next, Exited

(* A root is tried by the goroutine that has claimed it, and by no other.  *)
LEMMA TriedStep == Loading /\ Ordered /\ Pool /\ Claims /\ Tried /\ [Next]_vars => Tried'
<1> SUFFICES ASSUME Loading, Ordered, Pool, Claims, Tried, [Next]_vars PROVE Tried'
  OBVIOUS
<1>0. DOMAIN e2e = 1..Len(e2e) /\ Len(e2e) \in Nat
  BY LenProperties DEF Ordered
<1>1. CASE StartDownloads
  <2>1. \A k \in DOMAIN e2e : ~(k <= index)
    BY <1>0, <1>1 DEF StartDownloads, Pool, Early
  <2>2. /\ tries' = [k \in DOMAIN e2e |-> 0] /\ DOMAIN tries' = DOMAIN e2e
        /\ UNCHANGED <<e2e, index>>
    BY <1>1 DEF StartDownloads
  <2> QED BY <2>1, <2>2 DEF Tried
<1>2. CASE (Main \/ Fault \/ UNCHANGED vars) /\ ~StartDownloads
  <2>1. UNCHANGED <<tries, index, worker, at>>
    BY <1>2, MainLeavesAlone
  <2>2. /\ pc' \in {"wait", "plot", "graphs", "done"} /\ flags'.download
           => pc \in {"wait", "plot", "graphs", "done"} /\ flags.download /\ e2e' = e2e
    BY <1>2 DEF Main, Fault, ReadPage, ReadFails, ReadPanics, MkdirFails, ParseE2E, ParseSystem,
                Graphs, Wait, vars, loading
  <2> QED BY <2>1, <2>2 DEF Tried
<1>3. ASSUME NEW t \in Thread, Download(t) PROVE Tried'
  <2>1. UNCHANGED <<pc, flags, e2e>>
    BY <1>3 DEF Download, Lock, Unlock, Done, Get, CreateFails, Create, Copy, CopyFails,
                mainParts, loading
  <2>2. pc = "wait" /\ flags.download
    BY <1>3, RunningWhileWaiting
       DEF Pool, Download, Lock, Unlock, Done, Get, CreateFails, Create, Copy, CopyFails
  <2>3. DOMAIN tries = 1..Len(e2e)
    BY <1>0, <2>2 DEF Tried
  <2>4. CASE Unlock(t)
    <3>1. /\ worker' = [worker EXCEPT ![t] = "claimed"]
          /\ index' = index + 1 /\ at[t] = index
          /\ UNCHANGED <<at, tries>>
      BY <2>4 DEF Unlock, Goto, Claims, files
    <3>2. ASSUME NEW k \in DOMAIN tries
          PROVE  tries[k] = 1 <=>
                   k <= index' /\ \A u \in Thread : worker'[u] = "claimed" => at'[u] # k - 1
      <4>1. k \in 1..Len(e2e) /\ index \in Nat
        BY <2>3 DEF Pool
      <4>2. CASE k = index + 1
        BY <1>0, <3>1, <4>1, <4>2 DEF Tried, Pool
      <4>3. CASE k # index + 1
        BY <1>0, <2>4, <3>1, <4>1, <4>3 DEF Tried, Pool, Unlock
      <4> QED BY <4>2, <4>3
    <3> QED BY <2>1, <3>1, <3>2 DEF Tried
  <2>5. CASE \E answered \in BOOLEAN : Get(t, answered)
    <3>1. PICK stage \in {"create", "lock"} : worker' = [worker EXCEPT ![t] = stage]
      BY <2>5 DEF Get, Goto
    <3>2. /\ worker[t] = "claimed" /\ at[t] < index /\ at[t] < Len(e2e) /\ at[t] \in Nat
          /\ tries' = [tries EXCEPT ![at[t] + 1] = @ + 1]
          /\ UNCHANGED <<index, at>>
      BY <1>0, <2>5 DEF Get, PastEnd, Claims, Busy, Pool, shared
    <3>3. at[t] + 1 \in DOMAIN tries
      BY <1>0, <2>3, <3>2
    <3>4. tries[at[t] + 1] = 0
      BY <3>2, <3>3 DEF Tried
    <3>5. tries' \in [DOMAIN tries -> {0, 1}] /\ DOMAIN tries' = DOMAIN tries
          /\ tries'[at[t] + 1] = 1
          /\ \A k \in DOMAIN tries : k # at[t] + 1 => tries'[k] = tries[k]
      BY <3>2, <3>3, <3>4 DEF Tried
    <3>6. ASSUME NEW k \in DOMAIN tries
          PROVE  tries'[k] = 1 <=>
                   k <= index' /\ \A u \in Thread : worker'[u] = "claimed" => at'[u] # k - 1
      <4>1. k \in 1..Len(e2e) /\ index \in Nat
        BY <2>3 DEF Pool
      <4>2. CASE k = at[t] + 1
        <5>1. \A u \in Thread : worker'[u] = "claimed" => at'[u] # at[t]
          BY <3>1, <3>2 DEF Claims, Busy, Pool
        <5> QED BY <3>2, <3>5, <4>1, <4>2, <5>1
      <4>3. CASE k # at[t] + 1
        <5>1. at[t] # k - 1
          BY <3>2, <4>1, <4>3
        <5>2. \A u \in Thread : (worker'[u] = "claimed" /\ at'[u] = k - 1)
                                  <=> (worker[u] = "claimed" /\ at[u] = k - 1)
          BY <3>1, <3>2, <5>1 DEF Pool
        <5> QED BY <3>2, <3>5, <4>3, <5>2 DEF Tried
      <4> QED BY <4>2, <4>3
    <3> QED BY <2>1, <3>5, <3>6 DEF Tried
  <2>6. CASE Lock(t)
    <3>1. \A u \in Thread : /\ worker'[u] = "claimed" <=> worker[u] = "claimed"
                            /\ worker[u] = "claimed" => at'[u] = at[u]
      BY <2>6 DEF Lock, Goto, Pool
    <3>2. UNCHANGED <<tries, index>>
      BY <2>6 DEF Lock, files
    <3> QED BY <2>1, <3>1, <3>2 DEF Tried
  <2>7. CASE Done(t)
    <3>1. worker[t] = "claimed" /\ worker' = [worker EXCEPT ![t] = "ended"]
          /\ at[t] >= Len(e2e) /\ at[t] \in Nat
      BY <2>7 DEF Done, Goto, PastEnd, Pool
    <3>2. UNCHANGED <<tries, index, at>>
      BY <2>7 DEF Done, files
    <3>3. \A k \in DOMAIN tries : at[t] # k - 1
      BY <1>0, <2>3, <3>1
    <3>4. \A k \in DOMAIN tries, u \in Thread :
            (worker'[u] = "claimed" /\ at'[u] = k - 1) <=> (worker[u] = "claimed" /\ at[u] = k - 1)
      BY <3>1, <3>2, <3>3 DEF Pool
    <3> QED BY <2>1, <3>2, <3>4 DEF Tried
  <2>8. CASE CreateFails(t) \/ Create(t) \/ Copy(t) \/ CopyFails(t)
    <3>1. \A u \in Thread : worker'[u] = "claimed" <=> worker[u] = "claimed"
      BY <2>8 DEF CreateFails, Create, Copy, CopyFails, Goto, Pool
    <3>2. UNCHANGED <<tries, index, at>>
      BY <2>8 DEF CreateFails, Create, Copy, CopyFails, shared, files
    <3> QED BY <2>1, <3>1, <3>2 DEF Tried
  <2> QED BY <1>3, <2>4, <2>5, <2>6, <2>7, <2>8 DEF Download
<1> QED BY <1>1, <1>2, <1>3 DEF Next, Exited

(* Whoever is at a root of which no other shares the trace id has its file *)
(* for itself.                                                             *)
LEMMA KeptStep == Loading /\ Ordered /\ Pool /\ Claims /\ Kept /\ [Next]_vars => Kept'
<1> SUFFICES ASSUME Loading, Ordered, Pool, Claims, Kept, [Next]_vars PROVE Kept'
  OBVIOUS
<1>0. DOMAIN e2e = 1..Len(e2e) /\ Len(e2e) \in Nat
  BY LenProperties DEF Ordered
<1>1. CASE StartDownloads
  <2>1. /\ file' = [d \in TraceIds |-> "none"] /\ creator' = [d \in TraceIds |-> Nil]
        /\ UNCHANGED <<traces, e2e>> /\ saved' = {}
        /\ \A t \in Thread : worker'[t] = "lock"
    BY <1>1 DEF StartDownloads, Pool, Early, forest
  <2> QED BY <2>1 DEF Kept, TraceIds, RootTrace
<1>2. CASE (Main \/ Fault \/ UNCHANGED vars) /\ ~StartDownloads
  <2>1. UNCHANGED <<index, mutex, at, saved, worker, file, creator>>
    BY <1>2, MainLeavesAlone
  <2>2. CASE pc \in {"search", "scroll", "parse"}
    <3>1. saved = {} /\ pc' # "wait" /\ \A t \in Thread : worker[t] = "none"
      BY <1>2, <2>2 DEF Main, Fault, ReadPage, ReadFails, ReadPanics, MkdirFails, ParseE2E,
                        ParseSystem, Graphs, Wait, vars, Pool, Early
    <3> QED BY <2>1, <3>1 DEF Kept
  <2>3. CASE pc \notin {"search", "scroll", "parse"}
    <3>1. UNCHANGED <<traces, e2e>> /\ (pc' = "wait" => pc = "wait")
      BY <1>2, <2>3 DEF Main, Fault, ReadPage, ReadFails, ReadPanics, MkdirFails, ParseE2E,
                        ParseSystem, Graphs, Wait, vars, forest
    <3> QED BY <2>1, <3>1 DEF Kept, Alone, RootTrace, TraceIds
  <2> QED BY <2>2, <2>3
<1>3. ASSUME NEW t \in Thread, Download(t) PROVE Kept'
  <2>1. UNCHANGED <<pc, e2e, traces>>
    BY <1>3 DEF Download, Lock, Unlock, Done, Get, CreateFails, Create, Copy, CopyFails,
                mainParts, forest
  <2>2. pc = "wait"
    BY <1>3, RunningWhileWaiting
       DEF Pool, Download, Lock, Unlock, Done, Get, CreateFails, Create, Copy, CopyFails
  <2>3. DOMAIN file = TraceIds /\ DOMAIN creator = TraceIds
    BY <2>2 DEF Kept
  <2>4. \A k \in DOMAIN e2e : RootTrace(k) \in TraceIds
    BY ElementOfSeq DEF Ordered, RootTrace, TraceIds
  <2>5. /\ \A k : RootTrace(k)' = RootTrace(k)
        /\ \A k : Alone(k)' <=> Alone(k)
        /\ TraceIds' = TraceIds
    BY <2>1 DEF RootTrace, Alone, TraceIds
  <2>6. worker[t] \in {"create", "copy"} =>
          /\ at[t] + 1 \in DOMAIN e2e /\ at[t] \in Nat /\ at[t] < index
          /\ TraceId(t) = RootTrace(at[t] + 1)
          /\ TraceId(t) \in TraceIds
    BY <1>0, <2>4 DEF Claims, Busy, Pool, TraceId, RootTrace
  <2>7. ASSUME UNCHANGED <<saved, file, creator>>, index' \in {index, index + 1},
               \A u \in Thread :
                 /\ worker'[u] = "copy" => worker[u] = "copy" /\ at'[u] = at[u]
                 /\ worker'[u] \in Busy => \/ worker[u] \in Busy /\ at'[u] = at[u]
                                           \/ at'[u] = index
        PROVE  Kept'
    <3>1. \A u \in Thread :
            worker'[u] = "copy" /\ Alone(at'[u] + 1) => creator'[RootTrace(at'[u] + 1)] = u
      BY <2>7 DEF Kept
    <3>2. \A k \in DOMAIN e2e : k <= index => k <= index' /\ index # k - 1
      BY <1>0, <2>7 DEF Pool
    <3>3. \A k \in DOMAIN e2e :
            RootTrace(k)' \in saved' /\ Alone(k)' =>
              /\ file'[RootTrace(k)'] = "whole"
              /\ k <= index'
              /\ \A u \in Thread : worker'[u] \in Busy => at'[u] # k - 1
      BY <2>5, <2>7, <3>2 DEF Kept
    <3> QED BY <2>1, <2>3, <2>5, <2>7, <3>1, <3>3 DEF Kept
  <2>8. CASE Lock(t)
    BY <2>7, <2>8 DEF Lock, Goto, Busy, Pool, files
  <2>9. CASE Unlock(t)
    BY <2>7, <2>9 DEF Unlock, Goto, Busy, Pool, Claims, files
  <2>10. CASE Done(t)
    BY <2>7, <2>10 DEF Done, Goto, Busy, Pool, files
  <2>11. CASE \E answered \in BOOLEAN : Get(t, answered)
    BY <2>7, <2>11 DEF Get, Goto, Busy, Pool, shared
  <2>12. CASE CreateFails(t) \/ CopyFails(t)
    BY <2>7, <2>12 DEF CreateFails, CopyFails, Goto, Busy, Pool, shared, files
  <2>13. CASE Create(t)
    <3>1. /\ worker[t] = "create" /\ worker' = [worker EXCEPT ![t] = "copy"]
          /\ file' = [file EXCEPT ![TraceId(t)] = "cut"]
          /\ creator' = [creator EXCEPT ![TraceId(t)] = t]
          /\ UNCHANGED <<index, at, saved>>
      BY <2>13 DEF Create, Goto, shared
    <3>2. \A k \in DOMAIN e2e : Alone(k) /\ RootTrace(k) = TraceId(t) => k = at[t] + 1
      BY <2>6, <3>1 DEF Alone
    <3>3. ASSUME NEW u \in Thread, worker'[u] = "copy", Alone(at[u] + 1)
          PROVE  creator'[RootTrace(at[u] + 1)] = u
      <4>1. CASE u = t
        BY <2>3, <2>6, <3>1, <4>1
      <4>2. CASE u # t
        <5>1. worker[u] = "copy" /\ at[u] + 1 \in DOMAIN e2e /\ at[u] \in Nat /\ at[u] # at[t]
          BY <1>0, <3>1, <3>3, <4>2 DEF Claims, Busy, Pool
        <5>2. RootTrace(at[u] + 1) # TraceId(t)
          BY <2>6, <3>1, <3>2, <3>3, <5>1
        <5> QED BY <2>3, <2>4, <3>1, <3>3, <5>1, <5>2 DEF Kept
      <4> QED BY <4>1, <4>2
    <3>4. ASSUME NEW k \in DOMAIN e2e, RootTrace(k) \in saved, Alone(k)
          PROVE  /\ file'[RootTrace(k)] = "whole"
                 /\ k <= index
                 /\ \A u \in Thread : worker'[u] \in Busy => at[u] # k - 1
      <4>1. /\ file[RootTrace(k)] = "whole" /\ k <= index
            /\ \A u \in Thread : worker[u] \in Busy => at[u] # k - 1
        BY <3>4 DEF Kept
      <4>2. RootTrace(k) # TraceId(t)
        BY <2>6, <3>1, <3>2, <3>4, <4>1 DEF Busy
      <4>3. \A u \in Thread : worker'[u] \in Busy => worker[u] \in Busy
        BY <3>1 DEF Busy, Pool
      <4> QED BY <2>3, <2>4, <3>1, <4>1, <4>2, <4>3
    <3>5. file' = [d \in DOMAIN file' |-> file'[d]] /\ creator' = [d \in DOMAIN creator' |-> creator'[d]]
          /\ DOMAIN file' = TraceIds' /\ DOMAIN creator' = TraceIds'
      BY <2>3, <2>5, <3>1
    <3> QED BY <2>1, <2>5, <3>1, <3>3, <3>4, <3>5 DEF Kept
  <2>14. CASE Copy(t)
    <3>1. PICK content : /\ content \in (IF creator[TraceId(t)] = t THEN {"whole"}
                                         ELSE {file[TraceId(t)], "whole"})
                         /\ file' = [file EXCEPT ![TraceId(t)] = content]
      BY <2>14 DEF Copy
    <3>2. /\ worker[t] = "copy" /\ worker' = [worker EXCEPT ![t] = "lock"]
          /\ saved' = saved \cup {TraceId(t)}
          /\ UNCHANGED <<index, at, creator>>
      BY <2>14 DEF Copy, Goto, shared
    <3>3. \A u \in Thread : worker'[u] \in Busy => u # t /\ worker[u] \in Busy /\ worker'[u] = worker[u]
      BY <3>2 DEF Busy, Pool
    <3>4. ASSUME NEW k \in DOMAIN e2e, RootTrace(k) \in saved', Alone(k)
          PROVE  /\ file'[RootTrace(k)] = "whole"
                 /\ k <= index
                 /\ \A u \in Thread : worker'[u] \in Busy => at[u] # k - 1
      <4>1. CASE RootTrace(k) = TraceId(t)
        <5>1. k = at[t] + 1
          BY <2>6, <3>2, <3>4, <4>1 DEF Alone
        <5>2. creator[TraceId(t)] = t
          BY <2>6, <3>2, <3>4, <5>1 DEF Kept
        <5>3. file'[RootTrace(k)] = "whole"
          BY <2>3, <2>6, <3>1, <3>2, <4>1, <5>2
        <5>4. k <= index /\ k - 1 = at[t]
          BY <2>6, <3>2, <5>1 DEF Pool
        <5>5. \A u \in Thread : worker'[u] \in Busy => at[u] # at[t]
          BY <3>2, <3>3 DEF Claims, Busy
        <5> QED BY <5>3, <5>4, <5>5
      <4>2. CASE RootTrace(k) # TraceId(t)
        <5>1. /\ file[RootTrace(k)] = "whole" /\ k <= index
              /\ \A u \in Thread : worker[u] \in Busy => at[u] # k - 1
          BY <3>2, <3>4, <4>2 DEF Kept
        <5> QED BY <2>3, <2>4, <3>1, <3>3, <4>2, <5>1
      <4> QED BY <4>1, <4>2
    <3>5. file' = [d \in DOMAIN file' |-> file'[d]] /\ DOMAIN file' = TraceIds'
      BY <2>3, <2>5, <3>1
    <3>6. \A u \in Thread : worker'[u] = "copy" /\ Alone(at[u] + 1) => creator[RootTrace(at[u] + 1)] = u
      BY <3>3 DEF Kept, Busy
    <3>7. creator' = [d \in DOMAIN creator' |-> creator'[d]] /\ DOMAIN creator' = TraceIds'
      BY <2>3, <2>5, <3>2 DEF Kept
    <3> QED BY <2>1, <2>5, <3>2, <3>4, <3>5, <3>6, <3>7 DEF Kept
  <2> QED BY <1>3, <2>8, <2>9, <2>10, <2>11, <2>12, <2>13, <2>14 DEF Download
<1> QED BY <1>1, <1>2, <1>3 DEF Next, Exited

-------------------------------------------------------------------------------
(* The invariant holds in every reachable state.                           *)
THEOREM Invariance == Spec => []IInv
<1>1. IInv /\ [Next]_vars => IInv'
  <2> SUFFICES ASSUME IInv, [Next]_vars PROVE IInv'
    OBVIOUS
  <2>1. Pool'
    BY PoolMain, PoolDownload DEF IInv, Next, Exited
  <2> QED BY <2>1, LoadingStep, OrderedStep, ClaimsStep, TriedStep, KeptStep DEF IInv
<1> QED BY InitIInv, <1>1, PTL DEF Spec

(* Whatever the page size, the plotter works on all spans that are stored, *)
(* each once, unless an answer of Elasticsearch was an error.              *)
THEOREM EverySpanLoaded == Spec => []LoadsAll
<1>1. IInv => LoadsAll
  BY DEF IInv, Loading
<1> QED BY <1>1, Invariance, PTL

(* However many goroutines race for the roots, each root is downloaded     *)
(* once, and main() goes on only when all of them are done.                *)
THEOREM DownloadsEachOnce == Spec => []EachRootOnce
<1>1. IInv => EachRootOnce
  <2> SUFFICES ASSUME IInv PROVE EachRootOnce
    OBVIOUS
  <2>1. \A k \in DOMAIN tries : tries[k] <= 1
    BY DEF IInv, Tried
  <2>2. ASSUME flags.download, pc \in {"plot", "graphs", "done"}
        PROVE  /\ DOMAIN tries = DOMAIN e2e
               /\ \A k \in DOMAIN tries : tries[k] = 1
               /\ \A t \in Thread : worker[t] = "ended"
    <3>1. \A t \in Thread : worker[t] = "ended"
      BY <2>2 DEF IInv, Pool
    <3>2. DOMAIN e2e = 1..Len(e2e) /\ Len(e2e) \in Nat /\ index \in Nat
      BY LenProperties DEF IInv, Ordered, Pool
    <3>3. Len(e2e) < index
      BY <3>1, PlotterAssumption DEF IInv, Claims
    <3>4. DOMAIN tries = DOMAIN e2e
      BY <2>2 DEF IInv, Tried
    <3>5. \A k \in DOMAIN tries : k <= index
      BY <3>2, <3>3, <3>4
    <3> QED BY <3>1, <3>4, <3>5 DEF IInv, Tried
  <2> QED BY <2>1, <2>2 DEF EachRootOnce
<1> QED BY <1>1, Invariance, PTL

(* A file that was downloaded stays whole, if no other root writes to it.  *)
THEOREM SavedStaysWhole == Spec => []SavedIsWhole
<1>1. IInv => SavedIsWhole
  <2> SUFFICES ASSUME IInv, NEW d \in saved,
                      Cardinality({k \in DOMAIN e2e : traces[e2e[k]].trace = d}) = 1
               PROVE  file[d] = "whole"
    BY DEF SavedIsWhole
  <2> DEFINE S == {k \in DOMAIN e2e : traces[e2e[k]].trace = d}
  <2>1. DOMAIN e2e = 1..Len(e2e) /\ Len(e2e) \in Nat
    BY LenProperties DEF IInv, Ordered
  <2>2. IsFiniteSet(DOMAIN e2e) /\ S \subseteq DOMAIN e2e
    BY <2>1, FS_Interval
  <2>3. PICK k : S = {k}
    BY <2>2, FS_Subset, FS_Singleton
  <2>4. k \in DOMAIN e2e /\ RootTrace(k) = d /\ Alone(k)
    BY <2>3 DEF RootTrace, Alone
  <2> QED BY <2>4 DEF IInv, Kept
<1> QED BY <1>1, Invariance, PTL

-------------------------------------------------------------------------------
(* A sequence of a finite set without repetition, sorted by key.           *)
LEMMA SortedSequence ==
  ASSUME NEW S, IsFiniteSet(S), NEW key, NEW s \in SortedBy(S, key)
  PROVE  /\ Cardinality(S) \in Nat
         /\ s \in [1..Cardinality(S) -> S]
         /\ Len(s) = Cardinality(S)
         /\ \A j, k \in DOMAIN s : j # k => s[j] # s[k]
         /\ Range(s) = S
         /\ \A j, k \in DOMAIN s : j < k => key[s[j]] <= key[s[k]]
<1> DEFINE n == Cardinality(S)
<1>1. n \in Nat
  BY FS_CardinalityType
<1>2. s \in [1..n -> S] /\ \A j, k \in 1..n : j # k => s[j] # s[k]
  BY DEF SortedBy, SetToSeqs
<1>3. DOMAIN s = 1..n
  BY <1>2
<1>4. s \in Seq(S)
  BY <1>1, <1>2, SeqDef
<1>5. Len(s) = n
  BY <1>1, <1>3, <1>4, LenProperties
<1>6. s \in Injection(1..n, S)
  BY <1>2, <1>3 DEF Injection, IsInjective
<1>7. IsFiniteSet(1..n) /\ Cardinality(1..n) = n
  BY <1>1, FS_Interval
<1>8. s \in Surjection(1..n, S)
  BY <1>6, <1>7, FS_Injection
<1>9. Range(s) = S
  BY <1>3, <1>8 DEF Surjection, Range
<1>10. \A j, k \in DOMAIN s : j < k => key[s[j]] <= key[s[k]]
  BY DEF SortedBy
<1> QED BY <1>1, <1>2, <1>3, <1>5, <1>9, <1>10

(* In sorted durations, the distribution function reaches a percentage     *)
(* from the quantile of that percentage on, and not before.                *)
LEMMA QuantileOfCDF ==
  ASSUME NEW n \in Nat \ {0}, NEW x \in [1..n -> Nat], Sorted(x),
         NEW y \in 1..(100 * n), NEW k \in 1..n
  PROVE  CDF(x[k], x) * 100 >= y <=> x[k] >= x[(y + 99) \div 100]
<1> DEFINE m == (y + 99) \div 100
           C == {j \in DOMAIN x : x[j] <= x[k]}
<1>1. /\ m \in 1..n
      /\ \A c \in Nat : c * 100 >= y <=> c >= m
  OBVIOUS
<1> HIDE DEF m
<1>2. DOMAIN x = 1..n /\ IsFiniteSet(1..n)
  BY FS_Interval
<1>3. C \subseteq 1..n /\ IsFiniteSet(C) /\ Cardinality(C) \in Nat
  BY <1>2, FS_Subset, FS_CardinalityType
<1>4. CDF(x[k], x) = Cardinality(C)
  BY DEF CDF
<1>5. \A j, l \in 1..n : j <= l => x[j] <= x[l]
  BY <1>2 DEF Sorted
<1>6. x[k] >= x[m] => CDF(x[k], x) * 100 >= y
  <2> SUFFICES ASSUME x[k] >= x[m] PROVE CDF(x[k], x) * 100 >= y
    OBVIOUS
  <2> DEFINE I == 1..m
  <2>1. I \in SUBSET C
    BY <1>1, <1>2, <1>5
  <2>2. Cardinality(I) = m
    BY <1>1, FS_Interval
  <2> HIDE DEF C, I
  <2>3. Cardinality(I) <= Cardinality(C)
    BY <1>3, <2>1, FS_Subset
  <2> QED BY <1>1, <1>3, <1>4, <2>2, <2>3
<1>7. ~(x[k] >= x[m]) => ~(CDF(x[k], x) * 100 >= y)
  <2> SUFFICES ASSUME ~(x[k] >= x[m]) PROVE ~(CDF(x[k], x) * 100 >= y)
    OBVIOUS
  <2> DEFINE I == 1..(m - 1)
  <2>1. C \in SUBSET I
    BY <1>1, <1>2, <1>5
  <2>2. m - 1 \in Int /\ 1 \in Int /\ (1 > m - 1 => m - 1 = 0)
    BY <1>1
  <2>3. IsFiniteSet(I) /\ Cardinality(I) = m - 1
    <3>1. IsFiniteSet(I) /\ Cardinality(I) = IF 1 > m - 1 THEN 0 ELSE m - 1 - 1 + 1
      BY <2>2, FS_Interval
    <3> QED BY <2>2, <3>1
  <2> HIDE DEF C, I
  <2>4. Cardinality(C) <= Cardinality(I)
    BY <2>1, <2>3, FS_Subset
  <2>5. ~(Cardinality(C) >= m)
    BY <1>1, <1>3, <2>3, <2>4
  <2> QED BY <1>1, <1>3, <1>4, <2>5
<1> QED BY <1>6, <1>7 DEF m

(* Each root has a dot of its own in a chart of sorted, positive durations, *)
(* and the dots from a percentile on are those the distribution function   *)
(* puts there.                                                             *)
LEMMA CompleteChart ==
  ASSUME NEW S, IsFiniteSet(S), NEW key, NEW order \in SortedBy(S, key),
         NEW x \in [1..Cardinality(S) -> Nat \ {0}], Sorted(x)
  PROVE  LET c == PlotGraph(order, x)
             dots == c.success \cup c.error
             n == Cardinality(S)
         IN  /\ Cardinality(dots) = n
             /\ {d.root : d \in dots} = S
             /\ \A d \in dots : /\ d.latency > 0
                                /\ d.cdf * 100 >= 50 * n <=> d.latency >= c.percentiles.median
                                /\ d.cdf * 100 >= 90 * n <=> d.latency >= c.percentiles.p90
<1> DEFINE c == PlotGraph(order, x)
           n == Cardinality(S)
           dot == [k \in 1..n |-> [root |-> order[k], latency |-> x[k], cdf |-> CDF(x[k], x)]]
           dots == {dot[k] : k \in 1..n}
<1>1. /\ n \in Nat /\ order \in [1..n -> S] /\ Range(order) = S
      /\ \A j, k \in 1..n : j # k => order[j] # order[k]
  BY SortedSequence
<1>2. c.success \cup c.error = dots
  <2> DEFINE of(which) == {dot[k] : k \in {l \in 1..n : IsError(order[l]) = which}}
  <2>1. DOMAIN order = 1..n
    BY <1>1
  <2>2. c.success = of(FALSE) /\ c.error = of(TRUE)
    BY <2>1 DEF PlotGraph
  <2>3. \A k \in 1..n : IsError(order[k]) = TRUE \/ IsError(order[k]) = FALSE
    BY DEF IsError
  <2>4. of(FALSE) \cup of(TRUE) = dots
    BY <2>3
  <2> QED BY <2>2, <2>4
<1>3. c.percentiles = Percentiles(x)
  BY DEF PlotGraph
<1>4. Cardinality(dots) = n
  <2>1. dot \in [1..n -> dots] /\ \A k \in 1..n : dot[k].root = order[k]
    OBVIOUS
  <2>2. \A d \in dots : \E k \in 1..n : dot[k] = d
    OBVIOUS
  <2> HIDE DEF dot, dots
  <2>3. \A j, k \in 1..n : dot[j] = dot[k] => j = k
    BY <1>1, <2>1
  <2>4. DOMAIN dot = 1..n
    BY <2>1
  <2>5. dot \in Injection(1..n, dots)
    BY <2>1, <2>3, <2>4 DEF Injection, IsInjective
  <2>6. dot \in Surjection(1..n, dots)
    BY <2>1, <2>2 DEF Surjection
  <2>7. IsFiniteSet(1..n) /\ Cardinality(1..n) = n
    BY <1>1, FS_Interval
  <2> QED BY <2>5, <2>6, <2>7, FS_Surjection
<1>5. {d.root : d \in dots} = S
  <2>1. {d.root : d \in dots} = {order[k] : k \in 1..n}
    <3>1. /\ \A k \in 1..n : dot[k] \in dots /\ dot[k].root = order[k]
          /\ \A d \in dots : \E k \in 1..n : d = dot[k]
      OBVIOUS
    <3> HIDE DEF dot, dots, n
    <3> QED BY <3>1
  <2>2. Range(order) = {order[k] : k \in 1..n}
    BY <1>1 DEF Range
  <2> QED BY <1>1, <2>1, <2>2
<1>6. ASSUME NEW k \in 1..n
      PROVE  /\ x[k] > 0
             /\ CDF(x[k], x) * 100 >= 50 * n <=> x[k] >= c.percentiles.median
             /\ CDF(x[k], x) * 100 >= 90 * n <=> x[k] >= c.percentiles.p90
  <2>1. n \in Nat \ {0} /\ x[k] \in Nat \ {0} /\ x \in [1..n -> Nat]
    BY <1>1, <1>6
  <2>2. x \in Seq(Nat) /\ Len(x) = n /\ x # <<>>
    BY <2>1, SeqDef, LenProperties
  <2>3. /\ c.percentiles.median = Quantile(50, x)
        /\ c.percentiles.p90 = Quantile(90, x)
    BY <1>3, <2>2 DEF Percentiles
  <2>4. 50 * n \in 1..(100 * n) /\ 90 * n \in 1..(100 * n)
    BY <2>1
  <2> HIDE DEF n, c
  <2>5. \A y \in 1..(100 * n) : CDF(x[k], x) * 100 >= y <=> x[k] >= x[(y + 99) \div 100]
    BY <1>6, <2>1, QuantileOfCDF
  <2>6. CDF(x[k], x) * 100 >= 50 * n <=> x[k] >= x[(50 * n + 99) \div 100]
    BY <2>4, <2>5
  <2>7. CDF(x[k], x) * 100 >= 90 * n <=> x[k] >= x[(90 * n + 99) \div 100]
    BY <2>4, <2>5
  <2> QED BY <2>1, <2>2, <2>3, <2>6, <2>7 DEF Quantile
<1>7. \A d \in dots : /\ d.latency > 0
                      /\ d.cdf * 100 >= 50 * n <=> d.latency >= c.percentiles.median
                      /\ d.cdf * 100 >= 90 * n <=> d.latency >= c.percentiles.p90
  <2> SUFFICES ASSUME NEW k \in 1..n
               PROVE  /\ dot[k].latency > 0
                      /\ dot[k].cdf * 100 >= 50 * n <=> dot[k].latency >= c.percentiles.median
                      /\ dot[k].cdf * 100 >= 90 * n <=> dot[k].latency >= c.percentiles.p90
    OBVIOUS
  <2>1. dot[k].latency = x[k] /\ dot[k].cdf = CDF(x[k], x)
    OBVIOUS
  <2> HIDE DEF dot, n, c
  <2> QED BY <1>6, <2>1
<1> HIDE DEF dot, n
<1>8. /\ Cardinality(c.success \cup c.error) = n
      /\ {d.root : d \in c.success \cup c.error} = S
  BY <1>2, <1>4, <1>5
<1>9. \A d \in c.success \cup c.error :
        /\ d.latency > 0
        /\ d.cdf * 100 >= 50 * n <=> d.latency >= c.percentiles.median
        /\ d.cdf * 100 >= 90 * n <=> d.latency >= c.percentiles.p90
  BY <1>2, <1>7
<1> QED BY <1>8, <1>9 DEF n

(* The durations drawn are positive and sorted as their roots are, also    *)
(* where they are raised to the least duration.                            *)
LEMMA DurationsSorted ==
  ASSUME IsFiniteSet(Roots(traces)), Roots(traces) \subseteq DOMAIN traces,
         \A i \in DOMAIN traces : traces[i].duration \in Nat \ {0},
         NEW latencyType \in {"e2e", "system"},
         latencyType = "system" => \A r \in Roots(traces) : system[r] \in Int,
         NEW order \in SortedBy(Roots(traces), Key(system, latencyType))
  PROVE  /\ Durations(latencyType, order) \in [1..Cardinality(Roots(traces)) -> Nat \ {0}]
         /\ Sorted(Durations(latencyType, order))
<1> DEFINE S == Roots(traces)
           n == Cardinality(S)
           x == Durations(latencyType, order)
<1>1. /\ n \in Nat /\ order \in [1..n -> S]
      /\ \A j, k \in 1..n : j < k => Key(system, latencyType)[order[j]] <= Key(system, latencyType)[order[k]]
  BY SortedSequence
<1>2. Micro \in Nat \ {0}
  BY PlotterAssumption
<1>3. \A a, b \in Int : a <= b => a * Micro <= b * Micro
  BY <1>2
<1>4. \A a \in Nat \ {0} : a * Micro \in Nat \ {0}
  BY <1>2
<1>5. \A k \in 1..n : order[k] \in S /\ order[k] \in DOMAIN traces
  BY <1>1
<1>6. DOMAIN order = 1..n
  BY <1>1
<1> HIDE DEF n, S
<1>7. CASE latencyType = "e2e"
  <2>1. x = [k \in 1..n |-> traces[order[k]].duration * Micro]
    BY <1>6, <1>7 DEF Durations
  <2>2. x \in [1..n -> Nat \ {0}]
    BY <1>4, <1>5, <2>1
  <2>3. ASSUME NEW j \in 1..n, NEW k \in 1..n, j < k PROVE x[j] <= x[k]
    <3>1. traces[order[j]].duration <= traces[order[k]].duration
      BY <1>1, <1>5, <1>7, <2>3 DEF Key
    <3>2. traces[order[j]].duration \in Int /\ traces[order[k]].duration \in Int
      BY <1>5
    <3> QED BY <1>3, <2>1, <3>1, <3>2
  <2>4. DOMAIN x = 1..n
    BY <2>1
  <2> HIDE DEF x
  <2> QED BY <2>2, <2>3, <2>4 DEF Sorted, S, n, x
<1>8. CASE latencyType = "system"
  <2> DEFINE s(k) == system[order[k]]
  <2>1. x = [k \in 1..n |-> IF s(k) > 0 THEN s(k) * Micro ELSE 1]
    BY <1>6, <1>8 DEF Durations
  <2>2. \A k \in 1..n : s(k) \in Int
    BY <1>5, <1>8 DEF S
  <2>3. x \in [1..n -> Nat \ {0}]
    <3>1. \A k \in 1..n : s(k) > 0 => s(k) * Micro \in Nat \ {0}
      BY <1>4, <2>2
    <3> HIDE DEF s
    <3> QED BY <2>1, <3>1
  <2>4. ASSUME NEW j \in 1..n, NEW k \in 1..n, j < k PROVE x[j] <= x[k]
    <3>1. s(j) <= s(k)
      BY <1>1, <1>5, <1>8, <2>4 DEF Key
    <3>2. s(j) \in Int /\ s(k) \in Int
      BY <2>2
    <3>3. /\ s(j) * Micro <= s(k) * Micro
          /\ s(k) > 0 => s(k) * Micro \in Nat \ {0}
      BY <1>3, <1>4, <3>1, <3>2
    <3>4. /\ x[j] = IF s(j) > 0 THEN s(j) * Micro ELSE 1
          /\ x[k] = IF s(k) > 0 THEN s(k) * Micro ELSE 1
      BY <2>1
    <3> HIDE DEF s, x
    <3> QED BY <3>1, <3>2, <3>3, <3>4
  <2>5. DOMAIN x = 1..n
    BY <2>1
  <2> HIDE DEF x, s
  <2> QED BY <2>3, <2>4, <2>5 DEF Sorted, S, n, x
<1> QED BY <1>7, <1>8 DEF n, S

-------------------------------------------------------------------------------
(* A set of numbers has a least one. *)
LEMMA LeastNumber ==
  ASSUME NEW T \in SUBSET Nat, T # {}
  PROVE  \E k \in T : \A m \in T : k <= m
<1> DEFINE R == OpToRel(<, Nat)
<1>1. IsWellFoundedOn(R, Nat)
  BY NatLessThanWellFounded
<1>2. \A k, m \in Nat : m < k => <<m, k>> \in R
  BY DEF OpToRel
<1> HIDE DEF R
<1>3. PICK k \in T : \A m \in T : ~(<<m, k>> \in R)
  BY <1>1, WFMin
<1>4. k \in Nat /\ \A m \in T : m \in Nat /\ ~(m < k)
  BY <1>2, <1>3
<1> QED BY <1>4

(* Induction over the numbers up to N, as a fact about a set of them. *)
LEMMA UpToN ==
  ASSUME NEW N \in Nat, NEW T, 0 \in T, \A n \in 1..N : n - 1 \in T => n \in T
  PROVE  0..N \subseteq T
<1> SUFFICES ASSUME (0..N) \ T # {} PROVE FALSE
  OBVIOUS
<1> DEFINE S == (0..N) \ T
<1>1. S \in SUBSET Nat /\ S # {}
  OBVIOUS
<1> HIDE DEF S
<1>2. PICK n \in S : \A m \in S : n <= m
  BY <1>1, LeastNumber
<1>3. n \in 1..N /\ n \notin T
  BY <1>2 DEF S
<1>4. n - 1 \in T
  <2>1. n - 1 \in 0..N /\ ~(n <= n - 1)
    BY <1>3
  <2> QED BY <1>2, <2>1 DEF S
<1> QED BY <1>3, <1>4

(* What recursion over 0..N defines exists. *)
Iterate(N, X, a, H, g) ==
  g \in [0..N -> X] /\ g[0] = a /\ \A n \in 1..N : g[n] = H[n][g[n - 1]]

(* Iterating a step a number of times leads somewhere. *)
LEMMA Iterates ==
  ASSUME NEW N \in Nat, NEW X, NEW a \in X, NEW H \in [1..N -> [X -> X]]
  PROVE  \E g : Iterate(N, X, a, H, g)
<1> DEFINE To(n, g) == g[0] = a /\ \A m \in 1..n : g[m] = H[m][g[m - 1]]
           T == {n \in 0..N : \E g \in [0..n -> X] : To(n, g)}
<1>1. 0 \in T
  <2> DEFINE h == [m \in 0..0 |-> a]
  <2>1. h \in [0..0 -> X] /\ h[0] = a /\ \A m \in 1..0 : h[m] = H[m][h[m - 1]]
    OBVIOUS
  <2> HIDE DEF h
  <2> QED BY <2>1
<1>2. ASSUME NEW n \in 1..N, n - 1 \in T PROVE n \in T
  <2>1. PICK g \in [0..(n - 1) -> X] : To(n - 1, g)
    BY <1>2
  <2> DEFINE h == [m \in 0..n |-> IF m = n THEN H[n][g[n - 1]] ELSE g[m]]
  <2>2. H[n] \in [X -> X] /\ g[n - 1] \in X
    OBVIOUS
  <2>3. H[n][g[n - 1]] \in X
    BY <2>2
  <2>4. \A m \in 0..n : m # n => m \in 0..(n - 1)
    OBVIOUS
  <2>5. h \in [0..n -> X]
    BY <2>3, <2>4
  <2>6. h[0] = a
    BY <2>1
  <2>7. ASSUME NEW m \in 1..n PROVE h[m] = H[m][h[m - 1]]
    <3>1. m - 1 \in 0..n /\ m - 1 # n
      OBVIOUS
    <3>2. h[m - 1] = g[m - 1]
      BY <3>1
    <3>3. CASE m = n
      BY <3>2, <3>3
    <3>4. CASE m # n
      <4>1. m \in 1..(n - 1) /\ h[m] = g[m]
        BY <3>4
      <4> QED BY <2>1, <3>2, <4>1
    <3> QED BY <3>3, <3>4
  <2> HIDE DEF h
  <2>8. To(n, h)
    BY <2>6, <2>7
  <2> QED BY <2>5, <2>8
<1> HIDE DEF T
<1>3. 0..N \subseteq T
  BY <1>1, <1>2, UpToN
<1>4. N \in T
  BY <1>3
<1> QED BY <1>4 DEF T, Iterate

-------------------------------------------------------------------------------
(* The loaded spans, as a sequence of records. *)
Slice(tr) == Len(tr) \in Nat /\ DOMAIN tr = 1..Len(tr)

(* A span has one parent at most, since the map holds one span for an id. *)
LEMMA OneParent ==
  ASSUME NEW tr, Slice(tr), NEW i
  PROVE  /\ Parent(tr, i) \subseteq DOMAIN tr
         /\ \A k, l \in Parent(tr, i) : k = l
<1>1. \A k, l \in Parent(tr, i) : k \in Nat /\ l \in Nat /\ k <= l /\ l <= k
  BY DEF Parent, Mapped, Slice
<1> QED BY <1>1 DEF Parent, Mapped

(* A[n][i]: the ancestor of span i that is n levels above it, if there is one. *)
Ups(tr, A) ==
  /\ A \in [0..Len(tr) -> [DOMAIN tr -> SUBSET DOMAIN tr]]
  /\ \A i \in DOMAIN tr : A[0][i] = {i}
  /\ \A n \in 1..Len(tr) : \A i \in DOMAIN tr :
       A[n][i] = UNION {Parent(tr, k) : k \in A[n - 1][i]}

(* The levels above the spans of every slice can be formed. *)
LEMMA LevelsExist ==
  ASSUME NEW tr, Slice(tr)
  PROVE  \E A : Ups(tr, A)
<1> DEFINE D == DOMAIN tr
           N == Len(tr)
           X == [D -> SUBSET D]
           a == [i \in D |-> {i}]
           up == [x \in X |-> [i \in D |-> UNION {Parent(tr, k) : k \in x[i]}]]
           H == [n \in 1..N |-> up]
<1>1. N \in Nat /\ a \in X
  BY DEF Slice
<1>2. up \in [X -> X]
  BY OneParent
<1>3. H \in [1..N -> [X -> X]]
  BY <1>2
<1> HIDE DEF H, N, X, a, up
<1>4. PICK g : Iterate(N, X, a, H, g)
  BY <1>1, <1>3, Iterates
<1>5. ASSUME NEW n \in 1..N, NEW i \in D
      PROVE  g[n][i] = UNION {Parent(tr, k) : k \in g[n - 1][i]}
  <2>1. n - 1 \in 0..N
    BY <1>1
  <2>2. g[n - 1] \in X
    BY <1>4, <2>1 DEF Iterate
  <2>3. g[n] = up[g[n - 1]]
    BY <1>4 DEF H, Iterate
  <2> QED BY <2>2, <2>3 DEF up, X
<1>6. \A i \in D : g[0][i] = {i}
  BY <1>4 DEF a, Iterate
<1>7. g \in [0..N -> X]
  BY <1>4 DEF Iterate
<1> QED BY <1>5, <1>6, <1>7 DEF Ups, N, X

(* There is one ancestor at most at each level. *)
LEMMA OneAncestor ==
  ASSUME NEW tr, Slice(tr), NEW A, Ups(tr, A), NEW n \in 0..Len(tr), NEW i \in DOMAIN tr
  PROVE  \A k, l \in A[n][i] : k = l
<1> DEFINE T == {m \in 0..Len(tr) : \A k, l \in A[m][i] : k = l}
<1>1. Len(tr) \in Nat
  BY DEF Slice
<1>2. 0 \in T
  BY <1>1 DEF Ups
<1>3. ASSUME NEW m \in 1..Len(tr), m - 1 \in T PROVE m \in T
  <2>1. A[m][i] = UNION {Parent(tr, k) : k \in A[m - 1][i]}
    BY DEF Ups
  <2>2. \A k, l \in A[m - 1][i] : k = l
    BY <1>3
  <2>3. \A k : \A p, q \in Parent(tr, k) : p = q
    BY OneParent
  <2> QED BY <2>1, <2>2, <2>3
<1> HIDE DEF T
<1>4. 0..Len(tr) \subseteq T
  BY <1>1, <1>2, <1>3, UpToN
<1> QED BY <1>4 DEF T

(* Who is n + m levels above span i is m levels above who is n above it. *)
LEMMA AncestorsAdd ==
  ASSUME NEW tr, Slice(tr), NEW A, Ups(tr, A), NEW n \in 0..Len(tr), NEW i \in DOMAIN tr,
         NEW m \in 0..Len(tr), n + m <= Len(tr)
  PROVE  \A l : l \in A[n + m][i] <=> \E k \in A[n][i] : l \in A[m][k]
<1> DEFINE N == Len(tr)
           T == {p \in 0..N : n + p <= N => A[n + p][i] = UNION {A[p][k] : k \in A[n][i]}}
<1>1. N \in Nat
  BY DEF Slice
<1>2. A[n][i] \subseteq DOMAIN tr
  BY DEF Ups
<1>3. 0 \in T
  <2>1. \A k \in A[n][i] : A[0][k] = {k}
    BY <1>2 DEF Ups
  <2>2. n + 0 = n
    OBVIOUS
  <2> QED BY <1>1, <2>1, <2>2
<1>4. ASSUME NEW p \in 1..N, p - 1 \in T PROVE p \in T
  <2> SUFFICES ASSUME n + p <= N PROVE A[n + p][i] = UNION {A[p][k] : k \in A[n][i]}
    OBVIOUS
  <2>1. n + p \in 1..N /\ n + p - 1 = n + (p - 1) /\ n + (p - 1) <= N
    BY <1>1
  <2>2. A[n + p][i] = UNION {Parent(tr, l) : l \in A[n + (p - 1)][i]}
    BY <2>1 DEF Ups
  <2>3. A[n + (p - 1)][i] = UNION {A[p - 1][k] : k \in A[n][i]}
    BY <1>4, <2>1
  <2>4. \A k \in A[n][i] : A[p][k] = UNION {Parent(tr, l) : l \in A[p - 1][k]}
    BY <1>2 DEF Ups
  <2> QED BY <2>2, <2>3, <2>4
<1> HIDE DEF T
<1>5. 0..N \subseteq T
  BY <1>1, <1>3, <1>4, UpToN
<1>6. A[n + m][i] = UNION {A[m][k] : k \in A[n][i]}
  BY <1>5 DEF T
<1> QED BY <1>6

(* Above a level without spans there are none. *)
LEMMA NobodyFurther ==
  ASSUME NEW tr, Slice(tr), NEW A, Ups(tr, A), NEW n \in 0..Len(tr), NEW i \in DOMAIN tr,
         NEW m \in 0..Len(tr), n + m <= Len(tr), A[n][i] = {}
  PROVE  A[n + m][i] = {}
<1>1. \A l : l \in A[n + m][i] <=> \E k \in A[n][i] : l \in A[m][k]
  BY AncestorsAdd
<1> QED BY <1>1

(* Nobody is above a root. *)
LEMMA NobodyAbove ==
  ASSUME NEW tr, Slice(tr), NEW A, Ups(tr, A), NEW n \in 0..Len(tr), NEW i \in DOMAIN tr,
         NEW r \in A[n][i], Parent(tr, r) = {}, NEW m \in 0..Len(tr), n < m
  PROVE  A[m][i] = {}
<1>1. Len(tr) \in Nat /\ m \in Nat /\ n \in Nat
  BY DEF Slice
<1>2. \A k \in A[n][i] : k = r
  BY OneAncestor
<1>3. A[n + 1][i] = {}
  <2>1. n + 1 \in 1..Len(tr) /\ n + 1 - 1 = n
    BY <1>1
  <2>2. A[n + 1][i] = UNION {Parent(tr, k) : k \in A[n][i]}
    BY <2>1 DEF Ups
  <2> QED BY <1>2, <2>2
<1>4. /\ n + 1 \in 0..Len(tr) /\ m - (n + 1) \in 0..Len(tr)
      /\ (n + 1) + (m - (n + 1)) = m /\ (n + 1) + (m - (n + 1)) <= Len(tr)
  BY <1>1
<1> DEFINE p == n + 1
           q == m - (n + 1)
<1> HIDE DEF p, q
<1>5. p \in 0..Len(tr) /\ q \in 0..Len(tr) /\ p + q <= Len(tr) /\ p + q = m /\ p = n + 1
  BY <1>4 DEF p, q
<1>6. A[p][i] = {}
  BY <1>3, <1>5
<1>7. A[p + q][i] = {}
  BY <1>5, <1>6, NobodyFurther
<1> QED BY <1>5, <1>7

(* A span is below one root at most, and that at one level. *)
LEMMA OneRootAbove ==
  ASSUME NEW tr, Slice(tr), NEW A, Ups(tr, A), NEW i \in DOMAIN tr,
         NEW n \in 0..Len(tr), NEW r \in A[n][i], Parent(tr, r) = {},
         NEW m \in 0..Len(tr), NEW s \in A[m][i], Parent(tr, s) = {}
  PROVE  n = m /\ r = s
<1>1. Len(tr) \in Nat /\ m \in Nat /\ n \in Nat
  BY DEF Slice
<1>2. ~(n < m)
  BY NobodyAbove
<1>3. ~(m < n)
  BY NobodyAbove
<1> QED BY <1>1, <1>2, <1>3, OneAncestor

(* Who is n levels above a span is n - 1 levels above its parent. *)
LEMMA FromParent ==
  ASSUME NEW tr, Slice(tr), NEW A, Ups(tr, A), NEW i \in DOMAIN tr, NEW n \in 1..Len(tr), NEW r
  PROVE  r \in A[n][i] <=> \E k \in Parent(tr, i) : r \in A[n - 1][k]
<1>1. Len(tr) \in Nat /\ n \in Nat
  BY DEF Slice
<1>2. 1 \in 1..Len(tr) /\ 1 - 1 = 0
  BY <1>1
<1>3. A[1][i] = Parent(tr, i)
  <2>1. A[1][i] = UNION {Parent(tr, k) : k \in A[0][i]}
    BY <1>2 DEF Ups
  <2>2. A[0][i] = {i}
    BY DEF Ups
  <2> QED BY <2>1, <2>2
<1> DEFINE q == n - 1
<1> HIDE DEF q
<1>4. 1 \in 0..Len(tr) /\ q \in 0..Len(tr) /\ 1 + q <= Len(tr) /\ 1 + q = n /\ q = n - 1
  BY <1>1 DEF q
<1>5. \A l : l \in A[1 + q][i] <=> \E k \in A[1][i] : l \in A[q][k]
  BY <1>4, AncestorsAdd
<1> QED BY <1>3, <1>4, <1>5

(* The spans from a span up to its root number one more than there are     *)
(* levels between them, and are not more than there are spans.             *)
LEMMA RootLevel ==
  ASSUME NEW tr, Slice(tr), NEW A, Ups(tr, A), NEW i \in DOMAIN tr,
         NEW n \in 0..Len(tr), NEW r \in A[n][i], Parent(tr, r) = {},
         NEW S, \A k : k \in S <=> \E m \in 0..Len(tr) : k \in A[m][i]
  PROVE  Cardinality(S) = n + 1 /\ n + 1 <= Len(tr)
<1> DEFINE N == Len(tr)
           a == [m \in 0..n |-> CHOOSE k : k \in A[m][i]]
<1>1. N \in Nat /\ n \in Nat /\ DOMAIN tr = 1..N /\ n <= N
  BY DEF Slice
<1>2. ASSUME NEW m \in 0..n
      PROVE  \E k \in A[m][i] : r \in A[n - m][k]
  <2> DEFINE q == n - m
  <2> HIDE DEF q
  <2>1. m \in 0..N /\ q \in 0..N /\ m + q <= N /\ m + q = n /\ q = n - m
    BY <1>1 DEF q
  <2>2. \A l : l \in A[m + q][i] <=> \E k \in A[m][i] : l \in A[q][k]
    BY <2>1, AncestorsAdd
  <2> QED BY <2>1, <2>2
<1>3. ASSUME NEW m \in 0..n
      PROVE  /\ a[m] \in A[m][i] /\ r \in A[n - m][a[m]]
             /\ \A k \in A[m][i] : k = a[m]
             /\ m \in 0..N /\ n - m \in 0..N
             /\ a[m] \in DOMAIN tr
  <2>1. m \in 0..N /\ n - m \in 0..N
    BY <1>1
  <2>2. \A k, l \in A[m][i] : k = l
    BY <2>1, OneAncestor
  <2>3. a[m] \in A[m][i]
    BY <1>2
  <2>4. A[m][i] \subseteq DOMAIN tr
    BY <2>1 DEF Ups
  <2> HIDE DEF a
  <2> QED BY <1>2, <2>1, <2>2, <2>3, <2>4
<1> HIDE DEF N
<1>4. a \in [0..n -> S]
  BY <1>3 DEF N
<1>5. DOMAIN a = 0..n
  OBVIOUS
<1> HIDE DEF a
<1>6. ASSUME NEW m \in 0..n, NEW p \in 0..n, a[m] = a[p] PROVE m = p
  <2> DEFINE b == n - m
             c == n - p
  <2>1. m \in Nat /\ p \in Nat /\ (b = c => m = p)
    BY <1>1
  <2> HIDE DEF b, c
  <2>2. r \in A[b][a[m]] /\ b \in 0..N /\ a[m] \in DOMAIN tr
    BY <1>3 DEF b
  <2>3. r \in A[c][a[m]] /\ c \in 0..N
    BY <1>3, <1>6 DEF c
  <2>4. b = c
    BY <2>2, <2>3, OneRootAbove DEF N
  <2> QED BY <2>1, <2>4
<1>7. ASSUME NEW k \in S PROVE \E m \in 0..n : a[m] = k
  <2>1. PICK m \in 0..N : k \in A[m][i]
    BY DEF N
  <2>2. ~(n < m)
    <3> SUFFICES ASSUME n < m PROVE FALSE
      OBVIOUS
    <3>1. A[m][i] = {}
      BY <2>1, NobodyAbove DEF N
    <3> QED BY <2>1, <3>1
  <2>3. m \in 0..n
    BY <1>1, <2>1, <2>2
  <2> QED BY <1>3, <2>1, <2>3
<1>8. a \in Injection(0..n, S)
  BY <1>4, <1>5, <1>6 DEF Injection, IsInjective
<1>9. a \in Surjection(0..n, S)
  BY <1>4, <1>7 DEF Surjection
<1>10. IsFiniteSet(0..n) /\ Cardinality(0..n) = n + 1
  <2>1. 0 \in Int /\ n \in Int /\ ~(0 > n) /\ n - 0 + 1 = n + 1
    BY <1>1
  <2>2. IsFiniteSet(0..n) /\ Cardinality(0..n) = IF 0 > n THEN 0 ELSE n - 0 + 1
    BY <2>1, FS_Interval
  <2> QED BY <2>1, <2>2
<1>11. IsFiniteSet(S) /\ Cardinality(S) = n + 1
  BY <1>8, <1>9, <1>10, FS_Surjection
<1> DEFINE I == 1..N
<1>12. S \in SUBSET I
  BY <1>1 DEF Ups, N
<1>13. IsFiniteSet(I) /\ Cardinality(I) = N
  BY <1>1, FS_Interval
<1> HIDE DEF I
<1>14. Cardinality(S) <= N
  BY <1>12, <1>13, FS_Subset
<1> QED BY <1>11, <1>14 DEF N

-------------------------------------------------------------------------------
(* What a span reaches through f, level by level. *)
LEMMA ReachedLevels ==
  ASSUME Slice(traces), NEW f \in [DOMAIN traces -> SUBSET DOMAIN traces],
         NEW i \in DOMAIN traces, NEW L \in [0..Len(traces) -> SUBSET DOMAIN traces],
         L[0] = {i},
         \A n \in 1..Len(traces) : \A k : k \in L[n] <=> \E l \in L[n - 1] : k \in f[l]
  PROVE  \A k : k \in Reached(i, f) <=> \E n \in 0..Len(traces) : k \in L[n]
<1> DEFINE N == Len(traces)
           D == DOMAIN traces
           AndBelow(w) == w \cup UNION {f[k] : k \in w}
           up(w) == [n \in 0..N |-> IF n = 0 THEN {i} ELSE AndBelow(w[n - 1])]
           within == CHOOSE w : w = up(w)
           W == [n \in 0..N |-> {k \in D : \E m \in 0..n : k \in L[m]}]
<1>1. N \in Nat
  BY DEF Slice
<1>2. Reached(i, f) = within[N]
  BY DEF Reached
<1>3. ASSUME NEW n \in 1..N
      PROVE  W[n] = AndBelow(W[n - 1])
  <2> DEFINE S == UNION {f[k] : k \in W[n - 1]}
  <2>1. n - 1 \in 0..N /\ n \in 0..N
    BY <1>1
  <2>2. /\ \A k : k \in W[n] <=> k \in D /\ \E m \in 0..n : k \in L[m]
        /\ \A k : k \in W[n - 1] <=> k \in D /\ \E m \in 0..(n - 1) : k \in L[m]
    BY <2>1
  <2> HIDE DEF W
  <2>3. \A k : k \in S <=> \E l \in W[n - 1] : k \in f[l]
    OBVIOUS
  <2> HIDE DEF S
  <2>4. ASSUME NEW k \in W[n] PROVE k \in W[n - 1] \cup S
    <3>1. PICK m \in 0..n : k \in L[m] /\ k \in D
      BY <2>2
    <3>2. CASE m \in 0..(n - 1)
      BY <2>2, <3>1, <3>2
    <3>3. CASE m = 0
      BY <1>1, <2>2, <3>1, <3>3
    <3>4. CASE m \in 1..n
      <4>1. m \in 1..N /\ m - 1 \in 0..N /\ m - 1 \in 0..(n - 1)
        BY <1>1, <3>4
      <4>2. PICK l \in L[m - 1] : k \in f[l]
        BY <3>1, <4>1
      <4>3. l \in W[n - 1]
        BY <2>2, <4>1, <4>2
      <4> QED BY <2>3, <4>2, <4>3
    <3> QED BY <3>3, <3>4
  <2>5. ASSUME NEW k \in S PROVE k \in W[n]
    <3>1. PICK l \in W[n - 1] : k \in f[l]
      BY <2>3
    <3>2. PICK m \in 0..(n - 1) : l \in L[m] /\ l \in D
      BY <2>2, <3>1
    <3>3. m + 1 \in 1..N /\ m + 1 - 1 = m /\ m + 1 \in 0..n
      BY <1>1
    <3>4. k \in L[m + 1]
      BY <3>1, <3>2, <3>3
    <3>5. k \in D
      BY <3>1, <3>2
    <3> QED BY <2>2, <3>3, <3>4, <3>5
  <2>6. ASSUME NEW k \in W[n - 1] PROVE k \in W[n]
    <3>1. 0..(n - 1) \subseteq 0..n
      OBVIOUS
    <3> QED BY <2>2, <3>1
  <2>7. W[n] = W[n - 1] \cup S
    BY <2>4, <2>5, <2>6
  <2> QED BY <2>7 DEF S
<1>4. W[0] = {i}
  BY <1>1
<1> HIDE DEF AndBelow
<1>5. W = up(W)
  <2>1. W = [n \in 0..N |-> W[n]]
    OBVIOUS
  <2> HIDE DEF W
  <2>2. \A n \in 0..N : n = 0 \/ n \in 1..N
    BY <1>1
  <2>3. \A n \in 0..N : W[n] = IF n = 0 THEN {i} ELSE AndBelow(W[n - 1])
    BY <1>1, <1>3, <1>4, <2>2
  <2> QED BY <2>1, <2>3
<1> HIDE DEF W
<1>6. within = up(within)
  BY <1>5
<1> HIDE DEF within
<1> DEFINE T == {n \in 0..N : within[n] = W[n]}
<1>7. 0 \in T
  BY <1>1, <1>4, <1>6
<1>8. ASSUME NEW n \in 1..N, n - 1 \in T PROVE n \in T
  <2>1. n \in 0..N /\ n # 0
    BY <1>1
  <2>2. within[n] = AndBelow(within[n - 1])
    BY <1>6, <2>1
  <2> QED BY <1>3, <1>8, <2>1, <2>2
<1> HIDE DEF T
<1>9. 0..N \subseteq T
  BY <1>1, <1>7, <1>8, UpToN
<1>10. N \in 0..N /\ within[N] = W[N]
  BY <1>1, <1>9 DEF T
<1>11. \A k : k \in W[N] <=> k \in D /\ \E m \in 0..N : k \in L[m]
  BY <1>10 DEF W
<1>12. \A m \in 0..N : L[m] \subseteq D
  OBVIOUS
<1> QED BY <1>2, <1>10, <1>11, <1>12

(* The ancestors of a span are those of all levels. *)
LEMMA AncestorsLevels ==
  ASSUME Slice(traces), NEW A, Ups(traces, A), NEW i \in DOMAIN traces
  PROVE  \A k : k \in Ancestors(i) <=> \E n \in 0..Len(traces) : k \in A[n][i]
<1> DEFINE N == Len(traces)
           f == [k \in DOMAIN traces |-> Parent(traces, k)]
           L == [n \in 0..N |-> A[n][i]]
<1>1. N \in Nat
  BY DEF Slice
<1>2. f \in [DOMAIN traces -> SUBSET DOMAIN traces]
  BY OneParent
<1>3. L \in [0..N -> SUBSET DOMAIN traces] /\ L[0] = {i}
  BY <1>1 DEF Ups
<1>4. ASSUME NEW n \in 1..N, NEW k PROVE k \in L[n] <=> \E l \in L[n - 1] : k \in f[l]
  <2>1. n \in 0..N /\ n - 1 \in 0..N
    BY <1>1
  <2>2. A[n][i] = UNION {Parent(traces, l) : l \in A[n - 1][i]}
    BY DEF Ups
  <2>3. A[n - 1][i] \subseteq DOMAIN traces
    BY <2>1 DEF Ups
  <2> QED BY <2>1, <2>2, <2>3
<1>5. Ancestors(i) = Reached(i, f)
  BY DEF Ancestors
<1>6. \A n \in 0..N : L[n] = A[n][i]
  OBVIOUS
<1> HIDE DEF f, L
<1>7. \A k : k \in Reached(i, f) <=> \E n \in 0..N : k \in L[n]
  BY <1>2, <1>3, <1>4, ReachedLevels
<1> QED BY <1>5, <1>6, <1>7

(* ch[k] holds the spans whose parent is k. *)
Children(tr, ch) ==
  /\ ch \in [DOMAIN tr -> Seq(DOMAIN tr)]
  /\ \A k \in DOMAIN tr : \A i : i \in Range(ch[k]) <=> i \in DOMAIN tr /\ k \in Parent(tr, i)

(* The tree of a span consists of those that have it among their ancestors. *)
LEMMA TreeLevels ==
  ASSUME Slice(traces), NEW A, Ups(traces, A), Children(traces, child), NEW r \in DOMAIN traces
  PROVE  \A i : i \in Tree(r) <=>
                i \in DOMAIN traces /\ \E n \in 0..Len(traces) : r \in A[n][i]
<1> DEFINE N == Len(traces)
           D == DOMAIN traces
           f == [k \in DOMAIN child |-> Range(child[k])]
           L == [n \in 0..N |-> {i \in D : r \in A[n][i]}]
<1>1. N \in Nat /\ DOMAIN child = D
  BY DEF Slice, Children
<1>2. /\ f \in [D -> SUBSET D]
      /\ \A k \in D : \A i : i \in f[k] <=> i \in D /\ k \in Parent(traces, i)
  BY <1>1 DEF Children
<1>3. L \in [0..N -> SUBSET D] /\ L[0] = {r}
  BY <1>1 DEF Ups
<1>4. \A n \in 0..N : \A i : i \in L[n] <=> i \in D /\ r \in A[n][i]
  OBVIOUS
<1>5. Tree(r) = Reached(r, f)
  BY DEF Tree
<1> HIDE DEF f, L
<1>6. ASSUME NEW n \in 1..N, NEW i PROVE i \in L[n] <=> \E k \in L[n - 1] : i \in f[k]
  <2>1. n \in 0..N /\ n - 1 \in 0..N
    BY <1>1
  <2>2. i \in D => (r \in A[n][i] <=> \E k \in Parent(traces, i) : r \in A[n - 1][k])
    BY FromParent
  <2>3. \A k \in Parent(traces, i) : k \in D
    BY OneParent
  <2> QED BY <1>2, <1>4, <2>1, <2>2, <2>3
<1> HIDE DEF D
<1>7. \A i : i \in Reached(r, f) <=> \E n \in 0..N : i \in L[n]
  BY <1>2, <1>3, <1>6, ReachedLevels DEF D
<1> QED BY <1>4, <1>5, <1>7 DEF D

(* A span whose ancestors end at a root is in the tree of that root alone, *)
(* any other span in none.                                                 *)
LEMMA InOneTree ==
  ASSUME Slice(traces), Children(traces, child), IsFiniteSet(Roots(traces)),
         NEW key, e2e \in SortedBy(Roots(traces), key), NEW i \in DOMAIN traces
  PROVE  Cardinality({k \in DOMAIN e2e : i \in Tree(e2e[k])}) =
           IF \E k \in Ancestors(i) \cap Mapped(traces) : Parent(traces, k) = {} THEN 1 ELSE 0
<1> DEFINE N == Len(traces)
           K == {k \in DOMAIN e2e : i \in Tree(e2e[k])}
           RootAbove == \E k \in Ancestors(i) \cap Mapped(traces) : Parent(traces, k) = {}
<1>1. PICK A : Ups(traces, A)
  BY LevelsExist
<1>2. /\ \A j, k \in DOMAIN e2e : j # k => e2e[j] # e2e[k]
      /\ Range(e2e) = Roots(traces)
  BY SortedSequence
<1>3. \A s : s \in Roots(traces) <=> s \in Mapped(traces) /\ Parent(traces, s) = {}
  BY DEF Roots
<1>4. \A k \in DOMAIN e2e : e2e[k] \in Roots(traces)
  BY <1>2 DEF Range
<1>5. Mapped(traces) \subseteq DOMAIN traces
  BY DEF Mapped
<1>6. \A k : k \in Ancestors(i) <=> \E n \in 0..N : k \in A[n][i]
  BY <1>1, AncestorsLevels
<1>7. \A r \in DOMAIN traces : i \in Tree(r) <=> \E n \in 0..N : r \in A[n][i]
  BY <1>1, TreeLevels
<1>8. ASSUME RootAbove PROVE Cardinality(K) = 1
  <2>1. PICK r \in Roots(traces) : r \in Ancestors(i)
    BY <1>3, <1>8
  <2>2. PICK n \in 0..N : r \in A[n][i]
    BY <1>6, <2>1
  <2>3. PICK j \in DOMAIN e2e : e2e[j] = r
    BY <1>2, <2>1 DEF Range
  <2>4. j \in K
    BY <1>3, <1>5, <1>7, <2>1, <2>2, <2>3
  <2>5. ASSUME NEW k \in K PROVE k = j
    <3>1. e2e[k] \in Roots(traces) /\ i \in Tree(e2e[k])
      BY <1>4
    <3>2. PICK m \in 0..N : e2e[k] \in A[m][i]
      BY <1>3, <1>5, <1>7, <3>1
    <3>3. Parent(traces, r) = {} /\ Parent(traces, e2e[k]) = {}
      BY <1>3, <2>1, <3>1
    <3>4. e2e[k] = r
      BY <1>1, <2>2, <3>2, <3>3, OneRootAbove
    <3> QED BY <1>2, <2>3, <3>4
  <2>6. K = {j}
    BY <2>4, <2>5
  <2> QED BY <2>6, FS_Singleton
<1>9. ASSUME ~RootAbove PROVE Cardinality(K) = 0
  <2>1. ASSUME NEW k \in K PROVE FALSE
    <3>1. e2e[k] \in Roots(traces) /\ i \in Tree(e2e[k])
      BY <1>4
    <3>2. e2e[k] \in Ancestors(i)
      BY <1>3, <1>5, <1>6, <1>7, <3>1
    <3> QED BY <1>3, <1>9, <3>1, <3>2
  <2>2. K = {}
    BY <2>1
  <2> QED BY <2>2, FS_EmptySet
<1> QED BY <1>8, <1>9

(* As many levels as there are below a span, it has ancestors. *)
LEMMA AncestorsOfRootLevel ==
  ASSUME Slice(traces), NEW A, Ups(traces, A), NEW i \in DOMAIN traces,
         NEW n \in 0..Len(traces), NEW r \in A[n][i], Parent(traces, r) = {}
  PROVE  Cardinality(Ancestors(i)) = n + 1
<1>1. \A k : k \in Ancestors(i) <=> \E m \in 0..Len(traces) : k \in A[m][i]
  BY AncestorsLevels
<1> QED BY <1>1, RootLevel

-------------------------------------------------------------------------------
(* What g[n] the second loop has made of the children ch after n spans. *)
Appends(tr, ch, g) ==
  /\ g \in [0..Len(tr) -> [DOMAIN tr -> Seq(DOMAIN tr)]]
  /\ g[0] = ch
  /\ \A n \in 1..Len(tr) : \A k \in DOMAIN tr :
       g[n][k] = IF k \in Parent(tr, n) THEN Append(g[n - 1][k], n) ELSE g[n - 1][k]

(* AppendChildren is what the spans of the slice append one after another. *)
LEMMA AppendsExists ==
  ASSUME NEW tr, Slice(tr), NEW ch \in [DOMAIN tr -> Seq(DOMAIN tr)]
  PROVE  \E g : Appends(tr, ch, g) /\ AppendChildren(tr, ch) = g[Len(tr)]
<1> DEFINE N == Len(tr)
           D == DOMAIN tr
           X == [D -> Seq(D)]
           with(n, x) == [k \in D |-> IF k \in Parent(tr, n) THEN Append(x[k], n) ELSE x[k]]
           H == [n \in 1..N |-> [x \in X |-> with(n, x)]]
           up(w) == [n \in 0..N |-> IF n = 0 THEN ch ELSE with(n, w[n - 1])]
           upTo == CHOOSE w : w = up(w)
<1>1. N \in Nat /\ D = 1..N /\ ch \in X
  BY DEF Slice
<1>2. AppendChildren(tr, ch) = upTo[N]
  BY DEF AppendChildren
<1>3. ASSUME NEW n \in 1..N, NEW x \in X PROVE with(n, x) \in X
  <2>1. \A k \in D : x[k] \in Seq(D) /\ n \in D
    BY <1>1
  <2> HIDE DEF D
  <2>2. \A k \in D : Append(x[k], n) \in Seq(D)
    BY <2>1, AppendProperties
  <2> QED BY <2>1, <2>2
<1> HIDE DEF with, X, D
<1>4. H \in [1..N -> [X -> X]]
  BY <1>3
<1>5. \A n \in 1..N : \A x \in X : H[n][x] = with(n, x)
  OBVIOUS
<1> HIDE DEF N, H
<1>6. PICK g : Iterate(N, X, ch, H, g)
  BY <1>1, <1>4, Iterates
<1>7. g \in [0..N -> X] /\ g[0] = ch
  BY <1>6 DEF Iterate
<1>8. ASSUME NEW n \in 1..N PROVE g[n] = with(n, g[n - 1])
  <2>1. n - 1 \in 0..N
    BY <1>1
  <2>2. g[n - 1] \in X
    BY <1>7, <2>1
  <2> QED BY <1>5, <1>6, <2>2 DEF Iterate
<1>9. g = up(g)
  <2>1. g = [n \in 0..N |-> g[n]]
    BY <1>7
  <2>2. \A n \in 0..N : n = 0 \/ n \in 1..N
    BY <1>1
  <2>3. \A n \in 0..N : g[n] = IF n = 0 THEN ch ELSE with(n, g[n - 1])
    BY <1>1, <1>7, <1>8, <2>2
  <2> QED BY <2>1, <2>3
<1>10. upTo = up(upTo)
  BY <1>9
<1> HIDE DEF upTo
<1>11. /\ upTo[0] = ch
       /\ \A n \in 1..N : upTo[n] = with(n, upTo[n - 1])
       /\ DOMAIN upTo = 0..N
  <2>1. 0 \in 0..N /\ \A n \in 1..N : n \in 0..N /\ n # 0
    BY <1>1
  <2> QED BY <1>10, <2>1
<1> DEFINE T == {n \in 0..N : upTo[n] \in X}
<1>12. 0 \in T
  BY <1>1, <1>11
<1>13. ASSUME NEW n \in 1..N, n - 1 \in T PROVE n \in T
  <2>1. n \in 0..N
    BY <1>1
  <2> QED BY <1>3, <1>11, <1>13, <2>1
<1> HIDE DEF T
<1>14. 0..N \subseteq T
  BY <1>1, <1>12, <1>13, UpToN
<1>15. upTo \in [0..N -> X]
  <2>1. upTo = [n \in 0..N |-> upTo[n]]
    BY <1>10
  <2>2. \A n \in 0..N : upTo[n] \in X
    BY <1>14 DEF T
  <2> QED BY <2>1, <2>2
<1>16. \A n \in 1..N : \A k \in D :
         upTo[n][k] = IF k \in Parent(tr, n) THEN Append(upTo[n - 1][k], n) ELSE upTo[n - 1][k]
  BY <1>11 DEF with
<1>17. Appends(tr, ch, upTo)
  BY <1>11, <1>15, <1>16 DEF Appends, N, D, X
<1> QED BY <1>2, <1>17 DEF N

(* It keeps what was there and adds the spans to their parent's children. *)
LEMMA AppendedRange ==
  ASSUME NEW tr, Slice(tr), NEW ch \in [DOMAIN tr -> Seq(DOMAIN tr)]
  PROVE  /\ AppendChildren(tr, ch) \in [DOMAIN tr -> Seq(DOMAIN tr)]
         /\ \A k \in DOMAIN tr : \A i :
              i \in Range(AppendChildren(tr, ch)[k]) <=>
                i \in Range(ch[k]) \/ (i \in DOMAIN tr /\ k \in Parent(tr, i))
<1> DEFINE N == Len(tr)
           D == DOMAIN tr
<1>1. N \in Nat /\ D = 1..N
  BY DEF Slice
<1>2. PICK g : Appends(tr, ch, g) /\ AppendChildren(tr, ch) = g[N]
  BY AppendsExists
<1>3. \A n \in 0..N : g[n] \in [D -> Seq(D)]
  BY <1>2 DEF Appends
<1>4. N \in 0..N
  BY <1>1
<1> DEFINE T == {n \in 0..N : \A k \in D : \A i :
                   i \in Range(g[n][k]) <=> i \in Range(ch[k]) \/ (i \in 1..n /\ k \in Parent(tr, i))}
<1>5. 0 \in T
  BY <1>1, <1>2 DEF Appends
<1>6. ASSUME NEW n \in 1..N, n - 1 \in T PROVE n \in T
  <2> SUFFICES ASSUME NEW k \in D, NEW i
               PROVE  i \in Range(g[n][k]) <=>
                        i \in Range(ch[k]) \/ (i \in 1..n /\ k \in Parent(tr, i))
    BY <1>1
  <2>1. n \in D /\ n - 1 \in 0..N /\ (i \in 1..n <=> i \in 1..(n - 1) \/ i = n)
    BY <1>1
  <2>2. i \in Range(g[n - 1][k]) <=> i \in Range(ch[k]) \/ (i \in 1..(n - 1) /\ k \in Parent(tr, i))
    BY <1>6
  <2>3. g[n - 1][k] \in Seq(D)
    BY <1>3, <2>1
  <2>4. CASE k \in Parent(tr, n)
    <3>1. g[n][k] = Append(g[n - 1][k], n)
      BY <1>2, <2>4 DEF Appends
    <3> HIDE DEF D
    <3> DEFINE u == g[n - 1][k]
    <3>0. n \in D /\ u \in Seq(D)
      BY <2>1, <2>3
    <3> HIDE DEF u
    <3>2. Append(u, n) = u \o <<n>>
      BY <3>0, AppendIsConcat
    <3>5. <<n>> \in Seq(D)
      BY <3>0
    <3>6. Range(u \o <<n>>) = Range(u) \cup Range(<<n>>)
      BY <3>0, <3>5, RangeConcatenation, ZenonT(30)
    <3>3. Range(g[n][k]) = Range(g[n - 1][k]) \cup Range(<<n>>)
      BY <3>1, <3>2, <3>6 DEF u
    <3>4. Range(<<n>>) = {n}
      BY DEF Range
    <3> QED BY <2>1, <2>2, <2>4, <3>3, <3>4
  <2>5. CASE k \notin Parent(tr, n)
    <3>1. g[n][k] = g[n - 1][k]
      BY <1>2, <2>5 DEF Appends
    <3> QED BY <2>1, <2>2, <2>5, <3>1
  <2> QED BY <2>4, <2>5
<1> HIDE DEF T
<1>7. 0..N \subseteq T
  BY <1>1, <1>5, <1>6, UpToN
<1>8. N \in T
  BY <1>4, <1>7
<1> QED BY <1>1, <1>2, <1>3, <1>4, <1>8 DEF T

(* A second parse repeats the children of the first. *)
Once(tr) == AppendChildren(tr, [i \in DOMAIN tr |-> <<>>])
Twice(tr) == AppendChildren(tr, Once(tr))

(* Parsing once or twice, each span is listed by its parents alone. *)
LEMMA OnceIsChildren ==
  ASSUME NEW tr, Slice(tr)
  PROVE  Children(tr, Once(tr)) /\ Children(tr, Twice(tr))
<1> DEFINE none == [i \in DOMAIN tr |-> <<>>]
<1>1. none \in [DOMAIN tr -> Seq(DOMAIN tr)] /\ \A k \in DOMAIN tr : Range(none[k]) = {}
  <2>1. <<>> \in Seq(DOMAIN tr)
    BY EmptySeq
  <2>2. Range(<<>>) = {}
    BY DEF Range
  <2> QED BY <2>1, <2>2
<1> HIDE DEF none
<1>2. Once(tr) = AppendChildren(tr, none)
  BY DEF Once, none
<1>3. Children(tr, Once(tr))
  BY <1>1, <1>2, AppendedRange DEF Children
<1>4. Children(tr, Twice(tr))
  BY <1>3, AppendedRange DEF Children, Twice
<1> QED BY <1>3, <1>4

(* The second parse lists the children once more, after those it finds. *)
LEMMA TwiceRepeats ==
  ASSUME NEW tr, Slice(tr)
  PROVE  \A k \in DOMAIN tr : Twice(tr)[k] = Once(tr)[k] \o Once(tr)[k]
<1> DEFINE N == Len(tr)
           D == DOMAIN tr
           none == [i \in D |-> <<>>]
<1>1. N \in Nat /\ D = 1..N /\ N \in 0..N
  BY DEF Slice
<1>2. none \in [D -> Seq(D)] /\ \A k \in D : none[k] = <<>>
  BY EmptySeq
<1> HIDE DEF none
<1>3. PICK g : Appends(tr, none, g) /\ Once(tr) = g[N]
  BY <1>2, AppendsExists DEF Once, none
<1>4. Once(tr) \in [D -> Seq(D)]
  BY OnceIsChildren DEF Children
<1>5. PICK h : Appends(tr, Once(tr), h) /\ Twice(tr) = h[N]
  BY <1>4, AppendsExists DEF Twice
<1>6. /\ \A n \in 0..N : g[n] \in [D -> Seq(D)] /\ h[n] \in [D -> Seq(D)]
      /\ g[0] = none /\ h[0] = Once(tr)
  BY <1>3, <1>5 DEF Appends
<1> DEFINE Doubled(n, k) == h[n][k] = Once(tr)[k] \o g[n][k]
           T == {n \in 0..N : \A k \in D : Doubled(n, k)}
<1>7. 0 \in T
  <2>1. \A k \in D : Once(tr)[k] \in Seq(D)
    BY <1>4
  <2> HIDE DEF D
  <2>2. \A k \in D : Once(tr)[k] \o <<>> = Once(tr)[k]
    BY <2>1, ConcatEmptySeq
  <2>3. \A k \in D : g[0][k] = <<>> /\ h[0][k] = Once(tr)[k]
    BY <1>2, <1>6
  <2>4. \A k \in D : Doubled(0, k)
    BY <2>2, <2>3
  <2> HIDE DEF Doubled
  <2> QED BY <1>1, <2>4
<1>8. ASSUME NEW n \in 1..N, n - 1 \in T PROVE n \in T
  <2> HIDE DEF Doubled
  <2> SUFFICES ASSUME NEW k \in D PROVE Doubled(n, k)
    BY <1>1
  <2>1. n \in D /\ n - 1 \in 0..N
    BY <1>1
  <2>2. h[n - 1][k] = Once(tr)[k] \o g[n - 1][k]
    BY <1>8 DEF Doubled
  <2>3. Once(tr)[k] \in Seq(D) /\ g[n - 1][k] \in Seq(D)
    BY <1>4, <1>6, <2>1
  <2>4. CASE k \in Parent(tr, n)
    <3>1. g[n][k] = Append(g[n - 1][k], n) /\ h[n][k] = Append(h[n - 1][k], n)
      BY <1>3, <1>5, <2>4 DEF Appends
    <3> HIDE DEF D
    <3>0. n \in D /\ <<n>> \in Seq(D)
      BY <2>1
    <3>2. Append(g[n - 1][k], n) = g[n - 1][k] \o <<n>> /\ <<n>> \in Seq(D)
      <4> DEFINE u == g[n - 1][k]
      <4>1. u \in Seq(D)
        BY <2>3
      <4> HIDE DEF u
      <4>2. Append(u, n) = u \o <<n>>
        BY <3>0, <4>1, AppendIsConcat
      <4> QED BY <3>0, <4>2 DEF u
    <3>3. Once(tr)[k] \o g[n - 1][k] \in Seq(D)
      BY <2>3, ConcatProperties
    <3>4. Append(h[n - 1][k], n) = (Once(tr)[k] \o g[n - 1][k]) \o <<n>>
      BY <2>1, <2>2, <3>3, AppendIsConcat
    <3>5. (Once(tr)[k] \o g[n - 1][k]) \o <<n>> = Once(tr)[k] \o (g[n - 1][k] \o <<n>>)
      <4> DEFINE s == Once(tr)[k]
                 t == g[n - 1][k]
                 u == <<n>>
      <4>1. s \in Seq(D) /\ t \in Seq(D) /\ u \in Seq(D)
        BY <2>3, <3>2
      <4> HIDE DEF s, t, u
      <4>2. (s \o t) \o u = s \o (t \o u)
        BY <4>1, ConcatAssociative
      <4> QED BY <4>2 DEF s, t, u
    <3> QED BY <3>1, <3>2, <3>4, <3>5 DEF Doubled
  <2>5. CASE k \notin Parent(tr, n)
    <3>1. g[n][k] = g[n - 1][k] /\ h[n][k] = h[n - 1][k]
      BY <1>3, <1>5, <2>5 DEF Appends
    <3> QED BY <2>2, <3>1 DEF Doubled
  <2> QED BY <2>4, <2>5
<1> HIDE DEF T
<1>9. 0..N \subseteq T
  BY <1>1, <1>7, <1>8, UpToN
<1>10. N \in T
  BY <1>1, <1>9
<1> QED BY <1>3, <1>5, <1>10 DEF T

-------------------------------------------------------------------------------
(* Of finitely many numbers one is the first of the largest. *)
LEMMA FirstOfLargest ==
  ASSUME NEW n \in Nat \ {0}, NEW d \in [1..n -> Int]
  PROVE  \E j \in 1..n : \A l \in 1..n : d[l] <= d[j] /\ (d[l] = d[j] => j <= l)
<1> DEFINE Largest(m, j) == \A l \in 1..m : d[l] <= d[j] /\ (d[l] = d[j] => j <= l)
           T == {m \in 0..n : m > 0 => \E j \in 1..m : Largest(m, j)}
<1>1. 0 \in T
  OBVIOUS
<1>2. ASSUME NEW m \in 1..n, m - 1 \in T PROVE m \in T
  <2>1. m \in 0..n /\ m \in 1..m /\ d[m] \in Int
    OBVIOUS
  <2>2. CASE m = 1
    <3>1. Largest(m, m)
      BY <2>1, <2>2
    <3> QED BY <2>1, <3>1
  <2>3. CASE m > 1
    <3>1. PICK j \in 1..(m - 1) : Largest(m - 1, j)
      BY <1>2, <2>3
    <3>2. j \in 1..m /\ d[j] \in Int /\ \A l \in 1..m : (l \in 1..(m - 1) \/ l = m) /\ d[l] \in Int
      OBVIOUS
    <3>3. CASE d[m] > d[j]
      <4>1. ASSUME NEW l \in 1..m PROVE d[l] <= d[m] /\ (d[l] = d[m] => m <= l)
        BY <2>1, <3>1, <3>2, <3>3
      <4> QED BY <2>1, <4>1
    <3>4. CASE ~(d[m] > d[j])
      <4>1. ASSUME NEW l \in 1..m PROVE d[l] <= d[j] /\ (d[l] = d[j] => j <= l)
        BY <2>1, <3>1, <3>2, <3>4
      <4> QED BY <2>1, <3>2, <4>1
    <3> QED BY <3>3, <3>4
  <2> QED BY <2>2, <2>3
<1> HIDE DEF T
<1>3. 0..n \subseteq T
  BY <1>1, <1>2, UpToN
<1>4. n \in T
  BY <1>3
<1> QED BY <1>4 DEF T

(* The first of the deepest leaves below a span, of those below each child. *)
IsFirst(b, j) ==
  /\ j \in DOMAIN b
  /\ \A l \in DOMAIN b : b[l].depth <= b[j].depth /\ (b[l].depth = b[j].depth => j <= l)
First(b) == CHOOSE j \in DOMAIN b : \A l \in DOMAIN b :
              /\ b[l].depth <= b[j].depth
              /\ b[l].depth = b[j].depth => j <= l
Leaf(k) == [leaf |-> k, depth |-> 1]
Above(b) == [leaf |-> b[First(b)].leaf, depth |-> b[First(b)].depth + 1]
Below(ch, x, k) == [j \in DOMAIN ch[k] |-> x[ch[k][j]]]
Deepest(N, D, ch, g) ==
  /\ g \in [0..N -> [D -> [leaf : D, depth : Nat]]]
  /\ \A n \in 0..N : \A k \in D :
       g[n][k] = IF n = 0 \/ ch[k] = <<>> THEN Leaf(k) ELSE Above(Below(ch, g[n - 1], k))
  /\ \A i \in D : DeepestLeaf(ch, i) = g[N][i].leaf

(* There is a first among the largest depths. *)
LEMMA FirstExists ==
  ASSUME NEW n \in Nat \ {0}, NEW D, NEW b \in [1..n -> [leaf : D, depth : Nat]]
  PROVE  IsFirst(b, First(b))
<1> DEFINE d == [j \in 1..n |-> b[j].depth]
<1>1. d \in [1..n -> Int]
  OBVIOUS
<1>2. \A j \in 1..n : d[j] = b[j].depth
  OBVIOUS
<1> HIDE DEF d
<1>3. \E j \in 1..n : \A l \in 1..n : d[l] <= d[j] /\ (d[l] = d[j] => j <= l)
  BY <1>1, FirstOfLargest
<1>4. DOMAIN b = 1..n
  OBVIOUS
<1>5. \E j \in DOMAIN b : \A l \in DOMAIN b :
        b[l].depth <= b[j].depth /\ (b[l].depth = b[j].depth => j <= l)
  BY <1>2, <1>3, <1>4
<1> QED BY <1>5 DEF IsFirst, First

(* Only one entry is the first of the largest depth. *)
LEMMA OneFirst ==
  ASSUME NEW n \in Nat, NEW D, NEW b \in [1..n -> [leaf : D, depth : Nat]],
         NEW i, NEW j, IsFirst(b, i), IsFirst(b, j)
  PROVE  i = j
<1>1. i \in 1..n /\ j \in 1..n /\ b[i].depth \in Nat /\ b[j].depth \in Nat
  BY DEF IsFirst
<1> QED BY <1>1 DEF IsFirst

(* Children that are listed twice over have the same first of the deepest. *)
LEMMA SameAbove ==
  ASSUME NEW n \in Nat \ {0}, NEW D, NEW b \in [1..n -> [leaf : D, depth : Nat]],
         NEW c \in [1..(n + n) -> [leaf : D, depth : Nat]],
         \A j \in 1..(n + n) : c[j] = IF j <= n THEN b[j] ELSE b[j - n]
  PROVE  Above(c) = Above(b)
<1> DEFINE f == First(b)
<1>1. IsFirst(b, f) /\ DOMAIN b = 1..n /\ DOMAIN c = 1..(n + n) /\ n + n \in Nat \ {0}
  <2>1. IsFirst(b, f)
    BY FirstExists
  <2>2. DOMAIN b = 1..n /\ DOMAIN c = 1..(n + n) /\ n + n \in Nat \ {0}
    OBVIOUS
  <2> QED BY <2>1, <2>2
<1> HIDE DEF f
<1>2. f \in 1..n /\ c[f] = b[f] /\ f \in 1..(n + n)
  BY <1>1 DEF IsFirst
<1>3. ASSUME NEW l \in 1..(n + n)
      PROVE  c[l].depth <= c[f].depth /\ (c[l].depth = c[f].depth => f <= l)
  <2>1. CASE l <= n
    <3>1. l \in 1..n /\ c[l] = b[l]
      BY <2>1
    <3> QED BY <1>1, <1>2, <3>1 DEF IsFirst
  <2>2. CASE ~(l <= n)
    <3>1. l - n \in 1..n /\ c[l] = b[l - n]
      BY <2>2
    <3>2. b[l - n].depth <= b[f].depth /\ f <= l
      BY <1>1, <1>2, <2>2, <3>1 DEF IsFirst
    <3> QED BY <1>2, <3>1, <3>2
  <2> QED BY <2>1, <2>2
<1>4. IsFirst(c, f)
  BY <1>1, <1>2, <1>3 DEF IsFirst
<1>5. IsFirst(c, First(c))
  BY <1>1, FirstExists
<1>6. First(c) = f
  BY <1>1, <1>4, <1>5, OneFirst
<1> QED BY <1>2, <1>6 DEF Above, f

(* The deepest leaf of a span is that of as many levels as there are spans. *)
LEMMA DeepestExists ==
  ASSUME NEW N \in Nat, NEW D, D = 1..N, NEW ch \in [D -> Seq(D)]
  PROVE  \E g : Deepest(N, D, ch, g)
<1> DEFINE E == [leaf : D, depth : Nat]
           X == [D -> E]
           none == [k \in D |-> Leaf(k)]
           with(x) == [k \in D |-> IF ch[k] = <<>> THEN Leaf(k) ELSE Above(Below(ch, x, k))]
           H == [n \in 1..N |-> [x \in X |-> with(x)]]
           up(w) == [n \in 0..N |-> [k \in D |->
                       IF n = 0 \/ ch[k] = <<>> THEN Leaf(k) ELSE Above(Below(ch, w[n - 1], k))]]
           deepest == CHOOSE w : w = up(w)
<1>1. DOMAIN ch = D /\ Len(ch) = N
  <2>1. ch \in Seq(Seq(D))
    BY SeqDef
  <2>2. DOMAIN ch = 1..Len(ch) /\ Len(ch) \in Nat
    BY <2>1, LenProperties
  <2> QED BY <2>2
<1>2. \A i \in D : DeepestLeaf(ch, i) = deepest[N][i].leaf
  BY <1>1 DEF DeepestLeaf, Leaf, Above, Below, First
<1>3. \A k \in D : Leaf(k) \in E
  BY DEF Leaf
<1>4. ASSUME NEW x \in X, NEW k \in D, ch[k] # <<>> PROVE Above(Below(ch, x, k)) \in E
  <2> DEFINE n == Len(ch[k])
             b == Below(ch, x, k)
  <2>1. ch[k] \in Seq(D)
    OBVIOUS
  <2>2. n \in Nat \ {0} /\ DOMAIN ch[k] = 1..n /\ \A j \in 1..n : ch[k][j] \in D
    BY <1>4, <2>1, EmptySeq, LenProperties, ElementOfSeq
  <2>3. b \in [1..n -> E]
    BY <2>2 DEF Below
  <2> HIDE DEF n, b
  <2>4. IsFirst(b, First(b))
    BY <2>2, <2>3, FirstExists
  <2>5. First(b) \in 1..n
    BY <2>3, <2>4 DEF IsFirst
  <2>6. b[First(b)] \in E
    BY <2>3, <2>5
  <2>7. b[First(b)].leaf \in D /\ b[First(b)].depth + 1 \in Nat
    <3> DEFINE e == b[First(b)]
    <3>1. e \in [leaf : D, depth : Nat]
      BY <2>6
    <3> HIDE DEF e
    <3>2. e.leaf \in D /\ e.depth \in Nat
      BY <3>1
    <3>3. e.leaf \in D /\ e.depth + 1 \in Nat
      BY <3>2
    <3> QED BY <3>3 DEF e
  <2>8. Above(b) \in E
    BY <2>7 DEF Above
  <2> QED BY <2>8 DEF b
<1>5. \A x \in X : with(x) \in X
  <2> SUFFICES ASSUME NEW x \in X PROVE with(x) \in X
    OBVIOUS
  <2>1. \A k \in D : (IF ch[k] = <<>> THEN Leaf(k) ELSE Above(Below(ch, x, k))) \in E
    BY <1>3, <1>4
  <2> HIDE DEF E
  <2> QED BY <2>1
<1>6. none \in X
  BY <1>3
<1> HIDE DEF E, X
<1>7. H \in [1..N -> [X -> X]] /\ \A n \in 1..N : \A x \in X : H[n][x] = with(x)
  BY <1>5
<1> HIDE DEF H, none
<1>8. PICK g : Iterate(N, X, none, H, g)
  BY <1>6, <1>7, Iterates
<1>9. g \in [0..N -> X] /\ g[0] = none
  BY <1>8 DEF Iterate
<1>10. ASSUME NEW n \in 1..N PROVE g[n] = with(g[n - 1])
  <2>1. n - 1 \in 0..N
    OBVIOUS
  <2>2. g[n - 1] \in X
    BY <1>9, <2>1
  <2> QED BY <1>7, <1>8, <2>2 DEF Iterate
<1> DEFINE at1(w, n) == [k \in D |->
             IF n = 0 \/ ch[k] = <<>> THEN Leaf(k) ELSE Above(Below(ch, w[n - 1], k))]
<1>11. g[0] = at1(g, 0)
  BY <1>9 DEF none
<1>12. ASSUME NEW n \in 1..N PROVE g[n] = at1(g, n)
  <2>1. n # 0
    OBVIOUS
  <2> QED BY <1>10, <2>1
<1>13. g = up(g)
  <2>1. g = [n \in 0..N |-> g[n]]
    BY <1>9
  <2>2. \A n \in 0..N : n = 0 \/ n \in 1..N
    OBVIOUS
  <2>3. \A n \in 0..N : g[n] = at1(g, n)
    BY <1>11, <1>12, <2>2
  <2>4. up(g) = [n \in 0..N |-> at1(g, n)]
    OBVIOUS
  <2> HIDE DEF at1, up
  <2> QED BY <2>1, <2>3, <2>4
<1>14. deepest = up(deepest)
  BY <1>13
<1> HIDE DEF deepest
<1>16. DOMAIN deepest = 0..N /\ deepest = [n \in 0..N |-> deepest[n]]
  BY <1>14
<1>17. \A n \in 0..N : deepest[n] = at1(deepest, n)
  BY <1>14
<1> HIDE DEF up
<1> DEFINE T == {n \in 0..N : deepest[n] \in X}
<1>18. 0 \in T
  <2>1. 0 \in 0..N /\ at1(deepest, 0) = none
    BY DEF none
  <2> QED BY <1>6, <1>17, <2>1
<1>19. ASSUME NEW n \in 1..N, n - 1 \in T PROVE n \in T
  <2>1. n \in 0..N /\ n # 0
    OBVIOUS
  <2>2. deepest[n] = with(deepest[n - 1])
    BY <1>17, <2>1
  <2> QED BY <1>5, <1>19, <2>1, <2>2
<1> HIDE DEF T
<1>20. 0..N \subseteq T
  BY <1>18, <1>19, UpToN
<1>21. deepest \in [0..N -> X]
  <2>1. \A n \in 0..N : deepest[n] \in X
    BY <1>20 DEF T
  <2> QED BY <1>16, <2>1
<1>15. \A n \in 0..N : \A k \in D : deepest[n][k] =
         IF n = 0 \/ ch[k] = <<>> THEN Leaf(k) ELSE Above(Below(ch, deepest[n - 1], k))
  BY <1>17
<1>22. Deepest(N, D, ch, deepest)
  <2>1. deepest \in [0..N -> [D -> [leaf : D, depth : Nat]]]
    BY <1>21 DEF X, E
  <2> QED BY <1>2, <1>15, <2>1 DEF Deepest
<1> QED BY <1>22

(* Between a span and one that has it some levels above lies a child of it. *)
LEMMA ThroughChild ==
  ASSUME NEW tr, Slice(tr), NEW A, Ups(tr, A), NEW ch, Children(tr, ch),
         NEW l \in DOMAIN tr, NEW b \in 1..Len(tr), NEW k \in A[b][l]
  PROVE  \E c \in Range(ch[k]) : c \in A[b - 1][l]
<1>1. Len(tr) \in Nat /\ b \in 0..Len(tr) /\ b - 1 \in 0..Len(tr)
  BY DEF Slice
<1>2. A[b - 1][l] \subseteq DOMAIN tr /\ k \in DOMAIN tr
  BY <1>1 DEF Ups
<1>3. PICK c \in A[b - 1][l] : k \in Parent(tr, c)
  BY DEF Ups
<1> QED BY <1>2, <1>3 DEF Children

(* What is some levels above a child is one level further below the span. *)
LEMMA OverChild ==
  ASSUME NEW tr, Slice(tr), NEW A, Ups(tr, A), NEW ch, Children(tr, ch),
         NEW k \in DOMAIN tr, NEW c \in Range(ch[k]),
         NEW l \in DOMAIN tr, NEW b \in 0..Len(tr), b + 1 <= Len(tr), c \in A[b][l]
  PROVE  k \in A[b + 1][l]
<1>1. b + 1 \in 1..Len(tr) /\ b + 1 - 1 = b
  BY DEF Slice
<1>2. A[b + 1][l] = UNION {Parent(tr, j) : j \in A[b][l]}
  BY <1>1 DEF Ups
<1>3. k \in Parent(tr, c)
  BY DEF Children
<1> QED BY <1>2, <1>3

(* The root of a span is one level further above its children. *)
LEMMA RootOverChild ==
  ASSUME NEW tr, Slice(tr), NEW A, Ups(tr, A), NEW ch, Children(tr, ch),
         NEW k \in DOMAIN tr, NEW c \in Range(ch[k]),
         NEW r, Parent(tr, r) = {}, NEW m \in 0..Len(tr), r \in A[m][k]
  PROVE  m + 1 \in 0..Len(tr) /\ r \in A[m + 1][c] /\ c \in DOMAIN tr
<1>1. Len(tr) \in Nat /\ c \in DOMAIN tr /\ k \in Parent(tr, c)
  BY DEF Slice, Children
<1>2. m + 1 <= Len(tr)
  <2> DEFINE S == UNION {A[j][k] : j \in 0..Len(tr)}
  <2>1. \A j : j \in S <=> \E n \in 0..Len(tr) : j \in A[n][k]
    OBVIOUS
  <2> HIDE DEF S
  <2> QED BY <2>1, RootLevel
<1>3. m + 1 \in 1..Len(tr) /\ m + 1 - 1 = m /\ m + 1 \in 0..Len(tr)
  BY <1>1, <1>2
<1>4. r \in A[m + 1][c] <=> \E j \in Parent(tr, c) : r \in A[m][j]
  BY <1>1, <1>3, FromParent
<1> QED BY <1>1, <1>3, <1>4

(* e names a leaf below k, and no leaf lies further below it. *)
IsDeepest(tr, ch, A, k, e) ==
  /\ e.depth - 1 \in 0..Len(tr)
  /\ e.leaf \in DOMAIN tr
  /\ ch[e.leaf] = <<>>
  /\ k \in A[e.depth - 1][e.leaf]
  /\ \A l \in DOMAIN tr : \A b \in 0..Len(tr) :
       ch[l] = <<>> /\ k \in A[b][l] => b <= e.depth - 1

(* A span without children is the deepest leaf below itself. *)
LEMMA LeafIsDeepest ==
  ASSUME NEW tr, Slice(tr), NEW A, Ups(tr, A), NEW ch, Children(tr, ch),
         NEW k \in DOMAIN tr, ch[k] = <<>>
  PROVE  IsDeepest(tr, ch, A, k, Leaf(k))
<1>1. Len(tr) \in Nat /\ Leaf(k).depth - 1 = 0 /\ Leaf(k).leaf = k
  BY DEF Slice, Leaf
<1>2. k \in A[0][k]
  BY DEF Ups
<1>3. ASSUME NEW l \in DOMAIN tr, NEW b \in 0..Len(tr), k \in A[b][l] PROVE b <= 0
  <2> SUFFICES ASSUME b \in 1..Len(tr) PROVE FALSE
    BY <1>1
  <2>1. PICK c : c \in Range(ch[k])
    BY <1>3, ThroughChild
  <2> QED BY <2>1 DEF Range
<1> QED BY <1>1, <1>2, <1>3 DEF IsDeepest

(* The deepest of what is deepest below the children is so below the span. *)
LEMMA AboveIsDeepest ==
  ASSUME NEW tr, Slice(tr), NEW A, Ups(tr, A), NEW ch, Children(tr, ch),
         NEW k \in DOMAIN tr, ch[k] # <<>>, NEW m \in Nat,
         NEW x \in [DOMAIN tr -> [leaf : DOMAIN tr, depth : Nat]],
         \A c \in Range(ch[k]) : IsDeepest(tr, ch, A, c, x[c]) /\ m + 1 + x[c].depth <= Len(tr)
  PROVE  /\ IsDeepest(tr, ch, A, k, Above(Below(ch, x, k)))
         /\ m + Above(Below(ch, x, k)).depth <= Len(tr)
<1> DEFINE N == Len(tr)
           D == DOMAIN tr
           n == Len(ch[k])
           s == ch[k]
           b == Below(ch, x, k)
           f == First(b)
           e == b[f]
           c == s[f]
<1>1. N \in Nat /\ D = 1..N /\ s \in Seq(D) /\ DOMAIN ch = D
  BY DEF Slice, Children
<1>2. n \in Nat \ {0} /\ DOMAIN s = 1..n /\ \A j \in 1..n : s[j] \in D
  BY <1>1, EmptySeq, LenProperties, ElementOfSeq
<1>3. b \in [1..n -> [leaf : D, depth : Nat]] /\ \A j \in 1..n : b[j] = x[s[j]]
  BY <1>2 DEF Below
<1> HIDE DEF b, n
<1>4. IsFirst(b, f)
  BY <1>2, <1>3, FirstExists
<1> HIDE DEF f
<1>5. f \in 1..n /\ \A j \in 1..n : b[j].depth <= e.depth /\ b[j].depth \in Nat
  BY <1>3, <1>4 DEF IsFirst
<1>6. c \in Range(s) /\ c \in D /\ e = x[c]
  BY <1>2, <1>3, <1>5 DEF Range
<1>7. IsDeepest(tr, ch, A, c, e) /\ m + 1 + e.depth <= N
  BY <1>6
<1>8. Above(b).leaf = e.leaf /\ Above(b).depth = e.depth + 1
  BY DEF Above, f
<1>9. e.depth \in Nat /\ e.leaf \in D
  BY <1>3, <1>5
<1> DEFINE q == e.depth - 1
           l == e.leaf
           d == e.depth
<1>10. q \in 0..N /\ q + 1 = d /\ d \in 0..N /\ q + 1 <= N /\ c \in A[q][l] /\ ch[l] = <<>>
  BY <1>1, <1>7, <1>9 DEF IsDeepest
<1>11. \A j \in 1..n : x[s[j]].depth <= d /\ x[s[j]].depth \in Nat
  BY <1>3, <1>5
<1> HIDE DEF q, c, e
<1>12. k \in A[q + 1][l]
  BY <1>6, <1>9, <1>10, OverChild
<1>13. ASSUME NEW y \in D, NEW a \in 0..N, ch[y] = <<>>, k \in A[a][y] PROVE a <= d
  <2>1. CASE a = 0
    BY <1>10, <2>1
  <2>2. CASE a \in 1..N
    <3>1. PICK h \in Range(s) : h \in A[a - 1][y]
      BY <1>13, <2>2, ThroughChild
    <3>2. a - 1 \in 0..N
      BY <1>1, <2>2
    <3>3. a - 1 <= x[h].depth - 1
      BY <1>13, <3>1, <3>2 DEF IsDeepest
    <3>4. PICK j \in 1..n : h = s[j]
      BY <1>2, <3>1 DEF Range
    <3>5. x[h].depth <= d /\ x[h].depth \in Nat
      BY <1>11, <3>4
    <3> QED BY <1>10, <2>2, <3>3, <3>5
  <2> QED BY <1>1, <2>1, <2>2
<1>14. Above(b).depth - 1 = d /\ m + Above(b).depth = m + 1 + d /\ Above(b).leaf = l
  BY <1>8, <1>10
<1> HIDE DEF l, d
<1>15. IsDeepest(tr, ch, A, k, Above(b))
  BY <1>9, <1>10, <1>12, <1>13, <1>14 DEF IsDeepest, l
<1>16. m + Above(b).depth <= N
  BY <1>7, <1>14 DEF d
<1> QED BY <1>15, <1>16 DEF b

(* The deepest leaf of a root: no leaf of its tree lies further below it. *)
LEMMA DeepestIsDeepest ==
  ASSUME NEW tr, Slice(tr), NEW A, Ups(tr, A), NEW ch, Children(tr, ch),
         NEW r \in DOMAIN tr, Parent(tr, r) = {}
  PROVE  \E d \in 0..Len(tr) :
           LET i == DeepestLeaf(ch, r)
           IN  /\ i \in DOMAIN tr /\ ch[i] = <<>> /\ r \in A[d][i]
               /\ \A l \in DOMAIN tr : \A b \in 0..Len(tr) : ch[l] = <<>> /\ r \in A[b][l] => b <= d
<1> DEFINE N == Len(tr)
           D == DOMAIN tr
           E == [leaf : D, depth : Nat]
<1>1. N \in Nat /\ D = 1..N /\ ch \in [D -> Seq(D)] /\ DOMAIN ch = D
  BY DEF Slice, Children
<1>3. PICK g : Deepest(N, D, ch, g)
  <2> HIDE DEF D, N
  <2> QED BY <1>1, DeepestExists
<1>4. /\ g \in [0..N -> [D -> E]]
      /\ \A n \in 0..N : \A k \in D :
           g[n][k] = IF n = 0 \/ ch[k] = <<>> THEN Leaf(k) ELSE Above(Below(ch, g[n - 1], k))
      /\ \A i \in D : DeepestLeaf(ch, i) = g[N][i].leaf
  BY <1>3 DEF Deepest
<1> DEFINE Claim(n, m, k) == IsDeepest(tr, ch, A, k, g[n][k]) /\ m + g[n][k].depth <= N
           T == {n \in 0..N : \A m \in 0..N : \A k \in D :
                   r \in A[m][k] /\ N <= m + n + 1 => Claim(n, m, k)}
<1>5. ASSUME NEW m \in 0..N, NEW k \in D, r \in A[m][k] PROVE m + 1 <= N
  <2> DEFINE S == UNION {A[j][k] : j \in 0..N}
  <2>1. \A j : j \in S <=> \E n \in 0..N : j \in A[n][k]
    OBVIOUS
  <2> HIDE DEF S
  <2> QED BY <1>5, <2>1, RootLevel
<1>6. ASSUME NEW n \in 0..N, NEW m \in 0..N, NEW k \in D, r \in A[m][k], ch[k] = <<>>
      PROVE  Claim(n, m, k)
  <2>1. g[n][k] = Leaf(k)
    BY <1>4, <1>6
  <2>2. IsDeepest(tr, ch, A, k, Leaf(k))
    BY <1>6, LeafIsDeepest
  <2>3. Leaf(k).depth = 1
    BY DEF Leaf
  <2> QED BY <1>5, <1>6, <2>1, <2>2, <2>3
<1> HIDE DEF Claim
<1>7. 0 \in T
  <2> SUFFICES ASSUME NEW m \in 0..N, NEW k \in D, r \in A[m][k], N <= m + 0 + 1
               PROVE  Claim(0, m, k)
    BY <1>1
  <2>1. m + 1 = N
    <3>1. m + 1 <= N
      BY <1>5
    <3> HIDE DEF N, D
    <3> QED BY <1>1, <3>1
  <2>2. ch[k] = <<>>
    <3> SUFFICES ASSUME ch[k] # <<>> PROVE FALSE
      OBVIOUS
    <3>1. ch[k] \in Seq(D)
      BY <1>1
    <3> HIDE DEF D
    <3>2. Len(ch[k]) \in Nat \ {0} /\ DOMAIN ch[k] = 1..Len(ch[k])
      BY <3>1, EmptySeq, LenProperties
    <3> DEFINE c == ch[k][1]
    <3>3. c \in Range(ch[k])
      <4>1. 1 \in DOMAIN ch[k]
        BY <3>2
      <4> QED BY <4>1 DEF Range
    <3> HIDE DEF c
    <3>4. m + 1 \in 0..N /\ r \in A[m + 1][c] /\ c \in D
      BY <3>3, RootOverChild DEF D
    <3>5. m + 1 + 1 <= N
      BY <1>5, <3>4
    <3> QED BY <1>1, <2>1, <3>5
  <2> QED BY <1>1, <1>6, <2>2
<1>8. ASSUME NEW n \in 1..N, n - 1 \in T PROVE n \in T
  <2>1. n \in 0..N /\ n # 0 /\ n - 1 \in 0..N
    BY <1>1
  <2> SUFFICES ASSUME NEW m \in 0..N, NEW k \in D, r \in A[m][k], N <= m + n + 1
               PROVE  Claim(n, m, k)
    BY <2>1
  <2>2. CASE ch[k] = <<>>
    BY <1>6, <2>1, <2>2
  <2>3. CASE ch[k] # <<>>
    <3>1. ASSUME NEW c \in Range(ch[k])
          PROVE  IsDeepest(tr, ch, A, c, g[n - 1][c]) /\ m + 1 + g[n - 1][c].depth <= N
      <4>1. m + 1 \in 0..N /\ r \in A[m + 1][c] /\ c \in D
        BY RootOverChild
      <4>2. N <= (m + 1) + (n - 1) + 1
        BY <1>1
      <4>3. Claim(n - 1, m + 1, c)
        BY <1>8, <4>1, <4>2
      <4> QED BY <4>3 DEF Claim
    <3> DEFINE x == g[n - 1]
    <3>2. x \in [D -> E] /\ g[n][k] = Above(Below(ch, x, k)) /\ m \in Nat
      <4>1. m \in Nat /\ x \in [D -> E]
        <5>1. m \in Nat
          BY <1>1
        <5> HIDE DEF E
        <5>2. x \in [D -> E]
          BY <1>4, <2>1
        <5> QED BY <5>1, <5>2
      <4>2. g[n][k] = Above(Below(ch, x, k))
        BY <1>4, <2>1, <2>3
      <4> QED BY <4>1, <4>2
    <3> HIDE DEF x
    <3>3. \A c \in Range(ch[k]) : IsDeepest(tr, ch, A, c, x[c]) /\ m + 1 + x[c].depth <= N
      BY <3>1 DEF x
    <3>4. /\ IsDeepest(tr, ch, A, k, Above(Below(ch, x, k)))
          /\ m + Above(Below(ch, x, k)).depth <= N
      BY <2>3, <3>2, <3>3, AboveIsDeepest
    <3> QED BY <3>2, <3>4 DEF Claim
  <2> QED BY <2>2, <2>3
<1> HIDE DEF T
<1>9. 0..N \subseteq T
  BY <1>1, <1>7, <1>8, UpToN
<1>10. N \in T /\ 0 \in 0..N /\ N <= 0 + N + 1
  BY <1>1, <1>9
<1>11. r \in A[0][r]
  BY DEF Ups
<1>12. Claim(N, 0, r)
  BY <1>10, <1>11 DEF T
<1>13. IsDeepest(tr, ch, A, r, g[N][r])
  BY <1>12 DEF Claim
<1> QED BY <1>4, <1>13 DEF IsDeepest

(* A second parse finds the same deepest leaves. *)
LEMMA SameDeepest ==
  ASSUME NEW tr, Slice(tr), NEW r \in DOMAIN tr
  PROVE  DeepestLeaf(Twice(tr), r) = DeepestLeaf(Once(tr), r)
<1> DEFINE N == Len(tr)
           D == DOMAIN tr
           E == [leaf : D, depth : Nat]
           s == Once(tr)
           t == Twice(tr)
<1>1. N \in Nat /\ D = 1..N /\ s \in [D -> Seq(D)] /\ t \in [D -> Seq(D)]
  BY OnceIsChildren DEF Slice, Children
<1>2. \A k \in D : t[k] = s[k] \o s[k]
  BY TwiceRepeats
<1>3. r \in D
  OBVIOUS
<1> HIDE DEF N, D, s, t
<1> HIDE DEF E
<1>4. PICK g : Deepest(N, D, s, g)
  <2>1. N \in Nat /\ D = 1..N /\ s \in [D -> Seq(D)]
    BY <1>1
  <2> QED BY <2>1, DeepestExists
<1>5. PICK h : Deepest(N, D, t, h)
  <2>1. N \in Nat /\ D = 1..N /\ t \in [D -> Seq(D)]
    BY <1>1
  <2> QED BY <2>1, DeepestExists
<1>6. g \in [0..N -> [D -> E]] /\ h \in [0..N -> [D -> E]]
  BY <1>4, <1>5 DEF Deepest, E
<1>7. \A n \in 0..N : \A k \in D :
        /\ g[n][k] = IF n = 0 \/ s[k] = <<>> THEN Leaf(k) ELSE Above(Below(s, g[n - 1], k))
        /\ h[n][k] = IF n = 0 \/ t[k] = <<>> THEN Leaf(k) ELSE Above(Below(t, h[n - 1], k))
  BY <1>4, <1>5 DEF Deepest
<1> DEFINE T == {n \in 0..N : \A k \in D : g[n][k] = h[n][k]}
<1>8. 0 \in T
  <2>1. 0 \in 0..N
    BY <1>1
  <2>2. \A k \in D : g[0][k] = Leaf(k) /\ h[0][k] = Leaf(k)
    BY <1>7, <2>1
  <2> QED BY <2>1, <2>2
<1>9. ASSUME NEW n \in 1..N, n - 1 \in T PROVE n \in T
  <2>1. n \in 0..N /\ n # 0 /\ n - 1 \in 0..N
    BY <1>1
  <2> SUFFICES ASSUME NEW k \in D PROVE g[n][k] = h[n][k]
    BY <2>1
  <2>2. s[k] \in Seq(D) /\ t[k] = s[k] \o s[k]
    BY <1>1, <1>2
  <2> DEFINE u == s[k]
             m == Len(u)
             x == g[n - 1]
             y == h[n - 1]
             b == Below(s, x, k)
             c == Below(t, y, k)
  <2>3. x \in [D -> E] /\ y \in [D -> E] /\ \A j \in D : x[j] = y[j]
    BY <1>6, <1>9, <2>1
  <2>4. /\ t[k] \in Seq(D) /\ Len(t[k]) = m + m
        /\ \A j \in 1..(m + m) : t[k][j] = IF j <= m THEN u[j] ELSE u[j - m]
    BY <2>2, ConcatProperties
  <2>5. m \in Nat /\ DOMAIN u = 1..m /\ DOMAIN t[k] = 1..(m + m) /\ \A j \in 1..m : u[j] \in D
    BY <2>2, <2>4, LenProperties, ElementOfSeq
  <2>6. t[k] = <<>> <=> u = <<>>
    BY <2>2, ConcatEqualIffEmpty
  <2>7. CASE u = <<>>
    BY <1>7, <2>1, <2>6, <2>7
  <2>8. CASE u # <<>>
    <3>1. m \in Nat \ {0}
      BY <2>2, <2>8, EmptySeq
    <3>2. b = [j \in 1..m |-> x[u[j]]] /\ c = [j \in 1..(m + m) |-> y[t[k][j]]]
      BY <2>5 DEF Below
    <3>3. g[n][k] = Above(b) /\ h[n][k] = Above(c)
      BY <1>7, <2>1, <2>6, <2>8
    <3> HIDE DEF b, c, m, u, x, y
    <3>4. b \in [1..m -> E]
      BY <2>3, <2>5, <3>2
    <3>5. \A j \in 1..(m + m) : c[j] = IF j <= m THEN b[j] ELSE b[j - m]
      <4> SUFFICES ASSUME NEW j \in 1..(m + m) PROVE c[j] = IF j <= m THEN b[j] ELSE b[j - m]
        OBVIOUS
      <4>1. c[j] = y[t[k][j]]
        BY <3>2
      <4>2. CASE j <= m
        <5>1. j \in 1..m /\ t[k][j] = u[j] /\ u[j] \in D
          BY <2>4, <2>5, <4>2
        <5> QED BY <2>3, <3>2, <4>1, <4>2, <5>1
      <4>3. CASE ~(j <= m)
        <5>1. j - m \in 1..m /\ t[k][j] = u[j - m]
          BY <2>4, <2>5, <4>3
        <5>2. u[j - m] \in D
          BY <2>5, <5>1
        <5> QED BY <2>3, <3>2, <4>1, <4>3, <5>1, <5>2
      <4> QED BY <4>2, <4>3
    <3>6. c \in [1..(m + m) -> E]
      <4>1. \A j \in 1..(m + m) : j <= m => j \in 1..m
        BY <2>5
      <4>2. \A j \in 1..(m + m) : ~(j <= m) => j - m \in 1..m
        BY <2>5
      <4>3. \A j \in 1..(m + m) : c[j] \in E
        BY <3>4, <3>5, <4>1, <4>2
      <4>4. c = [j \in 1..(m + m) |-> c[j]]
        BY <3>2
      <4> QED BY <4>3, <4>4
    <3>7. Above(c) = Above(b)
      <4>1. b \in [1..m -> [leaf : D, depth : Nat]] /\ c \in [1..(m + m) -> [leaf : D, depth : Nat]]
        BY <3>4, <3>6 DEF E
      <4>2. \A j \in 1..(m + m) : c[j] = IF j <= m THEN b[j] ELSE b[j - m]
        BY <3>5
      <4> HIDE DEF b, c
      <4>3. m \in Nat \ {0}
        BY <3>1
      <4> QED BY <4>1, <4>2, <4>3, SameAbove, ZenonT(30)
    <3> QED BY <3>3, <3>7
  <2> QED BY <2>7, <2>8
<1> HIDE DEF T
<1>10. 0..N \subseteq T
  BY <1>1, <1>8, <1>9, UpToN
<1>11. N \in T
  BY <1>1, <1>10
<1>12. g[N][r] = h[N][r]
  BY <1>3, <1>11 DEF T
<1>13. DeepestLeaf(s, r) = g[N][r].leaf /\ DeepestLeaf(t, r) = h[N][r].leaf
  BY <1>3, <1>4, <1>5 DEF Deepest
<1> QED BY <1>12, <1>13 DEF s, t

-------------------------------------------------------------------------------
(* The worst of finitely many codes is one of them. *)
LEMMA WorstIsOne ==
  ASSUME NEW S \in SUBSET Int, IsFiniteSet(S), S # {}
  PROVE  WorstCode(S) \in S /\ \A d \in S : d <= WorstCode(S)
<1> DEFINE n == Cardinality(S)
<1>1. n \in Nat /\ ExistsBijection(1..n, S)
  BY FS_CardinalityType
<1>2. n # 0
  BY FS_EmptySet
<1> HIDE DEF n
<1>3. PICK f : f \in Bijection(1..n, S)
  BY <1>1 DEF ExistsBijection
<1>4. f \in [1..n -> S] /\ \A d \in S : \E j \in 1..n : f[j] = d
  BY <1>3 DEF Bijection, Surjection
<1>5. f \in [1..n -> Int] /\ n \in Nat \ {0}
  BY <1>1, <1>2, <1>4
<1>6. PICK j \in 1..n : \A l \in 1..n : f[l] <= f[j] /\ (f[l] = f[j] => j <= l)
  BY <1>5, FirstOfLargest
<1>7. f[j] \in S /\ \A d \in S : d <= f[j]
  BY <1>4, <1>6
<1> QED BY <1>7 DEF WorstCode

(* The codes among what x gives a set of spans. *)
CodesIn(x, R) == Numbers({x[c] : c \in R})

(* The worst of the codes of some spans is one of them, if any is a number. *)
LEMMA WorstOfChildren ==
  ASSUME NEW N \in Nat, NEW D, D = 1..N, NEW s \in Seq(D),
         NEW x \in [D -> Int \cup {NoTags, NoNumber}]
  PROVE  /\ CodesIn(x, Range(s)) \in SUBSET Int
         /\ CodesIn(x, Range(s)) # {} =>
              /\ WorstCode(CodesIn(x, Range(s))) \in CodesIn(x, Range(s))
              /\ \A d \in CodesIn(x, Range(s)) : d <= WorstCode(CodesIn(x, Range(s)))
<1> DEFINE R == Range(s)
           I == {x[c] : c \in R}
           S == Numbers(I)
<1>1. IsFiniteSet(D)
  BY FS_Interval
<1>2. R \in SUBSET D
  BY RangeOfSeq
<1> HIDE DEF R
<1>3. IsFiniteSet(R)
  BY <1>1, <1>2, FS_Subset
<1> DEFINE f == [c \in R |-> x[c]]
<1>4. f \in Surjection(R, I)
  BY DEF Surjection
<1>5. IsFiniteSet(I)
  BY <1>3, <1>4, FS_Surjection
<1>6. I \subseteq Int \cup {NoTags, NoNumber}
  BY <1>2
<1> HIDE DEF I
<1>7. S \in SUBSET I /\ S \in SUBSET Int
  BY <1>6 DEF Numbers
<1> HIDE DEF S
<1>8. IsFiniteSet(S)
  BY <1>5, <1>7, FS_Subset
<1>9. S # {} => WorstCode(S) \in S /\ \A d \in S : d <= WorstCode(S)
  BY <1>7, <1>8, WorstIsOne
<1>10. S = CodesIn(x, Range(s))
  BY DEF S, I, R, CodesIn
<1> QED BY <1>7, <1>9, <1>10

Coded(tr) == \A i \in DOMAIN tr : tr[i].code \in Int \cup {NoTags, NoNumber}
Own(tr, ch, k) == Numbers({tr[c].code : c \in Range(ch[k])})
Under(ch, x, k) == Numbers({x[c] : c \in Range(ch[k])})
CodeOf(tr, k, own, below) ==
  IF tr[k].code # NoTags THEN tr[k].code
  ELSE IF own # {} THEN WorstCode(own)
  ELSE IF below # {} THEN WorstCode(below)
  ELSE NoNumber

(* How the status code of a span is found, n levels deep. *)
Codes(N, D, tr, ch, g) ==
  /\ g \in [0..N -> [D -> Int \cup {NoTags, NoNumber}]]
  /\ \A n \in 0..N : \A k \in D :
       g[n][k] = CodeOf(tr, k, Own(tr, ch, k), IF n = 0 THEN {} ELSE Under(ch, g[n - 1], k))
  /\ \A i \in D : GetHTTPStatusCode(tr, ch, i) = g[N][i]

(* The tags of a span's children. *)
LEMMA OwnCodes ==
  ASSUME NEW N \in Nat, NEW D, D = 1..N, NEW ch \in [D -> Seq(D)],
         NEW tr, DOMAIN tr = D, Coded(tr), NEW k \in D
  PROVE  /\ Own(tr, ch, k) \in SUBSET Int
         /\ Own(tr, ch, k) # {} => /\ WorstCode(Own(tr, ch, k)) \in Own(tr, ch, k)
                                   /\ \A d \in Own(tr, ch, k) : d <= WorstCode(Own(tr, ch, k))
<1> DEFINE x == [i \in D |-> tr[i].code]
           R == Range(ch[k])
<1>1. x \in [D -> Int \cup {NoTags, NoNumber}] /\ ch[k] \in Seq(D)
  BY DEF Coded
<1>2. R \in SUBSET D
  BY <1>1, RangeOfSeq
<1>3. {tr[c].code : c \in R} = {x[c] : c \in R}
  BY <1>2
<1>4. Own(tr, ch, k) = CodesIn(x, Range(ch[k]))
  BY <1>3 DEF Own, CodesIn
<1> HIDE DEF x
<1> QED BY <1>1, <1>4, WorstOfChildren

(* What the level before found below the children. *)
LEMMA UnderCodes ==
  ASSUME NEW N \in Nat, NEW D, D = 1..N, NEW ch \in [D -> Seq(D)],
         NEW x \in [D -> Int \cup {NoTags, NoNumber}], NEW k \in D
  PROVE  /\ Under(ch, x, k) \in SUBSET Int
         /\ Under(ch, x, k) # {} => WorstCode(Under(ch, x, k)) \in Under(ch, x, k)
<1>1. ch[k] \in Seq(D)
  OBVIOUS
<1> DEFINE s == ch[k]
<1>2. Under(ch, x, k) = CodesIn(x, Range(s))
  BY DEF Under, CodesIn
<1>3. s \in Seq(D)
  BY <1>1
<1> HIDE DEF s
<1>4. /\ CodesIn(x, Range(s)) \in SUBSET Int
      /\ CodesIn(x, Range(s)) # {} => WorstCode(CodesIn(x, Range(s))) \in CodesIn(x, Range(s))
  BY <1>3, WorstOfChildren
<1> QED BY <1>2, <1>4

(* The codes of all levels can be formed, and each is a code. *)
LEMMA CodesExist ==
  ASSUME NEW N \in Nat, NEW D, D = 1..N, NEW ch \in [D -> Seq(D)],
         NEW tr, DOMAIN tr = D, Coded(tr)
  PROVE  \E g : Codes(N, D, tr, ch, g)
<1> DEFINE V == Int \cup {NoTags, NoNumber}
           X == [D -> V]
           at0 == [k \in D |-> CodeOf(tr, k, Own(tr, ch, k), {})]
           with(x) == [k \in D |-> CodeOf(tr, k, Own(tr, ch, k), Under(ch, x, k))]
           H == [n \in 1..N |-> [x \in X |-> with(x)]]
           at1(w, n) == [k \in D |->
             CodeOf(tr, k, Own(tr, ch, k), IF n = 0 THEN {} ELSE Under(ch, w[n - 1], k))]
           up(w) == [n \in 0..N |-> at1(w, n)]
           code == CHOOSE w : w = up(w)
<1>1. DOMAIN ch = D /\ Len(ch) = N
  <2>1. ch \in Seq(Seq(D))
    BY SeqDef
  <2>2. DOMAIN ch = 1..Len(ch) /\ Len(ch) \in Nat
    BY <2>1, LenProperties
  <2> QED BY <2>2
<1>2. \A i \in D : GetHTTPStatusCode(tr, ch, i) = code[N][i]
  BY <1>1 DEF GetHTTPStatusCode, CodeOf, Own, Under
<1>3. ASSUME NEW k \in D, NEW below \in SUBSET Int, below # {} => WorstCode(below) \in below
      PROVE  CodeOf(tr, k, Own(tr, ch, k), below) \in V
  <2>1. tr[k].code \in V
    BY DEF Coded
  <2>2. /\ Own(tr, ch, k) \in SUBSET Int
        /\ Own(tr, ch, k) # {} => WorstCode(Own(tr, ch, k)) \in Own(tr, ch, k)
    BY OwnCodes
  <2> QED BY <1>3, <2>1, <2>2 DEF CodeOf
<1>4. at0 \in X
  <2>1. \A k \in D : CodeOf(tr, k, Own(tr, ch, k), {}) \in V
    BY <1>3
  <2> HIDE DEF V
  <2> QED BY <2>1
<1>5. \A x \in X : with(x) \in X
  <2> SUFFICES ASSUME NEW x \in X PROVE with(x) \in X
    OBVIOUS
  <2>1. ASSUME NEW k \in D PROVE CodeOf(tr, k, Own(tr, ch, k), Under(ch, x, k)) \in V
    <3>1. /\ Under(ch, x, k) \in SUBSET Int
          /\ Under(ch, x, k) # {} => WorstCode(Under(ch, x, k)) \in Under(ch, x, k)
      BY UnderCodes
    <3> QED BY <1>3, <3>1
  <2> HIDE DEF V
  <2> QED BY <2>1
<1> HIDE DEF X, V, with
<1>6. H \in [1..N -> [X -> X]] /\ \A n \in 1..N : \A x \in X : H[n][x] = with(x)
  BY <1>5
<1> HIDE DEF H, at0
<1>7. PICK g : Iterate(N, X, at0, H, g)
  BY <1>4, <1>6, Iterates
<1>8. g \in [0..N -> X] /\ g[0] = at0
  BY <1>7 DEF Iterate
<1>9. ASSUME NEW n \in 1..N PROVE g[n] = with(g[n - 1])
  <2>1. n - 1 \in 0..N
    OBVIOUS
  <2>2. g[n - 1] \in X
    BY <1>8, <2>1
  <2> QED BY <1>6, <1>7, <2>2 DEF Iterate
<1>10. \A w : at1(w, 0) = at0
  BY DEF at0
<1>11. \A w : \A n \in 1..N : at1(w, n) = with(w[n - 1])
  BY DEF with
<1> HIDE DEF at1
<1>12. \A n \in 0..N : n = 0 \/ n \in 1..N
  OBVIOUS
<1>13. g = up(g)
  <2>1. g = [n \in 0..N |-> g[n]]
    BY <1>8
  <2>2. \A n \in 0..N : g[n] = at1(g, n)
    BY <1>8, <1>9, <1>10, <1>11, <1>12
  <2> QED BY <2>1, <2>2
<1>14. code = up(code)
  BY <1>13
<1> HIDE DEF code
<1>15. code = [n \in 0..N |-> code[n]] /\ \A n \in 0..N : code[n] = at1(code, n)
  BY <1>14
<1> HIDE DEF up
<1> DEFINE T == {n \in 0..N : code[n] \in X}
<1>16. 0 \in T
  <2>1. 0 \in 0..N
    OBVIOUS
  <2> QED BY <1>4, <1>10, <1>15, <2>1
<1>17. ASSUME NEW n \in 1..N, n - 1 \in T PROVE n \in T
  <2>1. n \in 0..N
    OBVIOUS
  <2>2. code[n] = with(code[n - 1])
    BY <1>11, <1>15, <2>1
  <2> QED BY <1>5, <1>17, <2>1, <2>2
<1> HIDE DEF T
<1>18. 0..N \subseteq T
  BY <1>16, <1>17, UpToN
<1>19. code \in [0..N -> X]
  <2>1. \A n \in 0..N : code[n] \in X
    BY <1>18 DEF T
  <2> QED BY <1>15, <2>1
<1>20. \A n \in 0..N : \A k \in D : code[n][k] =
         CodeOf(tr, k, Own(tr, ch, k), IF n = 0 THEN {} ELSE Under(ch, code[n - 1], k))
  BY <1>15 DEF at1
<1>21. Codes(N, D, tr, ch, code)
  <2>1. code \in [0..N -> [D -> Int \cup {NoTags, NoNumber}]]
    BY <1>19 DEF X, V
  <2> QED BY <1>2, <1>20, <2>1 DEF Codes
<1> QED BY <1>21

(* The code of a root is that of some span of its tree, or none.           *)
LEMMA CodeFromTree ==
  ASSUME NEW tr, Slice(tr), Coded(tr), NEW A, Ups(tr, A), NEW ch, Children(tr, ch),
         NEW r \in DOMAIN tr, Parent(tr, r) = {},
         GetHTTPStatusCode(tr, ch, r) # NoNumber
  PROVE  \E i \in DOMAIN tr : \E a \in 0..Len(tr) :
           /\ r \in A[a][i]
           /\ tr[i].code = GetHTTPStatusCode(tr, ch, r)
           /\ tr[i].code \notin {NoTags, NoNumber}
<1> DEFINE N == Len(tr)
           D == DOMAIN tr
           From(m, k, e) == \E i \in D : \E a \in 0..N :
             /\ m + a <= N /\ k \in A[a][i]
             /\ tr[i].code = e /\ e \notin {NoTags, NoNumber}
<1>1. N \in Nat /\ D = 1..N /\ ch \in [D -> Seq(D)]
  BY DEF Slice, Children
<1>2. PICK g : Codes(N, D, tr, ch, g)
  <2> HIDE DEF D, N
  <2>1. DOMAIN tr = D
    BY DEF D
  <2> QED BY <1>1, <2>1, CodesExist
<1>3. /\ g \in [0..N -> [D -> Int \cup {NoTags, NoNumber}]]
      /\ \A n \in 0..N : \A k \in D :
           g[n][k] = CodeOf(tr, k, Own(tr, ch, k), IF n = 0 THEN {} ELSE Under(ch, g[n - 1], k))
      /\ \A i \in D : GetHTTPStatusCode(tr, ch, i) = g[N][i]
  BY <1>2 DEF Codes
<1>4. ASSUME NEW m \in 0..N, NEW k \in D, r \in A[m][k], NEW c \in Range(ch[k])
      PROVE  m + 1 \in 0..N /\ r \in A[m + 1][c] /\ c \in D
  BY <1>4, RootOverChild
<1>5. ASSUME NEW m \in 0..N, NEW k \in D, r \in A[m][k], NEW below,
             below \in SUBSET Int, below # {} => WorstCode(below) \in below,
             \A e \in below : From(m, k, e)
      PROVE  CodeOf(tr, k, Own(tr, ch, k), below) = NoNumber
               \/ From(m, k, CodeOf(tr, k, Own(tr, ch, k), below))
  <2> DEFINE e == CodeOf(tr, k, Own(tr, ch, k), below)
  <2>1. CASE tr[k].code # NoTags
    <3>1. e = tr[k].code
      BY <2>1 DEF CodeOf
    <3>2. k \in A[0][k] /\ 0 \in 0..N /\ m + 0 <= N
      BY <1>1 DEF Ups
    <3> HIDE DEF e, D
    <3>3. e # NoNumber => From(m, k, e)
      BY <1>5, <2>1, <3>1, <3>2
    <3> QED BY <3>3 DEF e
  <2>2. CASE tr[k].code = NoTags /\ Own(tr, ch, k) # {}
    <3>1. e = WorstCode(Own(tr, ch, k))
      BY <2>2 DEF CodeOf
    <3>2. e \in Own(tr, ch, k)
      <4> HIDE DEF D, N, From
      <4>1. DOMAIN tr = D
        BY DEF D
      <4>2. WorstCode(Own(tr, ch, k)) \in Own(tr, ch, k)
        BY <1>1, <2>2, <4>1, OwnCodes
      <4> QED BY <3>1, <4>2
    <3> HIDE DEF e
    <3>3. PICK c \in Range(ch[k]) : tr[c].code = e /\ e \notin {NoTags, NoNumber}
      BY <3>2 DEF Own, Numbers
    <3>4. m + 1 \in 0..N /\ c \in D
      BY <1>4, <1>5
    <3>5. c \in A[0][c] /\ 0 \in 0..N /\ 0 + 1 = 1 /\ 1 <= N /\ 1 \in 0..N /\ m + 1 <= N
      BY <1>1, <3>4 DEF Ups
    <3>6. k \in A[0 + 1][c]
      BY <3>4, <3>5, OverChild
    <3>7. From(m, k, e)
      BY <3>3, <3>4, <3>5, <3>6
    <3> QED BY <3>7 DEF e
  <2>3. CASE tr[k].code = NoTags /\ Own(tr, ch, k) = {} /\ below # {}
    <3>1. e = WorstCode(below)
      BY <2>3 DEF CodeOf
    <3> HIDE DEF e, From
    <3>2. From(m, k, e)
      BY <1>5, <2>3, <3>1
    <3> QED BY <3>2 DEF e
  <2>4. CASE tr[k].code = NoTags /\ Own(tr, ch, k) = {} /\ below = {}
    BY <2>4 DEF CodeOf
  <2> HIDE DEF From
  <2> QED BY <2>1, <2>2, <2>3, <2>4
<1>6. ASSUME NEW m \in 0..N, NEW k \in D, r \in A[m][k], NEW c \in Range(ch[k]), NEW e,
             From(m + 1, c, e)
      PROVE  From(m, k, e)
  <2>1. PICK i \in D, a \in 0..N : /\ m + 1 + a <= N /\ c \in A[a][i]
                                   /\ tr[i].code = e /\ e \notin {NoTags, NoNumber}
    BY <1>6
  <2>2. a + 1 <= N /\ a + 1 \in 0..N /\ m + (a + 1) <= N
    BY <1>1, <2>1
  <2>3. k \in A[a + 1][i]
    BY <2>1, <2>2, OverChild
  <2> QED BY <2>1, <2>2, <2>3
<1> HIDE DEF From
<1> DEFINE T == {n \in 0..N : \A m \in 0..N : \A k \in D :
                   r \in A[m][k] => g[n][k] = NoNumber \/ From(m, k, g[n][k])}
<1>7. 0 \in T
  <2>1. 0 \in 0..N
    BY <1>1
  <2> SUFFICES ASSUME NEW m \in 0..N, NEW k \in D, r \in A[m][k]
               PROVE  g[0][k] = NoNumber \/ From(m, k, g[0][k])
    BY <2>1
  <2>2. g[0][k] = CodeOf(tr, k, Own(tr, ch, k), {})
    BY <1>3, <2>1
  <2> HIDE DEF D, N
  <2>3. CodeOf(tr, k, Own(tr, ch, k), {}) = NoNumber \/ From(m, k, CodeOf(tr, k, Own(tr, ch, k), {}))
    BY <1>5
  <2> QED BY <2>2, <2>3
<1>8. ASSUME NEW n \in 1..N, n - 1 \in T PROVE n \in T
  <2>1. n \in 0..N /\ n # 0 /\ n - 1 \in 0..N
    BY <1>1
  <2> SUFFICES ASSUME NEW m \in 0..N, NEW k \in D, r \in A[m][k]
               PROVE  g[n][k] = NoNumber \/ From(m, k, g[n][k])
    BY <2>1
  <2> DEFINE x == g[n - 1]
             below == Under(ch, x, k)
  <2>2. x \in [D -> Int \cup {NoTags, NoNumber}]
    BY <1>3, <2>1
  <2>3. g[n][k] = CodeOf(tr, k, Own(tr, ch, k), below)
    BY <1>3, <2>1
  <2>4. ASSUME NEW c \in Range(ch[k]) PROVE x[c] = NoNumber \/ From(m, k, x[c])
    <3>1. m + 1 \in 0..N /\ r \in A[m + 1][c] /\ c \in D
      BY <1>4
    <3>2. x[c] = NoNumber \/ From(m + 1, c, x[c])
      BY <1>8, <3>1
    <3> QED BY <1>6, <3>2
  <2> HIDE DEF x, D, N
  <2>5. below \in SUBSET Int /\ (below # {} => WorstCode(below) \in below)
    BY <1>1, <2>2, UnderCodes
  <2>6. \A e \in below : From(m, k, e)
    <3>1. \A e \in below : e # NoNumber /\ \E c \in Range(ch[k]) : e = x[c]
      BY DEF Under, Numbers
    <3> HIDE DEF below
    <3> QED BY <2>4, <3>1
  <2> HIDE DEF below
  <2> QED BY <1>5, <2>3, <2>5, <2>6
<1> HIDE DEF T
<1>9. 0..N \subseteq T
  BY <1>1, <1>7, <1>8, UpToN
<1>10. N \in T /\ 0 \in 0..N
  BY <1>1, <1>9
<1>11. r \in A[0][r]
  BY DEF Ups
<1>12. From(0, r, g[N][r])
  BY <1>3, <1>10, <1>11 DEF T
<1>13. GetHTTPStatusCode(tr, ch, r) = g[N][r]
  BY <1>3
<1> QED BY <1>12, <1>13 DEF From

(* A span without tags is as bad as the worst code of its children. *)
LEMMA CodeOfChildren ==
  ASSUME NEW tr, Slice(tr), Coded(tr), NEW ch, Children(tr, ch),
         NEW r \in DOMAIN tr, tr[r].code = NoTags,
         NEW i \in Range(ch[r]), tr[i].code \notin {NoTags, NoNumber}
  PROVE  GetHTTPStatusCode(tr, ch, r) \in Int /\ tr[i].code <= GetHTTPStatusCode(tr, ch, r)
<1> DEFINE N == Len(tr)
           D == DOMAIN tr
<1>1. N \in Nat /\ D = 1..N /\ ch \in [D -> Seq(D)] /\ N \in 0..N /\ r \in D
  BY DEF Slice, Children
<1>2. DOMAIN tr = D
  OBVIOUS
<1> HIDE DEF N, D
<1>3. PICK g : Codes(N, D, tr, ch, g)
  BY <1>1, <1>2, CodesExist
<1> DEFINE own == Own(tr, ch, r)
           below == IF N = 0 THEN {} ELSE Under(ch, g[N - 1], r)
<1>4. GetHTTPStatusCode(tr, ch, r) = CodeOf(tr, r, own, below)
  BY <1>1, <1>3 DEF Codes
<1>5. tr[i].code \in own
  BY DEF Own, Numbers
<1> HIDE DEF below
<1>6. CodeOf(tr, r, own, below) = WorstCode(own)
  BY <1>5 DEF CodeOf
<1>7. own \in SUBSET Int /\ WorstCode(own) \in own /\ \A d \in own : d <= WorstCode(own)
  BY <1>1, <1>2, <1>5, OwnCodes
<1> HIDE DEF own
<1> QED BY <1>4, <1>5, <1>6, <1>7

-------------------------------------------------------------------------------
(* From each parse on its order sorts the roots; a chart that is drawn is  *)
(* the one of its order, and nothing it is drawn of changes any more.      *)
Drawing ==
  /\ \A i \in DOMAIN stored : stored[i].duration \in Nat \ {0}
  /\ Parsed => e2e \in SortedBy(Roots(traces), Key(system, "e2e"))
  /\ pc = "graphs" \/ chart # NoChart =>
       bySystem \in SortedBy(Roots(traces), Key(system, "system"))
  /\ chart # NoChart =>
       /\ pc = "done"
       /\ chart = [latencyType \in LatencyTypes |->
                     PlotGraph(OrderOf(latencyType), Drawn(latencyType))]

(* What is drawn depends on the trees alone. *)
LEMMA DrawnOfTrees ==
  ASSUME UNCHANGED <<traces, child, system>>
  PROVE  /\ \A order, x : PlotGraph(order, x)' = PlotGraph(order, x)
         /\ \A latencyType, order : Durations(latencyType, order)' = Durations(latencyType, order)
         /\ \A latencyType : Key(system, latencyType)' = Key(system, latencyType)
BY DEF PlotGraph, Durations, IsError, CDF, Percentiles, Quantile, Key

(* So a chart that is drawn stays the one of its order. *)
LEMMA ChartOfTrees ==
  ASSUME UNCHANGED <<traces, child, system, e2e, bySystem>>
  PROVE  [latencyType \in LatencyTypes |-> PlotGraph(OrderOf(latencyType), Drawn(latencyType))]' =
         [latencyType \in LatencyTypes |-> PlotGraph(OrderOf(latencyType), Drawn(latencyType))]
<1>1. \A latencyType : OrderOf(latencyType)' = OrderOf(latencyType)
  BY DEF OrderOf
<1>2. \A latencyType : Drawn(latencyType)' = Drawn(latencyType)
  BY <1>1, DrawnOfTrees DEF Drawn
<1>3. \A latencyType : PlotGraph(OrderOf(latencyType), Drawn(latencyType))' =
                       PlotGraph(OrderOf(latencyType), Drawn(latencyType))
  BY <1>1, <1>2, DrawnOfTrees
<1> QED BY <1>3 DEF LatencyTypes

(* Whatever changes neither the trees nor the orders nor the charts keeps  *)
(* what they agree on.                                                     *)
LEMMA DrawingKept ==
  ASSUME Drawing, UNCHANGED <<stored, forest, e2e, bySystem, chart>>,
         Parsed' => Parsed, pc' = "graphs" => pc = "graphs", chart # NoChart => pc' = "done"
  PROVE  Drawing'
<1>1. UNCHANGED <<stored, traces, child, system, e2e, bySystem, chart, NoChart>>
  BY DEF forest, NoChart
<1>2. /\ Key(system, "e2e")' = Key(system, "e2e")
      /\ Key(system, "system")' = Key(system, "system")
  BY <1>1, DrawnOfTrees
<1> QED BY <1>1, <1>2, ChartOfTrees DEF Drawing

(* No chart is drawn before the plots.                                     *)
LEMMA DrawingStep == Drawing /\ [Next]_vars => Drawing'
<1> SUFFICES ASSUME Drawing, [Next]_vars PROVE Drawing'
  OBVIOUS
<1>1. CASE ReadPage \/ ReadFails \/ ReadPanics \/ MkdirFails
  BY <1>1 DEF ReadPage, ReadFails, ReadPanics, MkdirFails, Drawing, Parsed, loading
<1>2. CASE ParseE2E
  <2>1. /\ e2e' \in SortedBy(Roots(traces), Key(system', "e2e"))
        /\ UNCHANGED <<stored, traces, chart>> /\ pc = "parse" /\ pc' # "graphs"
    BY <1>2 DEF ParseE2E, ParseTraces, loading
  <2>2. chart = NoChart
    BY <2>1 DEF Drawing
  <2> QED BY <2>1, <2>2 DEF Drawing, Key, NoChart
<1>3. CASE ParseSystem
  <2>1. /\ bySystem' \in SortedBy(Roots(traces), Key(system', "system"))
        /\ UNCHANGED <<stored, traces, e2e, chart>> /\ pc = "plot"
    BY <1>3 DEF ParseSystem, ParseTraces, loading
  <2>2. chart = NoChart /\ e2e \in SortedBy(Roots(traces), Key(system, "e2e"))
    BY <2>1 DEF Drawing, Parsed
  <2>3. Key(system', "e2e") = Key(system, "e2e")
    BY DEF Key
  <2> QED BY <2>1, <2>2, <2>3 DEF Drawing, Key, NoChart
<1>4. CASE Graphs
  <2>1. /\ UNCHANGED <<stored, traces, child, system, e2e, bySystem>> /\ pc = "graphs"
        /\ \/ /\ chart' = [latencyType \in LatencyTypes |->
                              PlotGraph(OrderOf(latencyType), Drawn(latencyType))]
              /\ pc' = "done"
           \/ pc' = "panic" /\ UNCHANGED chart
    BY <1>4 DEF Graphs, forest, loading
  <2>2. /\ chart = NoChart
        /\ e2e \in SortedBy(Roots(traces), Key(system, "e2e"))
        /\ bySystem \in SortedBy(Roots(traces), Key(system, "system"))
    BY <2>1 DEF Drawing, Parsed
  <2>3. CASE pc' = "panic" /\ UNCHANGED chart
    BY <2>1, <2>2, <2>3 DEF Drawing, Parsed, NoChart
  <2>4. CASE pc' = "done" /\ chart' = [latencyType \in LatencyTypes |->
                                         PlotGraph(OrderOf(latencyType), Drawn(latencyType))]
    <3>1. /\ Key(system, "e2e")' = Key(system, "e2e")
          /\ Key(system, "system")' = Key(system, "system")
      BY <2>1, DrawnOfTrees
    <3> QED BY <2>1, <2>2, <2>4, <3>1, ChartOfTrees DEF Drawing
  <2> QED BY <2>1, <2>3, <2>4
<1>5. CASE StartDownloads \/ Wait
  <2>1. /\ UNCHANGED <<stored, forest, e2e, bySystem, chart>>
        /\ pc \in {"mkdir", "wait"} /\ pc' # "graphs"
    BY <1>5 DEF StartDownloads, Wait, loading
  <2> QED BY <2>1, DrawingKept DEF Drawing, Parsed
<1>6. CASE \E t \in Thread : Download(t)
  <2>1. UNCHANGED <<pc, stored, forest, e2e, bySystem, chart>>
    BY <1>6 DEF Download, Lock, Unlock, Done, Get, CreateFails, Create, Copy, CopyFails,
                mainParts, loading
  <2> QED BY <2>1, DrawingKept DEF Drawing, Parsed
<1>7. CASE UNCHANGED vars
  <2>1. UNCHANGED <<pc, stored, forest, e2e, bySystem, chart>>
    BY <1>7 DEF vars, loading
  <2> QED BY <2>1, DrawingKept DEF Drawing, Parsed
<1> QED BY <1>1, <1>2, <1>3, <1>4, <1>5, <1>6, <1>7 DEF Next, Main, Fault, Exited

(* In every reachable state the charts are those of the orders. *)
LEMMA DrawingInvariance == Spec => []Drawing
<1>1. Init => Drawing
  <2> SUFFICES ASSUME Init PROVE Drawing
    OBVIOUS
  <2>1. PICK s \in Settings : stored = s.stored
    BY DEF Init
  <2> QED BY <2>1, PlotterAssumption DEF Init, Drawing, Parsed
<1> QED BY <1>1, DrawingStep, PTL DEF Spec

-------------------------------------------------------------------------------
(* The system durations that go with the children ch. *)
SystemOf(ch) ==
  [i \in DOMAIN traces |-> IF i \in Roots(traces) THEN SystemDuration(ch, i) ELSE 0]

(* Once the spans are parsed, their children are those of a first or a     *)
(* second parse, and the system durations go with them.                    *)
Grown ==
  /\ \A i \in DOMAIN stored : stored[i].duration \in Nat /\ stored[i].code \in Int \cup {NoTags, NoNumber}
  /\ Parsed => child \in {Once(traces), Twice(traces)} /\ system = SystemOf(child)
  /\ pc \in {"mkdir", "wait", "plot"} => child = Once(traces)

(* The slice holds what is stored. *)
LEMMA LoadedSlice ==
  ASSUME Loading
  PROVE  Slice(traces) /\ \A i \in DOMAIN traces : i \in DOMAIN stored /\ traces[i] = stored[i]
<1>1. stored \in Seq(Range(stored)) /\ returned \in 0..Len(stored) /\ Len(stored) \in Nat
      /\ DOMAIN stored = 1..Len(stored)
  BY LenProperties DEF Loading
<1>2. \A k \in 1..returned : stored[k] \in Range(stored)
  BY <1>1, ElementOfSeq
<1>3. /\ traces \in Seq(Range(stored)) /\ Len(traces) = returned
      /\ \A k \in 1..returned : traces[k] = stored[k]
  <2> DEFINE S == Range(stored)
             t == SubSeq(stored, 1, returned)
  <2>1. 1 \in Int /\ returned \in Int
    BY <1>1
  <2>2. \A k \in 1..returned : stored[k] \in S
    BY <1>2
  <2> HIDE DEF S
  <2>3. /\ t \in Seq(S)
        /\ Len(t) = IF 1 <= returned THEN returned - 1 + 1 ELSE 0
        /\ \A k \in 1..(returned - 1 + 1) : t[k] = stored[1 + k - 1]
    BY <2>1, <2>2, SubSeqProperties
  <2>4. /\ (IF 1 <= returned THEN returned - 1 + 1 ELSE 0) = returned
        /\ returned - 1 + 1 = returned
        /\ \A k \in 1..returned : 1 + k - 1 = k
    BY <1>1
  <2>5. traces = t
    BY DEF Loading, LoadsAll
  <2> HIDE DEF t
  <2>6. Len(t) = returned
    BY <2>3, <2>4
  <2>7. \A k \in 1..returned : t[k] = stored[k]
    BY <2>3, <2>4
  <2> QED BY <2>3, <2>5, <2>6, <2>7 DEF S
<1>4. DOMAIN traces = 1..Len(traces) /\ Len(traces) \in Nat
  BY <1>3, LenProperties
<1> QED BY <1>1, <1>3, <1>4 DEF Slice

(* Of a root, a second parse finds the system duration of the first. *)
LEMMA SameSystem ==
  ASSUME Slice(traces), child = Once(traces), system = SystemOf(child)
  PROVE  SystemOf(Twice(traces)) = system
<1>1. \A i \in DOMAIN traces : DeepestLeaf(Twice(traces), i) = DeepestLeaf(Once(traces), i)
  BY SameDeepest
<1>2. \A i \in DOMAIN traces : SystemDuration(Twice(traces), i) = SystemDuration(Once(traces), i)
  BY <1>1 DEF SystemDuration
<1> QED BY <1>2 DEF SystemOf

(* Before the spans are parsed nothing is said; the first parse builds the *)
(* children from none, the second upon those of the first.                 *)
LEMMA GrownStep == Loading /\ Grown /\ [Next]_vars => Grown'
<1> SUFFICES ASSUME Loading, Grown, [Next]_vars PROVE Grown'
  OBVIOUS
<1>1. Slice(traces)
  BY LoadedSlice
<1>2. CASE ReadPage \/ ReadFails \/ ReadPanics \/ MkdirFails
  BY <1>2 DEF ReadPage, ReadFails, ReadPanics, MkdirFails, Grown, Parsed, loading
<1>3. CASE ParseE2E
  <2>1. /\ child' = Once(traces)
        /\ system' = [i \in DOMAIN traces |->
                        IF i \in Roots(traces) THEN SystemDuration(child', i)
                        ELSE [j \in DOMAIN traces |-> 0][i]]
        /\ UNCHANGED <<stored, traces>>
    BY <1>3 DEF ParseE2E, ParseTraces, Once, loading
  <2>2. system' = SystemOf(child')
    BY <2>1 DEF SystemOf
  <2>3. SystemOf(child)' = SystemOf(child')
    BY <2>1 DEF SystemOf, SystemDuration
  <2> QED BY <2>1, <2>2, <2>3 DEF Grown
<1>4. CASE ParseSystem
  <2>1. /\ child' = AppendChildren(traces, child)
        /\ system' = [i \in DOMAIN traces |->
                        IF i \in Roots(traces) THEN SystemDuration(child', i) ELSE system[i]]
        /\ UNCHANGED <<stored, traces>> /\ pc = "plot" /\ pc' = "graphs"
    BY <1>4 DEF ParseSystem, ParseTraces, loading
  <2>2. child = Once(traces) /\ system = SystemOf(child)
    BY <2>1 DEF Grown, Parsed
  <2>3. child' = Twice(traces)
    BY <2>1, <2>2 DEF Twice
  <2>4. \A i \in DOMAIN traces : i \notin Roots(traces) => system[i] = 0
    BY <2>2 DEF SystemOf
  <2>5. system' = SystemOf(child')
    BY <2>1, <2>4 DEF SystemOf
  <2>6. SystemOf(child)' = SystemOf(child')
    BY <2>1 DEF SystemOf, SystemDuration
  <2> QED BY <2>1, <2>3, <2>5, <2>6 DEF Grown
<1>5. CASE Graphs \/ StartDownloads \/ Wait
  <2>1. /\ UNCHANGED <<stored, traces, child, system>>
        /\ Parsed /\ (pc' \in {"mkdir", "wait", "plot"} => pc \in {"mkdir", "wait"})
    BY <1>5 DEF Graphs, StartDownloads, Wait, forest, loading, Parsed
  <2>2. SystemOf(child)' = SystemOf(child)
    BY <2>1 DEF SystemOf, SystemDuration
  <2> QED BY <2>1, <2>2 DEF Grown
<1>6. CASE (\E t \in Thread : Download(t)) \/ UNCHANGED vars
  <2>1. UNCHANGED <<pc, stored, traces, child, system>>
    BY <1>6 DEF Download, Lock, Unlock, Done, Get, CreateFails, Create, Copy, CopyFails,
                mainParts, forest, loading, vars
  <2>2. SystemOf(child)' = SystemOf(child)
    BY <2>1 DEF SystemOf, SystemDuration
  <2> QED BY <2>1, <2>2 DEF Grown, Parsed
<1> QED BY <1>2, <1>3, <1>4, <1>5, <1>6 DEF Next, Main, Fault, Exited

(* So it holds in every run of the trace plotter. *)
LEMMA GrownInvariance == Spec => []Grown
<1>1. Init => Grown
  <2> SUFFICES ASSUME Init PROVE Grown
    OBVIOUS
  <2>1. PICK s \in Settings : stored = s.stored
    BY DEF Init
  <2> QED BY <2>1, PlotterAssumption DEF Init, Grown, Parsed
<1>2. IInv => Loading
  BY DEF IInv
<1> QED BY <1>1, <1>2, GrownStep, Invariance, PTL DEF Spec

(* What the theorems about the parsed spans start from. *)
LEMMA ParsedFacts ==
  ASSUME Loading, Drawing, Grown, Parsed
  PROVE  /\ Slice(traces) /\ Coded(traces) /\ Children(traces, child)
         /\ \A i \in DOMAIN traces : traces[i].duration \in Nat
         /\ IsFiniteSet(Roots(traces))
         /\ e2e \in SortedBy(Roots(traces), Key(system, "e2e"))
         /\ Range(e2e) = Roots(traces)
         /\ \A r \in Roots(traces) : /\ r \in DOMAIN traces /\ Parent(traces, r) = {}
                                     /\ system[r] = SystemDuration(child, r)
<1>1. Slice(traces) /\ \A i \in DOMAIN traces : i \in DOMAIN stored /\ traces[i] = stored[i]
  BY LoadedSlice
<1>2. Coded(traces) /\ \A i \in DOMAIN traces : traces[i].duration \in Nat
  BY <1>1 DEF Grown, Coded
<1>3. Children(traces, child)
  BY <1>1, OnceIsChildren DEF Grown
<1>4. IsFiniteSet(Roots(traces)) /\ e2e \in SortedBy(Roots(traces), Key(system, "e2e"))
  BY RootsFinite DEF Drawing
<1>5. Range(e2e) = Roots(traces)
  BY <1>4, SortedSequence
<1>6. \A r \in Roots(traces) : r \in DOMAIN traces /\ Parent(traces, r) = {}
  BY DEF Roots, Mapped
<1>7. \A r \in Roots(traces) : system[r] = SystemDuration(child, r)
  BY <1>6 DEF Grown, SystemOf
<1> QED BY <1>1, <1>2, <1>3, <1>4, <1>5, <1>6, <1>7

(* Every span whose ancestors end at a root is in the tree of that root    *)
(* alone, and no other span is in a tree, whichever ids repeat or are      *)
(* missing and whichever spans form cycles (ParseTraces, plot.go:28-56).   *)
THEOREM EverySpanHasOneRoot == Spec => []OneRootPerSpan
<1>1. Loading /\ Drawing /\ Grown => OneRootPerSpan
  <2> SUFFICES ASSUME Loading, Drawing, Grown, Parsed, NEW i \in DOMAIN traces
               PROVE  Cardinality({k \in DOMAIN e2e : i \in Tree(e2e[k])}) =
                        IF \E k \in Ancestors(i) \cap Mapped(traces) : Parent(traces, k) = {}
                        THEN 1 ELSE 0
    BY DEF OneRootPerSpan
  <2> QED BY ParsedFacts, InOneTree
<1> QED BY <1>1, Invariance, DrawingInvariance, GrownInvariance, PTL DEF IInv

(* The leaf whose duration is taken off a root's is a deepest one of its   *)
(* tree (GetDeepestLeaf, model.go:90-102), and so the system duration is   *)
(* an integer.                                                             *)
LEMMA SystemTaken ==
  ASSUME Loading, Drawing, Grown, Parsed, NEW r \in Range(e2e)
  PROVE  /\ \E i \in {j \in Tree(r) : child[j] = <<>>} :
              /\ \A j \in {l \in Tree(r) : child[l] = <<>>} :
                   Cardinality(Ancestors(j)) <= Cardinality(Ancestors(i))
              /\ system[r] = traces[r].duration - traces[i].duration
         /\ system[r] \in Int
<1> DEFINE N == Len(traces)
           i == DeepestLeaf(child, r)
<1>1. /\ Slice(traces) /\ Children(traces, child) /\ r \in DOMAIN traces
      /\ Parent(traces, r) = {} /\ system[r] = SystemDuration(child, r)
      /\ \A j \in DOMAIN traces : traces[j].duration \in Nat
  BY ParsedFacts
<1>2. PICK A : Ups(traces, A)
  BY <1>1, LevelsExist
<1>3. PICK d \in 0..N : /\ i \in DOMAIN traces /\ child[i] = <<>> /\ r \in A[d][i]
                        /\ \A l \in DOMAIN traces : \A b \in 0..N :
                             child[l] = <<>> /\ r \in A[b][l] => b <= d
  BY <1>1, <1>2, DeepestIsDeepest
<1> HIDE DEF i
<1>4. \A j : j \in Tree(r) <=> j \in DOMAIN traces /\ \E n \in 0..N : r \in A[n][j]
  BY <1>1, <1>2, TreeLevels
<1>5. ASSUME NEW j \in DOMAIN traces, NEW b \in 0..N, r \in A[b][j]
      PROVE  Cardinality(Ancestors(j)) = b + 1
  BY <1>1, <1>2, <1>5, AncestorsOfRootLevel
<1>6. Cardinality(Ancestors(i)) = d + 1
  BY <1>3, <1>5
<1>7. ASSUME NEW j \in Tree(r), child[j] = <<>>
      PROVE  Cardinality(Ancestors(j)) <= Cardinality(Ancestors(i))
  <2>1. PICK b \in 0..N : r \in A[b][j] /\ j \in DOMAIN traces
    BY <1>4
  <2>2. b <= d /\ Cardinality(Ancestors(j)) = b + 1
    BY <1>3, <1>5, <1>7, <2>1
  <2> QED BY <1>6, <2>2
<1>8. i \in Tree(r) /\ child[i] = <<>>
  BY <1>3, <1>4
<1>9. system[r] = traces[r].duration - traces[i].duration
  BY <1>1 DEF SystemDuration, i
<1>10. system[r] \in Int
  BY <1>1, <1>3, <1>9
<1> QED BY <1>7, <1>8, <1>9, <1>10

(* Whatever the trees, the system duration of a root is its duration       *)
(* without that of a leaf that no other leaf lies below (plot.go:57-60).   *)
THEOREM SystemLatencyIsOfDeepestLeaf == Spec => []SystemLatency
<1>1. Loading /\ Drawing /\ Grown => SystemLatency
  BY SystemTaken DEF SystemLatency
<1> QED BY <1>1, Invariance, DrawingInvariance, GrownInvariance, PTL DEF IInv

(* plotChart parses the slice a second time, which doubles every child and *)
(* changes neither the roots nor their system durations.                   *)
THEOREM ParsingTwiceAgrees == Spec => SecondParseAgrees
<1>1. Loading /\ Pool /\ Drawing /\ Grown /\ [Next]_vars =>
        [pc = "plot" => system' = system /\ Range(bySystem') = Range(e2e)]_vars
  <2> SUFFICES ASSUME Loading, Pool, Drawing, Grown, Next, pc = "plot"
               PROVE  \/ (system' = system /\ Range(bySystem') = Range(e2e))
                      \/ UNCHANGED vars
    OBVIOUS
  <2>1. Parsed
    BY DEF Parsed
  <2>2. ~(\E t \in Thread : Download(t))
    <3>1. \A t \in Thread : worker[t] \in {"none", "ended"}
      BY DEF Pool, Early
    <3> QED BY <3>1 DEF Download, Lock, Unlock, Done, Get, CreateFails, Create, Copy, CopyFails
  <2>3. ParseSystem \/ UNCHANGED vars
    BY <2>2 DEF Next, Main, Fault, Exited, ReadPage, ReadFails, ReadPanics, MkdirFails, ParseE2E,
                Graphs, StartDownloads, Wait
  <2>4. CASE ParseSystem
    <3>1. /\ child' = AppendChildren(traces, child)
          /\ system' = [i \in DOMAIN traces |->
                          IF i \in Roots(traces) THEN SystemDuration(child', i) ELSE system[i]]
          /\ bySystem' \in SortedBy(Roots(traces), Key(system', "system"))
      BY <2>4 DEF ParseSystem, ParseTraces
    <3>2. child = Once(traces) /\ system = SystemOf(child)
      BY <2>1 DEF Grown
    <3>3. child' = Twice(traces)
      BY <3>1, <3>2 DEF Twice
    <3>4. \A i \in DOMAIN traces : i \notin Roots(traces) => system[i] = 0
      BY <3>2 DEF SystemOf
    <3>5. system' = SystemOf(Twice(traces))
      BY <3>1, <3>3, <3>4 DEF SystemOf
    <3>6. system' = system
      BY <2>1, <3>2, <3>5, ParsedFacts, SameSystem
    <3>7. Range(bySystem') = Roots(traces)
      BY <2>1, <3>1, ParsedFacts, SortedSequence
    <3> QED BY <2>1, <3>6, <3>7, ParsedFacts
  <2> QED BY <2>3, <2>4
<1> QED BY <1>1, Invariance, DrawingInvariance, GrownInvariance, PTL DEF IInv, Spec, SecondParseAgrees

(* A chart that is drawn shows each root in its series of successes or of  *)
(* errors, by its status code.                                             *)
LEMMA SeriesOfChart ==
  ASSUME Loading, Drawing, Grown, NEW latencyType \in DOMAIN chart
  PROVE  /\ Parsed
         /\ \A d \in chart[latencyType].success : d.root \in Roots(traces) /\ ~IsError(d.root)
         /\ \A r \in Roots(traces) : IsError(r) => \E d \in chart[latencyType].error : d.root = r
<1> DEFINE order == OrderOf(latencyType)
           x == Drawn(latencyType)
           dot(k) == [root |-> order[k], latency |-> x[k], cdf |-> CDF(x[k], x)]
<1>1. chart # NoChart
  BY DEF NoChart
<1>2. /\ Parsed /\ latencyType \in LatencyTypes
      /\ chart[latencyType] = PlotGraph(order, x)
      /\ e2e \in SortedBy(Roots(traces), Key(system, "e2e"))
      /\ bySystem \in SortedBy(Roots(traces), Key(system, "system"))
  BY <1>1 DEF Drawing, Parsed
<1>3. Range(order) = Roots(traces)
  BY <1>2, RootsFinite, SortedSequence DEF OrderOf
<1> HIDE DEF order, x
<1>4. /\ chart[latencyType].success = {dot(k) : k \in {l \in DOMAIN order : IsError(order[l]) = FALSE}}
      /\ chart[latencyType].error = {dot(k) : k \in {l \in DOMAIN order : IsError(order[l]) = TRUE}}
  BY <1>2 DEF PlotGraph
<1>5. ASSUME NEW d \in chart[latencyType].success
      PROVE  d.root \in Roots(traces) /\ ~IsError(d.root)
  <2>1. PICK k \in DOMAIN order : d = dot(k) /\ IsError(order[k]) = FALSE
    BY <1>4
  <2>2. d.root = order[k] /\ order[k] \in Range(order)
    BY <2>1 DEF Range
  <2> QED BY <1>3, <2>1, <2>2
<1>6. ASSUME NEW r \in Roots(traces), IsError(r)
      PROVE  \E d \in chart[latencyType].error : d.root = r
  <2>1. PICK k \in DOMAIN order : order[k] = r
    BY <1>3 DEF Range
  <2>2. IsError(order[k]) = TRUE
    BY <1>6, <2>1 DEF IsError
  <2>3. dot(k) \in chart[latencyType].error /\ dot(k).root = r
    BY <1>4, <2>1, <2>2
  <2> QED BY <2>3
<1> QED BY <1>2, <1>5, <1>6

(* A root drawn as a success has a span with a good code in its tree, and  *)
(* a root without tags that called a failing service directly is drawn as  *)
(* an error (GetHTTPStatusCode, model.go:104-133; plot.go:100-112).        *)
THEOREM ErrorsAreShown == Spec => []ErrorsShown
<1>1. Loading /\ Drawing /\ Grown => ErrorsShown
  <2> SUFFICES ASSUME Loading, Drawing, Grown, NEW latencyType \in DOMAIN chart
               PROVE  /\ \A d \in chart[latencyType].success :
                           \E i \in Tree(d.root) :
                             traces[i].code \notin {NoTags, NoNumber} /\ traces[i].code <= 300
                      /\ \A r \in Range(e2e) :
                           /\ traces[r].code = NoTags
                           /\ \E i \in Range(child[r]) :
                                traces[i].code \notin {NoTags, NoNumber} /\ traces[i].code > 300
                           => \E d \in chart[latencyType].error : d.root = r
    BY DEF ErrorsShown
  <2> DEFINE code(r) == GetHTTPStatusCode(traces, child, r)
  <2>1. /\ Parsed
        /\ \A d \in chart[latencyType].success : d.root \in Roots(traces) /\ ~IsError(d.root)
        /\ \A r \in Roots(traces) : IsError(r) => \E d \in chart[latencyType].error : d.root = r
    BY SeriesOfChart
  <2>2. /\ Slice(traces) /\ Coded(traces) /\ Children(traces, child) /\ Range(e2e) = Roots(traces)
        /\ \A r \in Roots(traces) : r \in DOMAIN traces /\ Parent(traces, r) = {}
    BY <2>1, ParsedFacts
  <2>3. PICK A : Ups(traces, A)
    BY <2>2, LevelsExist
  <2>4. ASSUME NEW r \in Roots(traces), ~IsError(r)
        PROVE  \E i \in Tree(r) : traces[i].code \notin {NoTags, NoNumber} /\ traces[i].code <= 300
    <3>1. code(r) # NoNumber /\ ~(code(r) > 300)
      BY <2>4 DEF IsError
    <3>2. PICK i \in DOMAIN traces, a \in 0..Len(traces) :
            /\ r \in A[a][i] /\ traces[i].code = code(r)
            /\ traces[i].code \notin {NoTags, NoNumber}
      BY <2>2, <2>3, <3>1, CodeFromTree
    <3> HIDE DEF code
    <3>3. traces[i].code \in Int
      BY <2>2, <3>2 DEF Coded
    <3>4. traces[i].code <= 300
      BY <3>1, <3>2, <3>3
    <3>5. i \in Tree(r)
      BY <2>2, <2>3, <3>2, TreeLevels
    <3> QED BY <3>2, <3>4, <3>5
  <2>5. ASSUME NEW r \in Roots(traces), traces[r].code = NoTags, NEW i \in Range(child[r]),
               traces[i].code \notin {NoTags, NoNumber}, traces[i].code > 300
        PROVE  IsError(r)
    <3>1. code(r) \in Int /\ traces[i].code <= code(r)
      BY <2>2, <2>5, CodeOfChildren
    <3>2. i \in DOMAIN traces
      BY <2>2 DEF Children
    <3>3. traces[i].code \in Int
      BY <2>2, <2>5, <3>2 DEF Coded
    <3>4. code(r) > 300
      <4> HIDE DEF code
      <4> QED BY <2>5, <3>1, <3>3
    <3> QED BY <3>4 DEF IsError
  <2> QED BY <2>1, <2>2, <2>4, <2>5
<1> QED BY <1>1, Invariance, DrawingInvariance, GrownInvariance, PTL DEF IInv

(* Each chart is complete. *)
LEMMA ChartDrawn ==
  ASSUME Loading, Drawing, Grown, NEW latencyType \in LatencyTypes
  PROVE  ChartComplete(latencyType)
<1> DEFINE S == Roots(traces)
           n == Cardinality(S)
           key == Key(system, latencyType)
           order == OrderOf(latencyType)
<1>1. IsFiniteSet(S) /\ S \subseteq DOMAIN traces
  BY RootsFinite
<1>2. \A i \in DOMAIN traces : traces[i].duration \in Nat \ {0}
  <2>1. stored \in Seq(Range(stored)) /\ returned \in 0..Len(stored) /\ Len(stored) \in Nat
    BY LenProperties DEF Loading
  <2>2. \A k \in 1..returned : stored[k] \in Range(stored)
    BY <2>1, ElementOfSeq
  <2>3. /\ DOMAIN traces = 1..returned
        /\ \A k \in 1..returned : traces[k] = stored[k]
    BY <2>1, <2>2, SubSeqProperties DEF Loading, LoadsAll
  <2>4. \A k \in 1..returned : k \in DOMAIN stored
    BY <2>1, LenProperties
  <2> QED BY <2>3, <2>4 DEF Drawing
<1> SUFFICES ASSUME pc = "graphs" \/ chart # NoChart
             PROVE  ChartComplete(latencyType)
  BY DEF ChartComplete, NoChart
<1>3. /\ Parsed
      /\ e2e \in SortedBy(S, Key(system, "e2e"))
      /\ bySystem \in SortedBy(S, Key(system, "system"))
      /\ order \in SortedBy(S, key)
  BY DEF Drawing, Parsed, OrderOf, LatencyTypes
<1>4. Len(e2e) = n /\ Range(e2e) = S
  BY <1>1, <1>3, SortedSequence
<1>5. \A r \in S : system[r] \in Int
  BY <1>3, <1>4, SystemTaken
<1>6. /\ Drawn(latencyType) \in [1..n -> Nat \ {0}]
      /\ Sorted(Drawn(latencyType))
  BY <1>1, <1>2, <1>3, <1>5, DurationsSorted DEF Drawn, LatencyTypes
<1>7. latencyType \in DOMAIN chart => chart[latencyType] = PlotGraph(order, Drawn(latencyType))
  BY DEF Drawing, NoChart
<1>8. LET c == PlotGraph(order, Drawn(latencyType))
          dots == c.success \cup c.error
      IN  /\ Cardinality(dots) = n
          /\ {d.root : d \in dots} = S
          /\ \A d \in dots : /\ d.latency > 0
                             /\ d.cdf * 100 >= 50 * n <=> d.latency >= c.percentiles.median
                             /\ d.cdf * 100 >= 90 * n <=> d.latency >= c.percentiles.p90
  <2> HIDE DEF order, key, S
  <2> QED BY <1>1, <1>3, <1>6, CompleteChart
<1> HIDE DEF order, n, S
<1> QED BY <1>4, <1>6, <1>7, <1>8 DEF ChartComplete

(* Both charts have one dot for each root, drawn of sorted durations, and  *)
(* their percentiles are those the dots show (plot.go:87-135, 197), also   *)
(* where the second parse clamps durations (plot.go:77-80): the library    *)
(* does not panic.                                                         *)
THEOREM ChartsAreComplete == Spec => []ChartsComplete
<1>1. Loading /\ Drawing /\ Grown => ChartsComplete
  BY ChartDrawn DEF ChartsComplete
<1> QED BY <1>1, Invariance, DrawingInvariance, GrownInvariance, PTL DEF IInv
===============================================================================

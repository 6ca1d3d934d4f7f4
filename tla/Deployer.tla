------------------------------- MODULE Deployer -------------------------------
(***************************************************************************)
(* tools/deployer: every function of the JSON file is deployed by a        *)
(* goroutine of its own that runs `kn service apply`.  A buffered channel  *)
(* is the semaphore that limits how many run at a time; filling it up      *)
(* completely is how deploy() waits for the last ones.                     *)
(***************************************************************************)
EXTENDS Integers, Sequences, FiniteSets

CONSTANTS
  Name,        \* function names in the JSON file
  FuncSlices,  \* the function lists the JSON file may hold
  Conc         \* the -conc flag, capacity of the channel

FunctionType == [name : Name, count : Int]

(* A copy of a function: the url is made of funcName, Name-copy. *)
Function == [name : Name, copy : Nat]

(* A goroutine of deploy, by the entry and the copy it was started for. *)
Deployment == [entry : Nat, copy : Nat]

ASSUME DeployerAssumption ==
  /\ FuncSlices \subseteq Seq(FunctionType)
  /\ Conc \in Nat

VARIABLES
  main,       \* where main() is
  funcSlice,  \* the functions read
  entry,      \* index of fType in funcSlice
  copy,       \* the inner loop's i
  sem,        \* number of elements in the channel
  drained,    \* the last loop's i
  applying,   \* goroutines whose kn is running
  returned,   \* goroutines whose kn has ended and whose deferred <-sem has not run
  urls,       \* urls collected by deploy
  applied,    \* functions for which a kn has ended, well or not
  services,   \* services the cluster runs (external)
  written     \* the urls in the endpoints file

loop == <<funcSlice, entry, copy>>
deployVars == <<main, loop, sem, drained, applying, returned, urls, applied, services, written>>

DeployInit ==
  /\ main = "read"
  /\ funcSlice = <<>>
  /\ entry = 1
  /\ copy = 0
  /\ sem = 0
  /\ drained = 0
  /\ applying = {}
  /\ returned = {}
  /\ urls = <<>>
  /\ applied = {}
  /\ services = {}
  /\ written = <<>>

(* The function goroutine g deploys. *)
Deploys(g) == [name |-> funcSlice[g.entry].name, copy |-> g.copy]

-------------------------------------------------------------------------------
(* getFuncSlice; log.Fatal when the file cannot be read or parsed. *)
ReadFunctions(fs) ==
  /\ main = "read"
  /\ funcSlice' = fs
  /\ main' = "loop"
  /\ UNCHANGED <<entry, copy, sem, drained, applying, returned, urls, applied, services,
                 written>>

ReadFails ==
  /\ main = "read"
  /\ main' = "fatal"
  /\ UNCHANGED <<loop, sem, drained, applying, returned, urls, applied, services, written>>

(* A send on the channel goes through while the buffer has room.  With     *)
(* capacity 0 it waits for a receiver, and there is none.                  *)
CanSendOneMore(n) == n <= Conc
CanSend(n) == n < Conc

(* sem <- true, the url, and the goroutine. *)
StartDeployment ==
  LET g == [entry |-> entry, copy |-> copy] IN
  /\ main = "loop"
  /\ entry <= Len(funcSlice)
  /\ copy < funcSlice[entry].count
  /\ CanSend(sem)
  /\ sem' = sem + 1
  /\ urls' = Append(urls, Deploys(g))
  /\ applying' = applying \cup {g}
  /\ copy' = copy + 1
  /\ UNCHANGED <<main, funcSlice, entry, drained, returned, applied, services, written>>

(* The inner loop ends. *)
NextEntry ==
  /\ main = "loop"
  /\ entry <= Len(funcSlice)
  /\ copy >= funcSlice[entry].count
  /\ entry' = entry + 1
  /\ copy' = 0
  /\ UNCHANGED <<main, funcSlice, sem, drained, applying, returned, urls, applied, services,
                 written>>

(* The outer loop ends. *)
LoopEnds ==
  /\ main = "loop"
  /\ entry > Len(funcSlice)
  /\ main' = "drain"
  /\ UNCHANGED <<loop, sem, drained, applying, returned, urls, applied, services, written>>

(* i < cap(sem) *)
AllButOne(i) == i < Conc - 1
MoreToDrain(i) == i < Conc

(* for i := 0; i < cap(sem); i++ { sem <- true } *)
Drain ==
  /\ main = "drain"
  /\ MoreToDrain(drained)
  /\ CanSend(sem)
  /\ sem' = sem + 1
  /\ drained' = drained + 1
  /\ UNCHANGED <<main, loop, applying, returned, urls, applied, services, written>>

DrainEnds ==
  /\ main = "drain"
  /\ ~MoreToDrain(drained)
  /\ main' = "write"
  /\ UNCHANGED <<loop, sem, drained, applying, returned, urls, applied, services, written>>

(* writeEndpoints; log.Fatalln when it fails. *)
WriteEndpoints ==
  /\ main = "write"
  /\ written' = urls
  /\ main' = "done"
  /\ UNCHANGED <<loop, sem, drained, applying, returned, urls, applied, services>>

WriteFails ==
  /\ main = "write"
  /\ main' = "fatal"
  /\ UNCHANGED <<loop, sem, drained, applying, returned, urls, applied, services, written>>

-------------------------------------------------------------------------------
(* The process exits when main returns or log.Fatal is called. *)
Alive == main \notin {"done", "fatal"}

(* deployFunction: kn ends, the service is deployed or only a warning is   *)
(* logged.                                                                 *)
KnReturns(g, ok) ==
  /\ Alive
  /\ g \in applying
  /\ applying' = applying \ {g}
  /\ returned' = returned \cup {g}
  /\ applied' = applied \cup {Deploys(g)}
  /\ services' = IF ok THEN services \cup {Deploys(g)} ELSE services
  /\ UNCHANGED <<main, loop, sem, drained, urls, written>>

(* The length of the channel after a receive. *)
NothingReceived(n) == n
Received(n) == n - 1

(* defer func() { <-sem }() *)
Release(g) ==
  /\ Alive
  /\ g \in returned
  /\ returned' = returned \ {g}
  /\ sem' = Received(sem)
  /\ UNCHANGED <<main, loop, drained, applying, urls, applied, services, written>>

DeployMain ==
  \/ \E fs \in FuncSlices : ReadFunctions(fs)
  \/ ReadFails
  \/ StartDeployment \/ NextEntry \/ LoopEnds
  \/ Drain \/ DrainEnds
  \/ WriteEndpoints \/ WriteFails

DeployExited == ~Alive /\ UNCHANGED deployVars

DeployNext ==
  \/ DeployMain
  \/ \E g \in applying : \E ok \in BOOLEAN : KnReturns(g, ok)
  \/ \E g \in returned : Release(g)
  \/ DeployExited

(* main() and the goroutines are scheduled by the Go runtime; kn gives up  *)
(* waiting for a service after its own timeout.                            *)
DeployFairness ==
  /\ WF_deployVars(DeployMain)
  /\ WF_deployVars(\E g \in applying : \E ok \in BOOLEAN : KnReturns(g, ok))
  /\ WF_deployVars(\E g \in returned : Release(g))

DeploySpec == DeployInit /\ [][DeployNext]_deployVars /\ DeployFairness

-------------------------------------------------------------------------------
TypeOK ==
  /\ main \in {"read", "loop", "drain", "write", "done", "fatal"}
  /\ funcSlice \in Seq(FunctionType)
  /\ entry \in Nat \ {0}
  /\ copy \in Nat
  /\ sem \in Nat
  /\ drained \in Nat
  /\ applying \subseteq Deployment /\ IsFiniteSet(applying)
  /\ returned \subseteq Deployment /\ IsFiniteSet(returned)

(* No more than -conc deployments run at a time, not even while the last   *)
(* loop of deploy() fills the channel up.                                  *)
ConcurrencyBound == Cardinality(applying) <= Conc

(* When main() goes on to the endpoints file no deployment is in progress: *)
(* filling the channel is a sound way to wait for every goroutine.         *)
DeployedBeforeWritten ==
  main \in {"write", "done"} => /\ applying = {}
                              /\ \A k \in 1..Len(urls) : urls[k] \in applied

(* deploy() returns and main() ends: the semaphore is never left full.     *)
DeployEnds == <>(main \in {"done", "fatal"})
===============================================================================

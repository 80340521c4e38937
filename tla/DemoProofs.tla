----------------------------- MODULE DemoProofs -----------------------------
(***************************************************************************)
(* Theorems about the workspace manager's Start and about a demo run, for  *)
(* any users, workspaces and exports, and whatever fails on the way.       *)
(*                                                                         *)
(* A run leans on the order of its steps: each invariant says what the     *)
(* steps behind the current one have left, and that nobody takes it away.  *)
(***************************************************************************)
EXTENDS Demo, FiniteSetTheorems, SequenceTheorems, TLAPS

-----------------------------------------------------------------------------
(* Tenancy: the plan of a run. *)

LEMMA Division ==
  ASSUME NEW n \in Nat \ {0}, NEW i \in Nat
  PROVE  i % n \in 0 .. n - 1 /\ i \div n \in Nat /\ i = n * (i \div n) + (i % n)
  OBVIOUS

LEMMA SmallRemainder ==
  ASSUME NEW n \in Nat \ {0}, NEW i \in 0 .. n - 1
  PROVE  i % n = i
  OBVIOUS

LEMMA SameQuotientSameRemainder ==
  ASSUME NEW n \in Nat \ {0}, NEW i \in Nat, NEW j \in Nat, i \div n = j \div n, i % n = j % n
  PROVE  i = j
  BY Division

LEMMA ThreeThreads == Cardinality(Threads) = 3
<1>1. IsFiniteSet({"claims"}) /\ Cardinality({"claims"}) = 1
  BY FS_Singleton
<1>2. IsFiniteSet({"claims", "initializer"}) /\ Cardinality({"claims", "initializer"}) = 2
  <2>1. {"claims", "initializer"} = {"claims"} \cup {"initializer"} /\ "initializer" \notin {"claims"}
    OBVIOUS
  <2>2. QED
    BY <1>1, <2>1, FS_AddElement
<1>3. {"claims", "initializer", "maintainer"} = {"claims", "initializer"} \cup {"maintainer"}
      /\ "maintainer" \notin {"claims", "initializer"}
  OBVIOUS
<1>4. QED
  BY <1>2, <1>3, FS_AddElement DEF Threads

\* As many distinct values as places, when no two places have the same.
LEMMA CountsPlaces ==
  ASSUME NEW n \in Nat, NEW f, f \in [1 .. n -> {f[i] : i \in 1 .. n}],
         \A i, j \in 1 .. n : f[i] = f[j] => i = j
  PROVE  Cardinality({f[i] : i \in 1 .. n}) = n
<1>1. f \in Bijection(1 .. n, {f[i] : i \in 1 .. n})
  BY DEF Bijection, Injection, Surjection, IsInjective
<1>2. QED
  BY <1>1, FS_CountingElements DEF ExistsBijection

\* What is known of the options of a run, and of the workspaces there may be.
OptionsOK ==
  /\ opts.users \in Seq(STRING) /\ opts.count \in Nat /\ opts.count <= Cardinality(Workspaces)
  /\ Cardinality(Workspaces) \in Nat /\ Workspaces = 1 .. Cardinality(Workspaces)
  /\ \A i \in DOMAIN opts.users : opts.users[i] # None

LEMMA OptionsAreOK == opts \in Runs => OptionsOK
<1> SUFFICES ASSUME opts \in Runs PROVE OptionsOK
  OBVIOUS
<1>1. Cardinality(Workspaces) \in Nat /\ Workspaces = 1 .. Cardinality(Workspaces)
  BY DemoAssumption, FS_CardinalityType
<1>2. opts \in RunOptions
  BY DemoAssumption
<1>3. opts.users \in Seq(STRING) /\ opts.count \in Nat
  BY <1>2 DEF RunOptions
<1>4. opts.count <= Cardinality(Workspaces) /\ \A i \in DOMAIN opts.users : opts.users[i] # None
  BY DemoAssumption
<1>5. QED
  BY <1>1, <1>3, <1>4 DEF OptionsOK

\* A workspace's path names its owner, who is a user of the run or nobody.
LEMMA PathsNameOwners ==
  OptionsOK => \A w \in Planned :
    /\ Plans[w].path[2] = Plans[w].owner
    /\ Plans[w].owner # None => Plans[w].owner \in Users
    /\ Plans[w].path[1] = "workspace"
<1>0. SUFFICES ASSUME OptionsOK, NEW w \in Planned
      PROVE  /\ Plans[w].path[2] = Plans[w].owner
             /\ Plans[w].owner # None => Plans[w].owner \in Users
             /\ Plans[w].path[1] = "workspace"
  OBVIOUS
<1>1. CASE opts.users = <<>>
  BY <1>0, <1>1 DEF Plans, Planned, PlanWorkspaces
<1>2. CASE opts.users # <<>>
  <2>1. Len(opts.users) \in Nat \ {0} /\ w - 1 \in Nat
    BY <1>0, <1>2, EmptySeq, LenProperties DEF OptionsOK, Planned
  <2>2. ((w - 1) % Len(opts.users)) + 1 \in DOMAIN opts.users
    BY <1>0, <2>1, Division, LenProperties DEF OptionsOK
  <2>3. Plans[w] = [path |-> <<"workspace", Owner(opts.users, w), ((w - 1) \div Len(opts.users)) + 1>>,
                    owner |-> Owner(opts.users, w)]
    BY <1>0, <1>2 DEF Plans, Planned, PlanWorkspaces
  <2>4. Owner(opts.users, w) \in Users
    BY <2>2 DEF Owner, Users
  <2>5. QED
    BY <2>3, <2>4
<1>3. QED
  BY <1>1, <1>2

\* No two workspaces of a run have the same path.
LEMMA PathsAreApart ==
  OptionsOK /\ Validate =>
    \A v, w \in Planned : Plans[v].path = Plans[w].path => v = w
<1>0. SUFFICES ASSUME OptionsOK, Validate, NEW v \in Planned, NEW w \in Planned,
                      Plans[v].path = Plans[w].path
               PROVE  v = w
  OBVIOUS
<1>1. CASE opts.users = <<>>
  BY <1>0, <1>1 DEF Plans, Planned, PlanWorkspaces
<1>2. CASE opts.users # <<>>
  <2> DEFINE n == Len(opts.users)
  <2>1. n \in Nat \ {0} /\ v - 1 \in Nat /\ w - 1 \in Nat
    BY <1>0, <1>2, EmptySeq, LenProperties DEF OptionsOK, Planned
  <2>2. \A i \in {v, w} :
          Plans[i].path = <<"workspace", opts.users[((i - 1) % n) + 1], ((i - 1) \div n) + 1>>
    BY <1>0, <1>2 DEF Plans, Planned, PlanWorkspaces, Owner
  <2>3. /\ opts.users[((v - 1) % n) + 1] = opts.users[((w - 1) % n) + 1]
        /\ ((v - 1) \div n) + 1 = ((w - 1) \div n) + 1
    BY <1>0, <2>2
  <2>9. /\ (v - 1) % n \in 0 .. n - 1 /\ (w - 1) % n \in 0 .. n - 1
        /\ (v - 1) \div n \in Nat /\ (w - 1) \div n \in Nat
    <3> HIDE DEF n
    <3>1. QED
      BY <2>1, Division
  <2>4. ((v - 1) % n) + 1 \in DOMAIN opts.users /\ ((w - 1) % n) + 1 \in DOMAIN opts.users
    <3>1. DOMAIN opts.users = 1 .. n
      BY <1>0, LenProperties DEF OptionsOK
    <3> HIDE DEF n
    <3>2. QED
      BY <2>1, <2>9, <3>1
  <2>5. ((v - 1) % n) + 1 = ((w - 1) % n) + 1
    BY <1>0, <2>3, <2>4 DEF Validate, ValidateUsers
  <2> HIDE DEF n
  <2>6. (v - 1) % n = (w - 1) % n /\ (v - 1) \div n = (w - 1) \div n
    BY <2>3, <2>5, <2>9
  <2>7. v - 1 = w - 1
    BY <2>1, <2>6, SameQuotientSameRemainder
  <2>8. QED
    BY <2>7 DEF Planned
<1>3. QED
  BY <1>1, <1>2

\* Everybody owns a workspace: there are no more users than workspaces.
LEMMA EverybodyOwnsOne ==
  OptionsOK /\ Validate => \A u \in Users : \E w \in Planned : Plans[w].owner = u
<1>0. SUFFICES ASSUME OptionsOK, Validate, NEW u \in Users
               PROVE  \E w \in Planned : Plans[w].owner = u
  OBVIOUS
<1>1. PICK k \in DOMAIN opts.users : u = opts.users[k]
  BY <1>0 DEF Users
<1>2. k \in 1 .. Len(opts.users) /\ Len(opts.users) \in Nat \ {0} /\ opts.users # <<>>
  BY <1>0, <1>1, LenProperties, EmptySeq DEF OptionsOK
<1>3. k \in Planned
  BY <1>0, <1>2 DEF Validate, Planned, OptionsOK
<1>4. (k - 1) % Len(opts.users) = k - 1
  BY <1>2, SmallRemainder
<1>5. Plans[k].owner = opts.users[k]
  BY <1>2, <1>3, <1>4 DEF Plans, Planned, PlanWorkspaces, Owner
<1>6. QED
  BY <1>1, <1>3, <1>5

LEMMA PlanCounts ==
  OptionsOK /\ Validate =>
    /\ Cardinality(Users) = Len(opts.users)
    /\ Cardinality({Plans[w].path : w \in Planned}) = opts.count
<1>0. SUFFICES ASSUME OptionsOK, Validate
      PROVE  /\ Cardinality(Users) = Len(opts.users)
             /\ Cardinality({Plans[w].path : w \in Planned}) = opts.count
  OBVIOUS
<1>1. Cardinality(Users) = Len(opts.users)
  <2>1. Len(opts.users) \in Nat /\ DOMAIN opts.users = 1 .. Len(opts.users)
    BY <1>0, LenProperties DEF OptionsOK
  <2>2. \A i, j \in 1 .. Len(opts.users) : opts.users[i] = opts.users[j] => i = j
    BY <1>0, <2>1 DEF Validate, ValidateUsers
  <2>3. opts.users = [i \in 1 .. Len(opts.users) |-> opts.users[i]]
    BY <1>0, <2>1, SeqDef DEF OptionsOK
  <2>4. opts.users \in [1 .. Len(opts.users) -> {opts.users[i] : i \in 1 .. Len(opts.users)}]
    BY <2>3
  <2>5. Cardinality({opts.users[i] : i \in 1 .. Len(opts.users)}) = Len(opts.users)
    BY <2>1, <2>2, <2>4, CountsPlaces
  <2>6. QED
    BY <2>1, <2>5 DEF Users
<1>2. Cardinality({Plans[w].path : w \in Planned}) = opts.count
  <2> DEFINE f == [w \in 1 .. opts.count |-> Plans[w].path]
  <2>1. \A i, j \in 1 .. opts.count : f[i] = f[j] => i = j
    BY <1>0, PathsAreApart DEF Planned
  <2>2. f \in [1 .. opts.count -> {f[i] : i \in 1 .. opts.count}]
    OBVIOUS
  <2>3. {f[i] : i \in 1 .. opts.count} = {Plans[w].path : w \in Planned}
    BY DEF Planned
  <2> HIDE DEF f
  <2>4. Cardinality({f[i] : i \in 1 .. opts.count}) = opts.count
    BY <1>0, <2>1, <2>2, CountsPlaces DEF OptionsOK
  <2>5. QED
    BY <2>3, <2>4
<1>3. QED
  BY <1>1, <1>2

-----------------------------------------------------------------------------
(* Runner: Start, its goroutines and their channel. *)

Outcomes == {"nil", "error"}

\* How many goroutines of Start have sent what their manager returned.
Ended(t) == IF thread[t] = "ended" THEN 1 ELSE 0
Sent == Ended("claims") + Ended("initializer") + Ended("maintainer")

RunnerTypes ==
  /\ main \in {"off", "building", "starting", "nil", "error"}
  /\ thread \in [Threads -> {"off", "polling", "running", "sending", "ended"}]
  /\ outcome \in [Threads -> Outcomes]
  /\ errs \in Seq(Outcomes) /\ received \in Nat

\* What was sent is on the channel or was received; an error is on it as long as
\* Start has not returned, and nobody ends well that was not asked to.
RunnerInv ==
  /\ RunnerTypes
  /\ main \in {"off", "building"} => thread = AllOff /\ errs = <<>> /\ received = 0
  /\ received + Len(errs) = Sent
  /\ main \in {"starting", "nil"} =>
       \A t \in Threads : thread[t] = "ended" /\ outcome[t] = "error" =>
         \E i \in DOMAIN errs : errs[i] = "error"
  /\ \A t \in Threads : thread[t] \in {"sending", "ended"} /\ outcome[t] = "nil" => ctxDone
  /\ main = "nil" => \A t \in Threads : thread[t] = "ended" /\ outcome[t] = "nil"

LEMMA InitRunner == RunnerInit => RunnerInv
<1>0. SUFFICES ASSUME RunnerInit PROVE RunnerInv
  OBVIOUS
<1>1. RunnerTypes
  BY <1>0, EmptySeq DEF RunnerInit, RunnerTypes, AllOff, Outcomes
<1>2. Len(errs) = 0 /\ received = 0 /\ thread = AllOff /\ main = "off"
  BY <1>0, EmptySeq DEF RunnerInit
<1>3. Sent = 0
  BY <1>2 DEF Sent, Ended, AllOff, Threads
<1>4. QED
  BY <1>0, <1>1, <1>2, <1>3 DEF RunnerInv, RunnerInit, AllOff

\* Whoever else acts leaves the goroutines and the channel alone.
LEMMA RunnerUntouched ==
  RunnerInv /\ UNCHANGED runner /\ (ctxDone => ctxDone') => RunnerInv'
<1>0. SUFFICES ASSUME RunnerInv, UNCHANGED runner, ctxDone => ctxDone' PROVE RunnerInv'
  OBVIOUS
<1>1. main' = main /\ thread' = thread /\ outcome' = outcome /\ errs' = errs /\ received' = received
  BY <1>0 DEF runner
<1>2. Sent' = Sent
  BY <1>1 DEF Sent, Ended
<1>3. QED
  BY <1>0, <1>1, <1>2 DEF RunnerInv, RunnerTypes

LEMMA NewKeeps == RunnerInv /\ New => RunnerInv'
<1>0. SUFFICES ASSUME RunnerInv, New PROVE RunnerInv'
  OBVIOUS
<1>1. /\ main' \in {"starting", "error"} /\ thread' = thread /\ outcome' = outcome
      /\ errs' = errs /\ received' = received /\ ctxDone' = ctxDone /\ thread = AllOff
  BY <1>0 DEF New, RunnerInv
<1>2. Sent' = Sent
  BY <1>1 DEF Sent, Ended
<1>3. QED
  BY <1>0, <1>1, <1>2 DEF RunnerInv, RunnerTypes, AllOff

\* A step of goroutines that are not at their end.
ThreadsMoved ==
  /\ thread' \in [Threads -> {"off", "polling", "running", "sending", "ended"}]
  /\ outcome' \in [Threads -> Outcomes]
  /\ UNCHANGED <<ctxDone, main, errs, received>> /\ main \notin {"off", "building"}
  /\ \A t \in Threads : /\ thread[t] = "ended" <=> thread'[t] = "ended"
                        /\ thread[t] = "ended" => outcome'[t] = outcome[t]
                        /\ thread'[t] = "sending" /\ outcome'[t] = "nil" => ctxDone

LEMMA ThreadsMove == RunnerInv /\ ThreadsMoved => RunnerInv'
<1>0. SUFFICES ASSUME RunnerInv, ThreadsMoved PROVE RunnerInv'
  OBVIOUS
<1>1. main' = main /\ errs' = errs /\ received' = received /\ ctxDone' = ctxDone
  BY <1>0 DEF ThreadsMoved
<1>2. Sent' = Sent
  BY <1>0 DEF Sent, Ended, Threads, ThreadsMoved
<1>3. RunnerTypes'
  BY <1>0, <1>1 DEF RunnerInv, RunnerTypes, ThreadsMoved
<1>4. QED
  BY <1>0, <1>1, <1>2, <1>3 DEF RunnerInv, ThreadsMoved

LEMMA ThreadsKeep ==
  RunnerInv /\ (Start \/ MaintainerStarts \/ MaintainerGivesUp
                \/ \E t \in Threads : ManagerStops(t) \/ ManagerFails(t)) => RunnerInv'
<1>0. SUFFICES ASSUME RunnerInv,
                      Start \/ MaintainerStarts \/ MaintainerGivesUp
                        \/ \E t \in Threads : ManagerStops(t) \/ ManagerFails(t)
               PROVE  RunnerInv'
  OBVIOUS
<1>1. /\ thread \in [Threads -> {"off", "polling", "running", "sending", "ended"}]
      /\ outcome \in [Threads -> Outcomes]
      /\ main \in {"off", "building"} => \A t \in Threads : thread[t] = "off"
      /\ \A t \in Threads : thread[t] = "sending" /\ outcome[t] = "nil" => ctxDone
  BY <1>0 DEF RunnerInv, RunnerTypes, AllOff
<1>2. Start => ThreadsMoved
  BY <1>1 DEF Start, AllOff, Threads, ThreadsMoved
<1>3. MaintainerStarts => ThreadsMoved
  BY <1>1 DEF MaintainerStarts, Threads, ThreadsMoved
<1>4. MaintainerGivesUp => ThreadsMoved
  BY <1>1 DEF MaintainerGivesUp, Ends, Threads, Outcomes, ThreadsMoved
<1>5. (\E t \in Threads : ManagerStops(t) \/ ManagerFails(t)) => ThreadsMoved
  BY <1>1 DEF ManagerStops, ManagerFails, Ends, Outcomes, ThreadsMoved
<1>6. QED
  BY <1>0, <1>2, <1>3, <1>4, <1>5, ThreadsMove

LEMMA SendKeeps == ASSUME NEW t \in Threads PROVE RunnerInv /\ Send(t) => RunnerInv'
<1>0. SUFFICES ASSUME RunnerInv, Send(t) PROVE RunnerInv'
  OBVIOUS
<1>1. /\ thread[t] = "sending" /\ thread' = [thread EXCEPT ![t] = "ended"]
      /\ outcome' = outcome /\ ctxDone' = ctxDone /\ main' = main /\ received' = received
      /\ errs' = Append(errs, outcome[t])
  BY <1>0 DEF Send
<1>2. RunnerTypes /\ outcome[t] \in Outcomes /\ main \notin {"off", "building", "nil"}
  BY <1>0, <1>1 DEF RunnerInv, RunnerTypes, AllOff
<1>3. /\ errs' \in Seq(Outcomes) /\ Len(errs') = Len(errs) + 1
      /\ \A i \in DOMAIN errs : errs'[i] = errs[i]
      /\ errs'[Len(errs) + 1] = outcome[t]
  BY <1>1, <1>2, AppendProperties, LenProperties DEF RunnerTypes
<1>4. /\ Len(errs) \in Nat /\ DOMAIN errs = 1 .. Len(errs) /\ DOMAIN errs' = 1 .. Len(errs) + 1
  BY <1>2, <1>3, LenProperties DEF RunnerTypes
<1>5. RunnerTypes'
  BY <1>1, <1>2, <1>3 DEF RunnerTypes
<1>6. received' + Len(errs') = Sent'
  <2>1. Sent' = Sent + 1
    BY <1>1, <1>2 DEF Sent, Ended, Threads, RunnerTypes
  <2>2. received + Len(errs) = Sent /\ received \in Nat
    BY <1>0 DEF RunnerInv, RunnerTypes
  <2>3. QED
    BY <1>1, <1>3, <1>4, <2>1, <2>2
<1>7. main' \in {"starting", "nil"} =>
        \A q \in Threads : thread'[q] = "ended" /\ outcome'[q] = "error" =>
          \E i \in DOMAIN errs' : errs'[i] = "error"
  <2>1. SUFFICES ASSUME main = "starting", NEW q \in Threads, thread'[q] = "ended",
                        outcome[q] = "error"
                 PROVE  \E i \in DOMAIN errs' : errs'[i] = "error"
    BY <1>1, <1>2
  <2>2. CASE q = t
    <3>1. Len(errs) + 1 \in DOMAIN errs'
      BY <1>4
    <3>2. QED
      BY <1>3, <2>1, <2>2, <3>1
  <2>3. CASE q # t
    <3>1. thread[q] = "ended"
      BY <1>1, <1>2, <2>1, <2>3 DEF RunnerTypes
    <3>2. PICK i \in DOMAIN errs : errs[i] = "error"
      BY <1>0, <2>1, <3>1 DEF RunnerInv
    <3>3. i \in DOMAIN errs' /\ errs'[i] = "error"
      BY <1>3, <1>4, <3>2
    <3>4. QED
      BY <3>3
  <2>4. QED
    BY <2>2, <2>3
<1>8. \A q \in Threads : thread'[q] \in {"sending", "ended"} /\ outcome'[q] = "nil" => ctxDone'
  BY <1>0, <1>1, <1>2 DEF RunnerInv, RunnerTypes
<1>9. QED
  BY <1>1, <1>2, <1>5, <1>6, <1>7, <1>8 DEF RunnerInv

LEMMA ReceiveKeeps == RunnerInv /\ Receive => RunnerInv'
<1>0. SUFFICES ASSUME RunnerInv, Receive PROVE RunnerInv'
  OBVIOUS
<1>1. /\ main = "starting" /\ errs # <<>> /\ received' = received + 1 /\ errs' = Tail(errs)
      /\ main' = IF Head(errs) = "error" THEN "error" ELSE IF received + 1 = 3 THEN "nil" ELSE main
      /\ thread' = thread /\ outcome' = outcome /\ ctxDone' = ctxDone
  BY <1>0, ThreeThreads DEF Receive
<1>2. RunnerTypes /\ received \in Nat /\ received + Len(errs) = Sent /\ errs \in Seq(Outcomes)
  BY <1>0 DEF RunnerInv, RunnerTypes
<1>3. /\ Len(errs) \in Nat \ {0} /\ Head(errs) = errs[1] /\ DOMAIN errs = 1 .. Len(errs)
      /\ errs' \in Seq(Outcomes) /\ Len(errs') = Len(errs) - 1
      /\ \A i \in 1 .. Len(errs) - 1 : errs'[i] = errs[i + 1]
  BY <1>1, <1>2, EmptySeq, LenProperties, HeadTailProperties
<1>4. Sent' = Sent /\ Sent <= 3 /\ Sent \in Nat
      /\ (Sent = 3 => \A t \in Threads : thread[t] = "ended")
  BY <1>1 DEF Sent, Ended, Threads
<1>5. RunnerTypes'
  BY <1>1, <1>2, <1>3 DEF RunnerTypes
<1>6. received' + Len(errs') = Sent'
  BY <1>1, <1>2, <1>3, <1>4
<1>7. ASSUME main' # "error"
      PROVE  \A t \in Threads : thread[t] = "ended" /\ outcome[t] = "error" =>
               \E i \in DOMAIN errs' : errs'[i] = "error"
  <2>1. SUFFICES ASSUME NEW t \in Threads, thread[t] = "ended", outcome[t] = "error"
                 PROVE  \E i \in DOMAIN errs' : errs'[i] = "error"
    OBVIOUS
  <2>2. PICK i \in DOMAIN errs : errs[i] = "error"
    BY <1>0, <1>1, <2>1 DEF RunnerInv
  <2>3. i # 1
    BY <1>1, <1>3, <1>7, <2>2
  <2>4. i - 1 \in 1 .. Len(errs) - 1 /\ errs'[i - 1] = errs[i] /\ DOMAIN errs' = 1 .. Len(errs')
    BY <1>3, <2>2, <2>3, LenProperties
  <2>5. QED
    BY <1>3, <2>2, <2>4
<1>8. main' = "nil" => \A t \in Threads : thread[t] = "ended" /\ outcome[t] = "nil"
  <2>1. SUFFICES ASSUME main' = "nil", NEW t \in Threads PROVE thread[t] = "ended" /\ outcome[t] = "nil"
    OBVIOUS
  <2>2. received + 1 = 3 /\ main' # "error"
    BY <1>1, <2>1
  <2>3. Len(errs) = 1 /\ Sent = 3
    BY <1>2, <1>3, <1>4, <2>2
  <2>4. DOMAIN errs' = {}
    <3>1. Len(errs') = 0
      BY <1>3, <2>3
    <3>2. QED
      BY <1>3, <3>1, LenProperties
  <2>5. thread[t] = "ended" /\ outcome[t] # "error"
    BY <1>4, <1>7, <2>2, <2>3, <2>4
  <2>6. QED
    BY <1>2, <2>5 DEF RunnerTypes, Outcomes
<1>9. main' \in {"starting", "nil", "error"}
  BY <1>1
<1>10. \A t \in Threads : thread'[t] \in {"sending", "ended"} /\ outcome'[t] = "nil" => ctxDone'
  BY <1>0, <1>1 DEF RunnerInv
<1>11. QED
  BY <1>1, <1>5, <1>6, <1>7, <1>8, <1>9, <1>10 DEF RunnerInv

LEMMA DeployKeeps == RunnerInv /\ Deploy => RunnerInv'
<1>0. SUFFICES ASSUME RunnerInv, Deploy PROVE RunnerInv'
  OBVIOUS
<1>1. /\ main' = "building" /\ thread' = AllOff /\ outcome' = [t \in Threads |-> "nil"]
      /\ errs' = <<>> /\ received' = 0
  BY <1>0 DEF Deploy
<1>2. RunnerTypes'
  BY <1>1, EmptySeq DEF RunnerTypes, AllOff, Outcomes
<1>3. Len(errs') = 0
  BY <1>1, EmptySeq
<1>4. Sent' = 0
  BY <1>1 DEF Sent, Ended, AllOff, Threads
<1>5. QED
  BY <1>1, <1>2, <1>3, <1>4 DEF RunnerInv, AllOff

\* What a step of the system does to the manager and its goroutines.
LEMMA RunnerKeeps == RunnerInv /\ [Next]_vars => RunnerInv'
<1>0. SUFFICES ASSUME RunnerInv, [Next]_vars PROVE RunnerInv'
  OBVIOUS
<1>1. CASE RunnerStep
  <2>1. CASE \E w \in Workspaces : Initialize(w) \/ Widen(w)
    BY <1>0, <2>1, RunnerUntouched DEF Initialize, Widen
  <2>2. CASE \E t \in Threads : Send(t)
    BY <1>0, <2>2, SendKeeps
  <2>3. QED
    BY <1>0, <1>1, <2>1, <2>2, NewKeeps, ThreadsKeep, ReceiveKeeps, DeployKeeps
    DEF RunnerStep, ManagerStep
<1>2. CASE RunnerEnvironment
  BY <1>0, <1>2, RunnerUntouched DEF RunnerEnvironment, Publish, Cancel, Create, Enable
<1>3. CASE RunRunner
  <2>1. CASE UNCHANGED runner /\ UNCHANGED ctxDone
    BY <1>0, <2>1, RunnerUntouched
  <2>2. CASE main = "off" /\ main' = "building"
    <3>1. UNCHANGED <<ctxDone, thread, outcome, errs, received>>
      BY <1>3 DEF RunRunner
    <3>2. Sent' = Sent
      BY <3>1 DEF Sent, Ended
    <3>3. QED
      BY <1>0, <2>2, <3>1, <3>2 DEF RunnerInv, RunnerTypes
  <2>3. QED
    BY <1>3, <2>1, <2>2 DEF RunRunner, runner
<1>4. CASE RunStep /\ ~RunRunner
  BY <1>0, <1>4, RunnerUntouched
  DEF RunStep, RunValidate, PublishExports, EnsureWorkspaceType, EnsureUsers, GrantProviderBinding,
      CreateWorkspace, WorkspaceReady, GrantRoles, BindExport, ReconcileRoles, NextWorkspace,
      WaitForEndpoints, StartManagers, EngagedByEvery, CreateObjects, Snapshot, SnapshotMachines, SnapshotControlPlanes,
      Judge, RunCheckAccess, Report, GivesUp, runnerVars
<1>5. CASE Meanwhile
  BY <1>0, <1>5, RunnerUntouched
  DEF Meanwhile, Engage, ManagerExits, InitializeElsewhere, Provision, Deadline, Interrupt, runnerVars
<1>6. CASE UNCHANGED vars
  BY <1>0, <1>6, RunnerUntouched DEF vars, runnerVars
<1>7. QED
  BY <1>0, <1>1, <1>2, <1>3, <1>4, <1>5, <1>6 DEF Next

-----------------------------------------------------------------------------
(* Demo: the parts of the invariant. *)

Building == {"create", "ready", "own", "bind", "roles", "next"}
Filled == {"objects", "watch", "machines", "planes", "judge", "access", "report"}
Built == {"slices", "managers", "engage"} \cup Filled
Preparing == {"validate", "publish", "type", "runner", "users", "grant"}
AllSteps == Preparing \cup Building \cup Built

\* Run is at one of these steps, or has left all of them behind.
Reached(steps) == at \in steps \/ result = "ok"

\* What Run is at.
RunInv ==
  /\ opts \in Runs
  /\ host = "demo" \/ (at = "ended" /\ result = "none")
  /\ at \in AllSteps => result = "none"
  /\ at \in AllSteps \cup {"ended"}
  /\ Reached(AllSteps \ {"validate"}) => Validate
  /\ cur \in Nat \ {0} /\ (Validate => cur <= opts.count)
  /\ at \in Preparing => cur = 1

\* What is granted, to whom.
GrantsInv ==
  /\ \A h \in holds : h[2][2] = h[1]
  /\ Reached({"grant"} \cup Building \cup Built) => \A u \in Users : <<u, HomePath(u)>> \in holds
  /\ Reached(Building \cup Built) /\ TenantProviders # {} => Users \subseteq mayBind

Owned(w) == Plans[w].owner # None => <<Plans[w].owner, Plans[w].path>> \in holds

Complete(w) == HasRoles(w) /\ Owned(w) /\ (~Typed => boundTo[w] = ExportSet(Published))

\* The workspaces before the current one are complete.
WorkspacesInv ==
  /\ ws \in [Workspaces -> {"absent", "initializing", "ready"}]
  /\ boundTo \in [Workspaces -> SUBSET ExportSet(Published)]
  /\ at \in Building => \A w \in 1 .. cur - 1 : Complete(w)
  /\ at \in {"own", "bind"} /\ Typed => ws[cur] = "ready"
  /\ at \in {"bind", "roles"} => Owned(cur)
  /\ at = "roles" => ~Typed /\ boundTo[cur] = ExportSet(Published)
  /\ at = "next" => Complete(cur)
  /\ Reached(Built) => \A w \in Planned : Complete(w)

EngagedInv ==
  /\ objects \subseteq Planned
  /\ engaged \in [Workspaces -> SUBSET ExportSet(Providers)]
  /\ opts.runManager /\ (at \in Filled \/ objects # {}) =>
       \A w \in Planned : Reconciled \subseteq engaged[w]

\* A pass over the world says what is so from then on.
SeenInv ==
  /\ cluster \in [Workspaces -> {"absent", "there", "ready"}]
  /\ machine \in [Workspaces -> {"absent", "there", "ready"}]
  /\ seen \in [clusters : BOOLEAN, machines : Nat, machinesReady : BOOLEAN, planes : BOOLEAN]
  /\ at \notin {"machines", "planes", "judge"} => seen = NothingSeen
  /\ seen.planes => Planned \subseteq planes
  /\ seen.clusters => \A w \in Planned : cluster[w] = "ready"
  /\ seen.machines >= ExpectedMachines /\ seen.machinesReady =>
       \A w \in Planned : machine[w] = "ready"
  /\ Reached({"access", "report"}) =>
       \A w \in Planned : cluster[w] = "ready" /\ w \in planes /\ machine[w] = "ready"

\* The checks find no leak.
IsolatedInv == at = "report" /\ Users # {} => Isolated(access)

DemoInv == RunInv /\ GrantsInv /\ WorkspacesInv /\ EngagedInv /\ SeenInv /\ IsolatedInv

\* Nobody changes the options or becomes another host.
LEMMA OptionsStay ==
  [Next]_vars => UNCHANGED <<opts, host>>
<1>0. SUFFICES ASSUME [Next]_vars PROVE UNCHANGED <<opts, host>>
  OBVIOUS
<1>1. CASE RunnerStep /\ UNCHANGED demo
  BY <1>1 DEF RunnerStep, ManagerStep, New, Start, MaintainerStarts, MaintainerGivesUp, Receive,
      Deploy, ManagerStops, Send, ManagerFails, Initialize, Widen, demo
<1>2. CASE RunnerEnvironment /\ UNCHANGED demo
  BY <1>2 DEF RunnerEnvironment, Publish, Cancel, Create, Enable, demo
<1>3. CASE RunStep
  BY <1>3
  DEF RunStep, RunValidate, PublishExports, EnsureWorkspaceType, RunRunner, EnsureUsers,
      GrantProviderBinding, CreateWorkspace, WorkspaceReady, GrantRoles, BindExport, ReconcileRoles,
      NextWorkspace, WaitForEndpoints, StartManagers, EngagedByEvery, CreateObjects, Snapshot,
      SnapshotMachines, SnapshotControlPlanes, Judge, RunCheckAccess, Report, GivesUp, runnerVars
<1>4. CASE Meanwhile
  BY <1>4
  DEF Meanwhile, Engage, ManagerExits, InitializeElsewhere, Provision, Deadline, Interrupt,
      runnerVars, demo
<1>5. CASE UNCHANGED vars
  BY <1>5 DEF vars, runnerVars, demo
<1>6. QED
  BY <1>0, <1>1, <1>2, <1>3, <1>4, <1>5 DEF Next

\* What is said of a run by its options alone.
LEMMA SameRun ==
  UNCHANGED <<opts, host>> =>
    /\ (Validate' <=> Validate) /\ (Typed' <=> Typed) /\ (Elsewhere' <=> Elsewhere)
    /\ Planned' = Planned /\ Plans' = Plans /\ Users' = Users /\ Published' = Published
    /\ Reconciled' = Reconciled /\ TenantProviders' = TenantProviders
    /\ ExpectedMachines' = ExpectedMachines
  BY DEF Validate, Typed, Elsewhere, Planned, Plans, Users, Published, Reconciled, TenantProviders,
         ExpectedMachines

\* The manager and its goroutines leave the run alone, and only finish what it
\* waits for.
OthersAct ==
  /\ UNCHANGED demo
  /\ host = "demo" => /\ \A w \in Workspaces : ws[w] = "ready" => ws'[w] = "ready"
                      /\ widened \subseteq widened'
  /\ ws \in [Workspaces -> {"absent", "initializing", "ready"}] =>
       ws' \in [Workspaces -> {"absent", "initializing", "ready"}]

LEMMA OthersOnlyFinish ==
  \/ RunnerStep /\ UNCHANGED demo
  \/ RunnerEnvironment /\ host = "binary" /\ UNCHANGED demo
  \/ \E w \in Workspaces : InitializeElsewhere(w)
  \/ UNCHANGED vars
  => OthersAct
<1>1. RunnerStep /\ UNCHANGED demo => OthersAct
  <2>1. \A w \in Workspaces : Initialize(w) /\ UNCHANGED demo => OthersAct
    BY DEF Initialize, OthersAct
  <2>2. \A w \in Workspaces : Widen(w) /\ UNCHANGED demo => OthersAct
    BY DEF Widen, OthersAct
  <2>3. UNCHANGED world /\ UNCHANGED demo => OthersAct
    BY DEF world, OthersAct
  <2>4. RunnerStep => UNCHANGED world \/ \E w \in Workspaces : Initialize(w) \/ Widen(w)
    BY DEF RunnerStep, ManagerStep, New, Start, MaintainerStarts, MaintainerGivesUp, Receive,
        Deploy, ManagerStops, Send, ManagerFails
  <2>5. QED
    BY <2>1, <2>2, <2>3, <2>4
<1>2. RunnerEnvironment /\ host = "binary" /\ UNCHANGED demo => OthersAct
  BY DEF RunnerEnvironment, Publish, Cancel, Create, Enable, OthersAct, world
<1>3. (\E w \in Workspaces : InitializeElsewhere(w)) => OthersAct
  BY DEF InitializeElsewhere, OthersAct
<1>4. UNCHANGED vars => OthersAct
  BY DEF vars, runnerVars, world, OthersAct
<1>5. QED
  BY <1>1, <1>2, <1>3, <1>4

\* How Run goes on.
LEMMA RunKeeps == RunInv /\ [Next]_vars => RunInv'
<1>0. SUFFICES ASSUME RunInv, [Next]_vars PROVE RunInv'
  OBVIOUS
<1>1. UNCHANGED <<opts, host>> /\ (Validate' <=> Validate) /\ opts.count \in Nat
  BY <1>0, OptionsStay, SameRun, OptionsAreOK DEF RunInv, OptionsOK
<1>2. CASE OthersAct
  BY <1>0, <1>1, <1>2 DEF OthersAct, demo, RunInv, Reached
<1>3. CASE RunValidate
  BY <1>0, <1>1, <1>3
  DEF RunValidate, Step, Return, RunInv, Reached, AllSteps, Preparing, Building, Built, Filled, Validate
<1>4. CASE NextWorkspace
  BY <1>0, <1>1, <1>4
  DEF NextWorkspace, Step, RunInv, Reached, AllSteps, Preparing, Building, Built, Filled
<1>5. CASE RunStep /\ ~RunValidate /\ ~NextWorkspace /\ host = "demo"
  <2>1. cur' = cur
    BY <1>5
    DEF RunStep, PublishExports, EnsureWorkspaceType, RunRunner, EnsureUsers,
        GrantProviderBinding, CreateWorkspace, WorkspaceReady, GrantRoles, BindExport, ReconcileRoles,
        WaitForEndpoints, StartManagers, EngagedByEvery, CreateObjects, Snapshot,
        SnapshotMachines, SnapshotControlPlanes, Judge, RunCheckAccess, Report, GivesUp
  <2>2. /\ at \in AllSteps /\ (at = "validate" => at' = "ended" /\ result' # "ok")
        /\ at' = "ended" \/ (at' \in AllSteps \ {"validate"} /\ result' = result)
        /\ at' \in Preparing => at \in Preparing
    BY <1>0, <1>5
    DEF RunInv, Step, Return, Running, RunStep, PublishExports, EnsureWorkspaceType, RunRunner,
        EnsureUsers, GrantProviderBinding, CreateWorkspace, WorkspaceReady, GrantRoles, BindExport,
        ReconcileRoles, WaitForEndpoints, StartManagers, EngagedByEvery, CreateObjects, Snapshot,
        SnapshotMachines, SnapshotControlPlanes, Judge, RunCheckAccess, Report, GivesUp, AllSteps, Preparing, Building,
        Built, Filled
  <2>3. QED
    BY <1>0, <1>1, <1>5, <2>1, <2>2 DEF RunInv, Reached, AllSteps, Preparing, Building, Built, Filled
<1>6. CASE host = "demo" /\ Interrupt
  BY <1>0, <1>1, <1>6
  DEF Interrupt, Running, Return, RunInv, Reached, AllSteps, Preparing, Building, Built, Filled
<1>7. CASE \/ \E e \in ExportSet(Providers), w \in Workspaces : Engage(e, w)
           \/ \E e \in ExportSet(Providers) : ManagerExits(e)
           \/ \E w \in Workspaces : Provision(w)
           \/ Deadline
  BY <1>0, <1>1, <1>7 DEF Engage, ManagerExits, Provision, Deadline, RunInv, Reached
<1>8. QED
  BY <1>0, <1>2, <1>3, <1>4, <1>5, <1>6, <1>7, OthersOnlyFinish DEF Next, Meanwhile

-----------------------------------------------------------------------------
(* The parts that are about grants, engagements and what was read. *)

LEMMA GrantsKeep == RunInv /\ GrantsInv /\ [Next]_vars => GrantsInv'
<1>0. SUFFICES ASSUME RunInv, GrantsInv, [Next]_vars PROVE GrantsInv'
  OBVIOUS
<1>1. Users' = Users /\ TenantProviders' = TenantProviders
  BY <1>0, OptionsStay, SameRun
<1>2. CASE OthersAct
  BY <1>0, <1>1, <1>2 DEF OthersAct, demo, install, GrantsInv, Reached
<1>3. CASE EnsureUsers
  BY <1>0, <1>1, <1>3
  DEF EnsureUsers, Step, GrantsInv, Reached, Building, Built, Filled, HomePath, RunInv, AllSteps,
      Preparing
<1>4. CASE GrantProviderBinding
  BY <1>0, <1>1, <1>4
  DEF GrantProviderBinding, Step, GrantsInv, Reached, Building, Built, Filled, RunInv, AllSteps,
      Preparing
<1>5. CASE GrantRoles
  <2>1. cur \in Planned
    BY <1>0, <1>5, OptionsAreOK
    DEF GrantRoles, Step, RunInv, Reached, AllSteps, Preparing, Building, OptionsOK, Planned
  <2>2. Plans[cur].path[2] = Plans[cur].owner
    BY <1>0, <2>1, OptionsAreOK, PathsNameOwners DEF RunInv
  <2>3. \A h \in holds' : h[2][2] = h[1]
    BY <1>0, <1>5, <2>2 DEF GrantRoles, GrantsInv
  <2>4. holds \subseteq holds' /\ mayBind' = mayBind /\ at = "own" /\ at' = "bind" /\ result' = result
    BY <1>5 DEF GrantRoles, Step
  <2>5. QED
    BY <1>0, <1>1, <2>3, <2>4 DEF GrantsInv, Reached, Building, Built, Filled
<1>6. CASE /\ host = "demo" /\ RunStep
           /\ ~EnsureUsers /\ ~GrantProviderBinding /\ ~GrantRoles
  <2>1. UNCHANGED <<holds, mayBind>>
    BY <1>6
    DEF RunStep, RunValidate, PublishExports, EnsureWorkspaceType, RunRunner,
        CreateWorkspace, WorkspaceReady, BindExport, ReconcileRoles, NextWorkspace,
        WaitForEndpoints, StartManagers, EngagedByEvery, CreateObjects, Snapshot,
        SnapshotMachines, SnapshotControlPlanes, Judge, RunCheckAccess, Report, GivesUp, install
  <2>2. /\ Reached(Building \cup Built)' => Reached(Building \cup Built)
        /\ Reached({"grant"} \cup Building \cup Built)' => Reached({"grant"} \cup Building \cup Built)
    BY <1>0, <1>6
    DEF Reached, RunInv, Step, Return, Running, RunStep, RunValidate, PublishExports,
        EnsureWorkspaceType, RunRunner, CreateWorkspace, WorkspaceReady, BindExport, ReconcileRoles,
        NextWorkspace, WaitForEndpoints, StartManagers, EngagedByEvery, CreateObjects, Snapshot,
        SnapshotMachines, SnapshotControlPlanes, Judge, RunCheckAccess, Report, GivesUp, AllSteps, Preparing, Building,
        Built, Filled
  <2>3. QED
    BY <1>0, <1>1, <2>1, <2>2 DEF GrantsInv
<1>7. CASE \/ \E e \in ExportSet(Providers), w \in Workspaces : Engage(e, w)
           \/ \E e \in ExportSet(Providers) : ManagerExits(e)
           \/ \E w \in Workspaces : Provision(w)
           \/ Deadline \/ Interrupt
  BY <1>0, <1>1, <1>7
  DEF Engage, ManagerExits, Provision, Deadline, Interrupt, Running, Return, install, GrantsInv,
      Reached, Building, Built, Filled
<1>8. QED
  BY <1>0, <1>2, <1>3, <1>4, <1>5, <1>6, <1>7, OthersOnlyFinish DEF Next, Meanwhile

LEMMA EngagedKeeps == RunInv /\ EngagedInv /\ [Next]_vars => EngagedInv'
<1>0. SUFFICES ASSUME RunInv, EngagedInv, [Next]_vars PROVE EngagedInv'
  OBVIOUS
<1>1. Planned' = Planned /\ Reconciled' = Reconciled /\ opts' = opts /\ Planned \subseteq Workspaces
  BY <1>0, OptionsStay, SameRun, OptionsAreOK DEF RunInv, OptionsOK, Planned
<1>2. CASE OthersAct
  BY <1>0, <1>1, <1>2 DEF OthersAct, demo, fleet, objs, EngagedInv
<1>3. CASE EngagedByEvery
  BY <1>0, <1>1, <1>3 DEF EngagedByEvery, WaitedFor, Step, objs, fleet, EngagedInv
<1>4. CASE CreateObjects
  BY <1>0, <1>1, <1>4 DEF CreateObjects, fleet, EngagedInv, Filled
<1>5. CASE WaitForEndpoints
  BY <1>0, <1>1, <1>5 DEF WaitForEndpoints, Step, objs, fleet, EngagedInv, Filled
<1>6. CASE /\ host = "demo" /\ RunStep
           /\ ~EngagedByEvery /\ ~CreateObjects /\ ~WaitForEndpoints
  <2>1. UNCHANGED <<engaged, objects>>
    BY <1>6
    DEF RunStep, RunValidate, PublishExports, EnsureWorkspaceType, RunRunner, EnsureUsers,
        GrantProviderBinding, CreateWorkspace, WorkspaceReady, GrantRoles, BindExport, ReconcileRoles,
        NextWorkspace, StartManagers, Snapshot, SnapshotMachines, SnapshotControlPlanes, Judge, RunCheckAccess, Report,
        GivesUp, fleet, objs
  <2>2. at' \in Filled => at \in Filled
    BY <1>6
    DEF Step, Return, Running, RunStep, RunValidate, PublishExports,
        EnsureWorkspaceType, RunRunner, EnsureUsers, GrantProviderBinding, CreateWorkspace,
        WorkspaceReady, GrantRoles, BindExport, ReconcileRoles, NextWorkspace, StartManagers, Snapshot,
        SnapshotMachines, SnapshotControlPlanes, Judge, RunCheckAccess, Report, GivesUp, Filled
  <2>3. QED
    BY <1>0, <1>1, <2>1, <2>2 DEF EngagedInv
<1>7. CASE \E e \in ExportSet(Providers), w \in Workspaces : Engage(e, w)
  BY <1>0, <1>1, <1>7 DEF Engage, objs, EngagedInv
<1>8. CASE \/ \E e \in ExportSet(Providers) : ManagerExits(e)
           \/ \E w \in Workspaces : Provision(w)
           \/ Deadline \/ Interrupt
  BY <1>0, <1>1, <1>8
  DEF ManagerExits, Provision, Deadline, Interrupt, Running, Return, fleet, objs, EngagedInv, Filled
<1>9. QED
  BY <1>0, <1>2, <1>3, <1>4, <1>5, <1>6, <1>7, <1>8, OthersOnlyFinish DEF Next, Meanwhile

\* As many workspaces of the run as it has are all of them.
LEMMA AllOfThem ==
  OptionsOK => \A S \in SUBSET Planned :
                 Cardinality(S) \in Nat /\ (Cardinality(S) >= opts.count => S = Planned)
<1>0. SUFFICES ASSUME OptionsOK, NEW S \in SUBSET Planned
               PROVE  Cardinality(S) \in Nat /\ (Cardinality(S) >= opts.count => S = Planned)
  OBVIOUS
<1>1. opts.count \in Nat
  BY <1>0 DEF OptionsOK
<1>2. IsFiniteSet(Planned) /\ Cardinality(Planned) = opts.count
  <2>1. 1 \in Int /\ opts.count \in Int
    BY <1>1
  <2>2. /\ IsFiniteSet(1 .. opts.count)
        /\ Cardinality(1 .. opts.count) = IF 1 > opts.count THEN 0 ELSE opts.count - 1 + 1
    BY <2>1, FS_Interval
  <2>3. Cardinality(1 .. opts.count) = opts.count
    BY <1>1, <2>2
  <2>4. QED
    BY <2>2, <2>3 DEF Planned
<1>3. /\ IsFiniteSet(S) /\ Cardinality(S) <= Cardinality(Planned)
      /\ Cardinality(S) = Cardinality(Planned) => S = Planned
  BY <1>2, FS_Subset
<1>4. Cardinality(S) \in Nat
  BY <1>3, FS_CardinalityType
<1>5. QED
  BY <1>1, <1>2, <1>3, <1>4

LEMMA SeenKeeps == RunInv /\ EngagedInv /\ SeenInv /\ [Next]_vars => SeenInv'
<1>0. SUFFICES ASSUME RunInv, EngagedInv, SeenInv, [Next]_vars PROVE SeenInv'
  OBVIOUS
<1>1. /\ Planned' = Planned /\ ExpectedMachines' = ExpectedMachines /\ Planned \subseteq Workspaces
      /\ ExpectedMachines = opts.count /\ opts.count \in Nat
  BY <1>0, OptionsStay, SameRun, OptionsAreOK DEF RunInv, OptionsOK, Planned, ExpectedMachines
<1>2. CASE OthersAct
  BY <1>0, <1>1, <1>2 DEF OthersAct, demo, watch, objs, SeenInv, Reached
<1>3. CASE CreateObjects
  BY <1>0, <1>1, <1>3
  DEF CreateObjects, watch, SeenInv, Reached, NothingSeen, RunInv, AllSteps, Preparing, Built, Filled
<1>4. CASE Snapshot
  BY <1>0, <1>1, <1>4 DEF Snapshot, Step, objs, SeenInv, Reached, NothingSeen
<1>5. CASE SnapshotMachines
  <2> DEFINE listed == {w \in Planned : machine[w] # "absent"}
  <2>1. Cardinality(listed) \in Nat /\ (Cardinality(listed) >= ExpectedMachines => listed = Planned)
    BY <1>0, <1>1, OptionsAreOK, AllOfThem DEF RunInv
  <2>2. /\ at = "machines" /\ at' = "planes" /\ result' = result
        /\ cluster' = cluster /\ planes' = planes /\ machine' = machine
        /\ seen' = [seen EXCEPT !.machines = Cardinality(listed),
                                !.machinesReady = \A w \in listed : machine[w] = "ready"]
    BY <1>5 DEF SnapshotMachines, SnapshotControlPlanes, Step, objs
  <2> HIDE DEF listed
  <2>3. /\ seen' \in [clusters : BOOLEAN, machines : Nat, machinesReady : BOOLEAN, planes : BOOLEAN]
        /\ seen'.clusters = seen.clusters /\ seen'.planes = seen.planes /\ seen'.machines = Cardinality(listed)
        /\ seen'.machinesReady <=> \A w \in listed : machine[w] = "ready"
    BY <1>0, <2>1, <2>2 DEF SeenInv
  <2>4. QED
    BY <1>0, <1>1, <2>1, <2>2, <2>3 DEF SeenInv, Reached
<1>15. CASE SnapshotControlPlanes
  BY <1>0, <1>1, <1>15 DEF SnapshotControlPlanes, Step, objs, SeenInv, Reached
<1>6. CASE Judge
  BY <1>0, <1>1, <1>6
  DEF Judge, Ready, Forget, Step, Return, objs, SeenInv, Reached, NothingSeen
<1>7. CASE Report
  BY <1>0, <1>1, <1>7 DEF Report, Return, objs, watch, SeenInv, Reached
<1>8. CASE RunCheckAccess
  BY <1>0, <1>1, <1>8 DEF RunCheckAccess, Step, objs, watch, SeenInv, Reached
<1>9. CASE GivesUp
  BY <1>0, <1>1, <1>9 DEF GivesUp, Return, Forget, objs, SeenInv, Reached, NothingSeen
<1>10. CASE /\ host = "demo" /\ RunStep
            /\ ~CreateObjects /\ ~Snapshot /\ ~SnapshotMachines /\ ~SnapshotControlPlanes /\ ~Judge
            /\ ~Report
            /\ ~RunCheckAccess /\ ~GivesUp
  <2>1. UNCHANGED <<seen, cluster, planes, machine>>
    BY <1>10
    DEF RunStep, RunValidate, PublishExports, EnsureWorkspaceType, RunRunner, EnsureUsers,
        GrantProviderBinding, CreateWorkspace, WorkspaceReady, GrantRoles, BindExport, ReconcileRoles,
        NextWorkspace, WaitForEndpoints, StartManagers, EngagedByEvery, watch, objs
  <2>2. /\ at \notin {"machines", "planes", "judge", "access", "report"}
        /\ at' \notin {"machines", "planes", "judge", "access", "report"}
        /\ result' = "ok" => result = "ok"
    BY <1>10
    DEF Step, Return, RunStep, RunValidate, PublishExports,
        EnsureWorkspaceType, RunRunner, EnsureUsers, GrantProviderBinding, CreateWorkspace,
        WorkspaceReady, GrantRoles, BindExport, ReconcileRoles, NextWorkspace, WaitForEndpoints,
        StartManagers, EngagedByEvery
  <2>3. QED
    BY <1>0, <1>1, <2>1, <2>2 DEF SeenInv, Reached
<1>11. CASE \E w \in Workspaces : Provision(w)
  BY <1>0, <1>1, <1>11 DEF Provision, watch, SeenInv, Reached
<1>12. CASE Interrupt
  <2>1. CASE Running
    <3>1. at' = "ended" /\ result' = "error" /\ seen' = NothingSeen /\ UNCHANGED <<cluster, planes, machine>>
      BY <1>12, <2>1 DEF Interrupt, Return, Forget, objs
    <3>2. QED
      BY <1>0, <1>1, <3>1 DEF SeenInv, Reached, NothingSeen
  <2>2. CASE ~Running
    BY <1>0, <1>1, <1>12, <2>2 DEF Interrupt, watch, objs, SeenInv, Reached
  <2>3. QED
    BY <2>1, <2>2
<1>13. CASE \/ \E e \in ExportSet(Providers), w \in Workspaces : Engage(e, w)
            \/ \E e \in ExportSet(Providers) : ManagerExits(e)
            \/ Deadline
  BY <1>0, <1>1, <1>13 DEF Engage, ManagerExits, Deadline, watch, objs, SeenInv, Reached
<1>14. QED
  BY <1>0, <1>2, <1>3, <1>4, <1>5, <1>6, <1>7, <1>8, <1>9, <1>10, <1>11, <1>12, <1>13,
     <1>15, OthersOnlyFinish DEF Next, Meanwhile

-----------------------------------------------------------------------------
(* The part about the workspaces. *)

LEMMA BuildingIsPlanned ==
  RunInv /\ at \in AllSteps \ {"validate"} => cur \in Planned /\ cur \in Workspaces /\ cur \in Nat \ {0}
  BY OptionsAreOK DEF RunInv, Reached, OptionsOK, Planned

\* What is complete stays so.
LEMMA CompleteStays ==
  ASSUME NEW w \in Workspaces
  PROVE  /\ UNCHANGED <<opts, host>> /\ holds \subseteq holds' /\ boundTo'[w] = boundTo[w]
         /\ (Typed /\ ws[w] = "ready" => ws'[w] = "ready") /\ (w \in widened => w \in widened')
         /\ Complete(w)
         => Complete(w)'
<1>0. SUFFICES ASSUME UNCHANGED <<opts, host>>, holds \subseteq holds', boundTo'[w] = boundTo[w],
                      Typed /\ ws[w] = "ready" => ws'[w] = "ready", w \in widened => w \in widened',
                      Complete(w)
               PROVE  Complete(w)'
  OBVIOUS
<1>1. (Typed' <=> Typed) /\ Plans' = Plans /\ Published' = Published
  BY <1>0, SameRun
<1>2. QED
  BY <1>0, <1>1 DEF Complete, HasRoles, Owned

WorkspaceTypes ==
  /\ ws \in [Workspaces -> {"absent", "initializing", "ready"}]
  /\ boundTo \in [Workspaces -> SUBSET ExportSet(Published)]

\* A step that touches no workspace of the run, and does not end the work on one.
LEMMA WorkspacesUntouched ==
  /\ RunInv /\ WorkspacesInv /\ UNCHANGED <<opts, host, cur, ws, boundTo, holds, widened>>
  /\ (at' \in Building => at' = at) /\ (Reached(Built)' => Reached(Built))
  => WorkspacesInv'
<1>0. SUFFICES ASSUME RunInv, WorkspacesInv,
                      UNCHANGED <<opts, host, cur, ws, boundTo, holds, widened>>,
                      at' \in Building => at' = at, Reached(Built)' => Reached(Built)
               PROVE  WorkspacesInv'
  OBVIOUS
<1>1. (Typed' <=> Typed) /\ Plans' = Plans /\ Published' = Published /\ Planned' = Planned
  BY <1>0, SameRun
<1>2. \A w : (Complete(w)' <=> Complete(w)) /\ (Owned(w)' <=> Owned(w))
  BY <1>0, <1>1 DEF Complete, HasRoles, Owned
<1>3. QED
  BY <1>0, <1>1, <1>2 DEF WorkspacesInv, Building

LEMMA WorkspacesKeep == RunInv /\ WorkspacesInv /\ [Next]_vars => WorkspacesInv'
<1>0. SUFFICES ASSUME RunInv, WorkspacesInv, [Next]_vars PROVE WorkspacesInv'
  OBVIOUS
<1>1. /\ UNCHANGED <<opts, host>> /\ (Typed' <=> Typed) /\ Plans' = Plans /\ Published' = Published
      /\ Planned' = Planned /\ TenantProviders' = TenantProviders
  BY <1>0, OptionsStay, SameRun
<1>2. /\ opts.count \in Nat /\ Planned = 1 .. opts.count /\ Planned \subseteq Workspaces
      /\ cur \in Nat \ {0} /\ (at \in AllSteps \ {"validate"} => cur \in Planned)
      /\ at \in AllSteps \ {"validate"} => 1 .. cur - 1 \subseteq Workspaces
  BY <1>0, OptionsAreOK DEF RunInv, Reached, OptionsOK, Planned
<1>3. CASE OthersAct
  <2>1. /\ UNCHANGED demo /\ at' = at /\ cur' = cur /\ result' = result
        /\ boundTo' = boundTo /\ holds' = holds
    BY <1>3 DEF OthersAct, demo, install
  <2>2. CASE host = "demo"
    <3>1. \A w \in Workspaces : Complete(w) => Complete(w)'
      BY <1>1, <1>3, <2>1, <2>2, CompleteStays DEF OthersAct
    <3>2. \A w : Owned(w)' <=> Owned(w)
      BY <1>1, <2>1 DEF Owned
    <3>3. ws' \in [Workspaces -> {"absent", "initializing", "ready"}]
          /\ \A w \in Workspaces : ws[w] = "ready" => ws'[w] = "ready"
      BY <1>0, <1>3, <2>2 DEF OthersAct, WorkspacesInv
    <3>4. QED
      BY <1>0, <1>1, <1>2, <2>1, <3>1, <3>2, <3>3
      DEF WorkspacesInv, Reached, Building, AllSteps
  <2>3. CASE host # "demo"
    BY <1>0, <1>1, <1>3, <2>1, <2>3 DEF OthersAct, RunInv, WorkspacesInv, Reached, Building, Built, Filled
  <2>4. QED
    BY <2>2, <2>3
<1>4. CASE CreateWorkspace
  <2>1. /\ at = "create" /\ at' = "ready" /\ result' = result /\ cur' = cur /\ holds' = holds
        /\ widened' = widened
        /\ ws' = [ws EXCEPT ![cur] = IF Typed THEN "initializing" ELSE "ready"]
        /\ boundTo' = [boundTo EXCEPT ![cur] = IF Typed THEN {Core} ELSE {}]
    BY <1>4 DEF CreateWorkspace, Step
  <2>2. cur \in Planned /\ cur \in Workspaces
    BY <1>2, <2>1 DEF AllSteps, Preparing, Building
  <2>3. WorkspaceTypes'
    <3>1. Core \in ExportSet(Published)
      BY DemoAssumption, EmptySeq, LenProperties, AppendProperties DEF Core, ExportSet, Published
    <3>2. QED
      BY <1>0, <1>1, <2>1, <2>2, <3>1 DEF WorkspacesInv, WorkspaceTypes
  <2>4. \A w \in 1 .. cur - 1 : Complete(w)'
    <3>1. SUFFICES ASSUME NEW w \in 1 .. cur - 1 PROVE Complete(w)'
      OBVIOUS
    <3>2. w \in Workspaces /\ w # cur /\ Complete(w)
      BY <1>0, <1>2, <2>1 DEF WorkspacesInv, AllSteps, Preparing, Building
    <3>3. ws'[w] = ws[w] /\ boundTo'[w] = boundTo[w]
      BY <1>0, <2>1, <3>2 DEF WorkspacesInv
    <3>4. QED
      BY <1>1, <2>1, <3>2, <3>3, CompleteStays
  <2>5. result' # "ok"
    BY <1>0, <2>1 DEF RunInv, AllSteps, Preparing, Building
  <2>6. QED
    BY <2>1, <2>3, <2>4, <2>5 DEF WorkspacesInv, WorkspaceTypes, Reached, Built, Filled
<1>5. CASE WorkspaceReady
  <2>1. /\ at = "ready" /\ at' = "own" /\ ws[cur] = "ready"
        /\ UNCHANGED <<result, cur, ws, boundTo, holds, widened>>
    BY <1>5 DEF WorkspaceReady, Step, runnerVars, world, install
  <2>2. \A w : Complete(w)' <=> Complete(w)
    BY <1>1, <2>1 DEF Complete, HasRoles, Owned
  <2>3. result # "ok"
    BY <1>0, <2>1 DEF RunInv, AllSteps, Preparing, Building
  <2>4. QED
    BY <1>0, <1>1, <2>1, <2>2, <2>3 DEF WorkspacesInv, Building, Reached, Built, Filled
<1>6. CASE GrantRoles
  <2>1. /\ at = "own" /\ at' = "bind" /\ UNCHANGED <<result, cur, ws, boundTo, widened>>
        /\ holds' = IF Plans[cur].owner = None THEN holds
                    ELSE holds \cup {<<Plans[cur].owner, Plans[cur].path>>}
    BY <1>6 DEF GrantRoles, Step, runnerVars, world
  <2>2. \A w \in 1 .. cur - 1 : Complete(w)'
    BY <1>0, <1>1, <1>2, <2>1, CompleteStays DEF WorkspacesInv, AllSteps, Preparing, Building
  <2>3. Owned(cur)'
    BY <1>1, <2>1 DEF Owned
  <2>4. result # "ok"
    BY <1>0, <2>1 DEF RunInv, AllSteps, Preparing, Building
  <2>5. QED
    BY <1>0, <1>1, <2>1, <2>2, <2>3, <2>4 DEF WorkspacesInv, Building, Reached, Built, Filled
<1>7. CASE BindExport
  <2> DEFINE missing == TenantProviders \ boundTo[cur]
  <2>1. /\ at = "bind" /\ UNCHANGED <<cur, ws, holds, widened>> /\ cur \in Workspaces
    BY <1>2, <1>7 DEF BindExport, AllSteps, Preparing, Building
  <2>2. result # "ok" /\ WorkspaceTypes
    BY <1>0, <2>1 DEF RunInv, AllSteps, Preparing, Building, WorkspacesInv, WorkspaceTypes
  <2>3. CASE missing = {}
    <3>1. /\ at' = IF Typed THEN "next" ELSE "roles"
          /\ boundTo' = boundTo /\ result' = result
      BY <1>7, <2>3 DEF BindExport, Step
    <3>2. \A w : (Complete(w)' <=> Complete(w)) /\ (Owned(w)' <=> Owned(w))
      BY <1>1, <2>1, <3>1 DEF Complete, HasRoles, Owned
    <3>3. ~Typed => boundTo[cur] = ExportSet(Published)
      BY <2>1, <2>2, <2>3 DEF TenantProviders, WorkspaceTypes
    <3>4. Typed => Complete(cur)
      BY <1>0, <2>1 DEF WorkspacesInv, Complete, HasRoles
    <3>5. QED
      BY <1>0, <1>1, <2>1, <2>2, <3>1, <3>2, <3>3, <3>4 DEF WorkspacesInv, Building, Reached, Built, Filled
  <2>4. CASE missing # {} /\ Forbidden(cur)
    <3>1. at' = "ended" /\ result' = "error" /\ boundTo' = boundTo
      BY <1>7, <2>4 DEF BindExport, Return
    <3>2. QED
      BY <1>0, <1>1, <2>1, <3>1, WorkspacesUntouched DEF Building, Reached, Built, Filled
  <2>5. CASE missing # {} /\ ~Forbidden(cur)
    <3>1. PICK i \in DOMAIN Published : boundTo' = [boundTo EXCEPT ![cur] = @ \cup {Published[i]}]
      BY <1>7, <2>5 DEF BindExport
    <3>2. at' = at /\ result' = result
      BY <1>7, <2>5 DEF BindExport
    <3>3. WorkspaceTypes'
      BY <1>1, <2>1, <2>2, <3>1 DEF WorkspaceTypes, ExportSet
    <3>4. \A w \in Workspaces \ {cur} : boundTo'[w] = boundTo[w]
      BY <2>2, <3>1 DEF WorkspaceTypes
    <3>5. \A w \in 1 .. cur - 1 : Complete(w)'
      BY <1>0, <1>1, <1>2, <2>1, <3>4, CompleteStays DEF WorkspacesInv, AllSteps, Preparing, Building
    <3>6. Owned(cur)'
      BY <1>0, <1>1, <2>1 DEF Owned, WorkspacesInv
    <3>7. QED
      BY <1>0, <1>1, <2>1, <2>2, <3>2, <3>3, <3>5, <3>6
      DEF WorkspacesInv, WorkspaceTypes, Building, Reached, Built, Filled
  <2>6. QED
    BY <2>3, <2>4, <2>5
<1>8. CASE ReconcileRoles
  <2>1. /\ at = "roles" /\ at' = "next" /\ UNCHANGED <<result, cur, ws, boundTo, holds>>
        /\ widened' = widened \cup {cur}
    BY <1>8 DEF ReconcileRoles, Step, install
  <2>2. \A w \in 1 .. cur - 1 : Complete(w)'
    BY <1>0, <1>1, <1>2, <2>1, CompleteStays DEF WorkspacesInv, AllSteps, Preparing, Building
  <2>3. Complete(cur)'
    BY <1>0, <1>1, <2>1 DEF WorkspacesInv, Complete, HasRoles, Owned
  <2>4. result # "ok"
    BY <1>0, <2>1 DEF RunInv, AllSteps, Preparing, Building
  <2>5. QED
    BY <1>0, <1>1, <2>1, <2>2, <2>3, <2>4 DEF WorkspacesInv, Building, Reached, Built, Filled
<1>9. CASE NextWorkspace
  <2>1. /\ at = "next" /\ UNCHANGED <<result, ws, boundTo, holds, widened>>
        /\ \/ cur < opts.count /\ at' = "create" /\ cur' = cur + 1
           \/ ~(cur < opts.count) /\ at' = "slices" /\ cur' = cur
    BY <1>9 DEF NextWorkspace, Step, runnerVars, world, install
  <2>2. \A w : Complete(w)' <=> Complete(w)
    BY <1>1, <2>1 DEF Complete, HasRoles, Owned
  <2>3. \A w \in 1 .. cur : Complete(w)
    BY <1>0, <1>2, <2>1 DEF WorkspacesInv, Building
  <2>4. result # "ok"
    BY <1>0, <2>1 DEF RunInv, AllSteps, Preparing, Building
  <2>5. cur <= opts.count
    BY <1>2, <2>1 DEF AllSteps, Preparing, Building
  <2>6. QED
    BY <1>0, <1>1, <1>2, <2>1, <2>2, <2>3, <2>4, <2>5
    DEF WorkspacesInv, Building, Reached, Built, Filled
<1>10. CASE GrantProviderBinding
  <2>1. /\ at = "grant" /\ at' = "create" /\ UNCHANGED <<result, cur, ws, boundTo, holds, widened>>
    BY <1>10 DEF GrantProviderBinding, Step, runnerVars, world
  <2>2. cur = 1 /\ result # "ok"
    BY <1>0, <2>1 DEF RunInv, Preparing, AllSteps
  <2>3. QED
    BY <1>0, <1>1, <2>1, <2>2 DEF WorkspacesInv, Building, Reached, Built, Filled
<1>11. CASE EnsureUsers
  <2>1. /\ at = "users" /\ at' = "grant" /\ UNCHANGED <<result, cur, ws, boundTo, widened>>
    BY <1>11 DEF EnsureUsers, Step, runnerVars, world
  <2>2. result # "ok"
    BY <1>0, <2>1 DEF RunInv, AllSteps, Preparing
  <2>3. QED
    BY <1>0, <1>1, <2>1, <2>2 DEF WorkspacesInv, Building, Reached, Built, Filled
<1>12. CASE /\ host = "demo" /\ RunStep
            /\ ~CreateWorkspace /\ ~WorkspaceReady /\ ~GrantRoles /\ ~BindExport /\ ~ReconcileRoles
            /\ ~NextWorkspace /\ ~GrantProviderBinding /\ ~EnsureUsers
  <2>1. UNCHANGED <<cur, ws, boundTo, holds, widened>>
    BY <1>12
    DEF RunStep, RunValidate, PublishExports, EnsureWorkspaceType, RunRunner, WaitForEndpoints,
        StartManagers, EngagedByEvery, CreateObjects, Snapshot, SnapshotMachines, SnapshotControlPlanes, Judge,
        RunCheckAccess, Report, GivesUp, runnerVars, world, install
  <2>2. at' \notin Building /\ (Reached(Built)' => Reached(Built))
    BY <1>0, <1>12
    DEF RunStep, RunValidate, PublishExports, EnsureWorkspaceType, RunRunner, WaitForEndpoints,
        StartManagers, EngagedByEvery, CreateObjects, Snapshot, SnapshotMachines, SnapshotControlPlanes, Judge,
        RunCheckAccess, Report, GivesUp, Step, Return, Running, Reached, Building, Built, Filled
  <2>3. QED
    BY <1>0, <1>1, <2>1, <2>2, WorkspacesUntouched
<1>13. CASE \/ \E e \in ExportSet(Providers), w \in Workspaces : Engage(e, w)
            \/ \E e \in ExportSet(Providers) : ManagerExits(e)
            \/ \E w \in Workspaces : Provision(w)
            \/ Deadline \/ Interrupt
  <2>1. /\ UNCHANGED <<cur, ws, boundTo, holds, widened>>
        /\ (at' \in Building => at' = at) /\ (Reached(Built)' => Reached(Built))
    BY <1>13
    DEF Engage, ManagerExits, Provision, Deadline, Interrupt, Running, Return, runnerVars, world,
        install, Reached, Building, Built, Filled
  <2>2. QED
    BY <1>0, <1>1, <2>1, WorkspacesUntouched
<1>14. QED
  BY <1>0, <1>3, <1>4, <1>5, <1>6, <1>7, <1>8, <1>9, <1>10, <1>11, <1>12, <1>13,
     OthersOnlyFinish DEF Next, Meanwhile

-----------------------------------------------------------------------------
(* The invariant holds. *)

LEMMA InitDemoInv == Init => DemoInv
<1>0. SUFFICES ASSUME Init PROVE DemoInv
  OBVIOUS
<1>1. /\ opts \in Runs /\ host \in {"binary", "demo"} /\ result = "none" /\ cur = 1
      /\ at = IF host = "demo" THEN "validate" ELSE "ended"
      /\ holds = {} /\ objects = {} /\ boundTo = [w \in Workspaces |-> {}]
      /\ engaged = [w \in Workspaces |-> {}] /\ seen = NothingSeen
      /\ cluster = Absent /\ machine = Absent /\ ws = [w \in Workspaces |-> "absent"]
  BY <1>0, RunnerAssumption DEF Init, RunnerInit, DemoInit
<1>2. opts.count \in Nat
  BY <1>1, OptionsAreOK DEF OptionsOK
<1>3. RunInv
  BY <1>1, <1>2 DEF RunInv, Reached, AllSteps, Preparing, Building, Built, Filled, Validate
<1>4. GrantsInv
  BY <1>1 DEF GrantsInv, Reached, Building, Built, Filled
<1>5. WorkspacesInv
  BY <1>1 DEF WorkspacesInv, Reached, Building, Built, Filled
<1>6. EngagedInv
  BY <1>1 DEF EngagedInv, Filled
<1>7. SeenInv
  BY <1>1 DEF SeenInv, Reached, NothingSeen, Absent
<1>8. QED
  BY <1>1, <1>3, <1>4, <1>5, <1>6, <1>7 DEF DemoInv, IsolatedInv

\* Whoever holds a path that is checked owns it.
LEMMA AllowedIsOwned ==
  ASSUME GrantsInv, NEW u \in Users, NEW path, path # ParentPath, <<u, path>> \in Allowed
  PROVE  /\ path[2] = u
         /\ path[1] = "home" \/ \E w \in Planned : path = Plans[w].path
<1>1. <<u, path>> \notin Users \X {ParentPath}
  OBVIOUS
<1>2. PICK h \in holds : /\ h = <<u, path>>
                         /\ h[2][1] = "home" \/ \E w \in Planned : h[2] = Plans[w].path
  BY <1>1 DEF Allowed
<1>3. h[1] = u /\ h[2] = path
  BY <1>2
<1>4. QED
  BY <1>2, <1>3 DEF GrantsInv

\* The access checks come out as intended.
LEMMA ChecksComeOut ==
  ASSUME RunInv, GrantsInv, WorkspacesInv, at = "access", Users # {}
  PROVE  Isolated(CheckAccess(opts.users, Plans, Allowed))
<1>1. OptionsOK /\ Validate
  BY OptionsAreOK DEF RunInv, Reached, AllSteps, Built, Filled
<1>2. /\ \A u \in Users : <<u, HomePath(u)>> \in holds
      /\ \A w \in Planned : Owned(w) /\ HasRoles(w)
  BY DEF GrantsInv, WorkspacesInv, Reached, Built, Filled, Complete
<1>3. \A u \in Users : u # None /\ u # Everyone /\ u # Nobody
  BY <1>1 DEF OptionsOK, Users, Validate, ValidateUsers
<1>4. DOMAIN Plans = Planned
  BY DEF Plans, PlanWorkspaces, Planned
\* What a user owns, and nothing else that is checked, is served to them.
<1>5. ASSUME NEW u \in Users, NEW owner \in Users,
             NEW path \in {HomePath(owner)} \cup FirstOwned(Plans, owner)
      PROVE  <<u, path>> \in Allowed <=> u = owner
  <2>1. /\ path # ParentPath /\ path[2] = owner
        /\ <<owner, path>> \in Allowed
    <3>1. CASE path = HomePath(owner)
      BY <1>2, <3>1 DEF HomePath, ParentPath, Allowed
    <3>2. CASE path \in FirstOwned(Plans, owner)
      <4>1. PICK w \in Planned : path = Plans[w].path /\ Plans[w].owner = owner
        BY <1>4, <3>2 DEF FirstOwned
      <4>2. path[2] = owner /\ path[1] = "workspace"
        BY <1>1, <4>1, PathsNameOwners
      <4>3. path # ParentPath
        BY <4>2 DEF ParentPath
      <4>4. <<owner, path>> \in holds
        BY <1>2, <1>3, <4>1 DEF Owned
      <4>5. <<owner, path>> \in Allowed
        BY <1>2, <4>1, <4>4 DEF Allowed
      <4>6. QED
        BY <4>2, <4>3, <4>5
    <3>3. QED
      BY <3>1, <3>2
  <2>2. <<u, path>> \in Allowed => path[2] = u
    BY <2>1, AllowedIsOwned
  <2>3. QED
    BY <2>1, <2>2
\* The org is served to nobody.
<1>6. ASSUME NEW u \in Users PROVE <<u, OrgPath>> \notin Allowed
  <2>1. OrgPath # ParentPath /\ OrgPath[1] = "org"
    BY DEF OrgPath, ParentPath
  <2>2. \A w \in Planned : Plans[w].path[1] = "workspace"
    BY <1>1, PathsNameOwners
  <2>3. QED
    BY <2>1, <2>2, AllowedIsOwned
<1> DEFINE Checks == CheckAccess(opts.users, Plans, Allowed)
<1>7. Checks = UNION {
        {Check(user, ParentPath, Everyone, Allowed), Check(user, OrgPath, Nobody, Allowed)}
          \cup UNION {{Check(user, path, owner, Allowed) :
                         path \in {HomePath(owner)} \cup FirstOwned(Plans, owner)} : owner \in Users}
        : user \in Users}
  BY Zenon DEF CheckAccess, Users
<1> HIDE DEF Checks
<1>8. ASSUME NEW check \in Checks PROVE AsIntended(check)
  <2>1. PICK u \in Users :
          \/ check = Check(u, ParentPath, Everyone, Allowed)
          \/ check = Check(u, OrgPath, Nobody, Allowed)
          \/ \E owner \in Users : \E path \in {HomePath(owner)} \cup FirstOwned(Plans, owner) :
               check = Check(u, path, owner, Allowed)
    BY <1>7
  <2>2. CASE check = Check(u, ParentPath, Everyone, Allowed)
    BY <2>2 DEF Check, AsIntended
  <2>3. CASE check = Check(u, OrgPath, Nobody, Allowed)
    <3>1. check.owner = Nobody /\ check.allowed = (<<u, OrgPath>> \in Allowed)
      BY <2>3 DEF Check
    <3>2. Nobody # Everyone
      BY DEF Nobody, Everyone
    <3>3. check.allowed = FALSE
      <4>1. (<<u, OrgPath>> \in Allowed) = FALSE
        BY <1>6
      <4>2. QED
        BY <3>1, <4>1
    <3>4. QED
      BY <3>1, <3>2, <3>3 DEF AsIntended, Expected
  <2>4. CASE \E owner \in Users : \E path \in {HomePath(owner)} \cup FirstOwned(Plans, owner) :
               check = Check(u, path, owner, Allowed)
    <3>1. PICK owner \in Users : \E path \in {HomePath(owner)} \cup FirstOwned(Plans, owner) :
                 check = Check(u, path, owner, Allowed)
      BY <2>4
    <3>2. PICK path \in {HomePath(owner)} \cup FirstOwned(Plans, owner) :
                 check = Check(u, path, owner, Allowed)
      BY <3>1
    <3>3. check.owner = owner /\ check.user = u /\ check.allowed = (<<u, path>> \in Allowed)
      BY <3>2 DEF Check
    <3>4. check.allowed = (u = owner)
      BY <1>5, <3>3
    <3>5. Expected(check) = (u = owner)
      BY <1>3, <3>3 DEF Expected
    <3>6. QED
      BY <3>4, <3>5 DEF AsIntended
  <2>5. QED
    BY <2>1, <2>2, <2>3, <2>4
<1>9. Checks # {}
  <2>1. PICK u \in Users : TRUE
    OBVIOUS
  <2>2. Check(u, ParentPath, Everyone, Allowed) \in Checks
    BY <1>7
  <2>3. QED
    BY <2>2
<1>10. QED
  BY <1>8, <1>9 DEF Isolated, Checks

LEMMA IsolatedKeeps == RunInv /\ GrantsInv /\ WorkspacesInv /\ IsolatedInv /\ [Next]_vars => IsolatedInv'
<1>0. SUFFICES ASSUME RunInv, GrantsInv, WorkspacesInv, IsolatedInv, [Next]_vars PROVE IsolatedInv'
  OBVIOUS
<1>1. Users' = Users
  BY <1>0, OptionsStay, SameRun
<1>2. CASE OthersAct
  BY <1>0, <1>1, <1>2 DEF OthersAct, demo, IsolatedInv
<1>3. CASE RunCheckAccess
  <2>1. Users # {} => access' = CheckAccess(opts.users, Plans, Allowed) /\ at = "access"
    BY <1>3 DEF RunCheckAccess, Step
  <2>2. QED
    BY <1>0, <1>1, <2>1, ChecksComeOut DEF IsolatedInv
<1>4. CASE host = "demo" /\ RunStep /\ ~RunCheckAccess
  <2>1. access' = access /\ at' # "report"
    BY <1>4
    DEF RunStep, RunValidate, PublishExports, EnsureWorkspaceType, RunRunner, EnsureUsers,
        GrantProviderBinding, CreateWorkspace, WorkspaceReady, GrantRoles, BindExport, ReconcileRoles,
        NextWorkspace, WaitForEndpoints, StartManagers, EngagedByEvery, CreateObjects, Snapshot,
        SnapshotMachines, SnapshotControlPlanes, Judge, Report, GivesUp, Step, Return
  <2>2. QED
    BY <1>0, <1>1, <2>1 DEF IsolatedInv
<1>5. CASE \/ \E e \in ExportSet(Providers), w \in Workspaces : Engage(e, w)
           \/ \E e \in ExportSet(Providers) : ManagerExits(e)
           \/ \E w \in Workspaces : Provision(w)
           \/ Deadline \/ Interrupt
  BY <1>0, <1>1, <1>5
  DEF Engage, ManagerExits, Provision, Deadline, Interrupt, Return, IsolatedInv
<1>6. QED
  BY <1>0, <1>2, <1>3, <1>4, <1>5, OthersOnlyFinish DEF Next, Meanwhile

LEMMA DemoInvariant == Spec => []DemoInv
<1>1. DemoInv /\ [Next]_vars => DemoInv'
  BY RunKeeps, GrantsKeep, WorkspacesKeep, EngagedKeeps, SeenKeeps, IsolatedKeeps DEF DemoInv
<1>2. QED
  BY InitDemoInv, <1>1, PTL DEF Spec

-----------------------------------------------------------------------------
\* The workspace manager's Start answers nil only after all three of its
\* managers ended because they were asked to, however they fail and are started
\* again, in the binary and in a demo run (Runner.Start).
THEOREM NilIsTheEnd == Spec => []NilMeansAllEnded
<1>1. Init => RunnerInv
  BY InitRunner DEF Init
<1>2. RunnerInv => NilMeansAllEnded
  BY DEF RunnerInv, NilMeansAllEnded, Threads
<1>3. QED
  BY <1>1, <1>2, RunnerKeeps, PTL DEF Spec

\* A run that binds as a tenant has granted the tenant all it takes, for any
\* users, workspaces and exports (Run's order: homes, bind, workspace, roles).
THEOREM TenantsMayBind == Spec => []NeverForbidden
<1>1. DemoInv => NeverForbidden
  <2>0. SUFFICES ASSUME DemoInv, at = "bind", opts.privileged PROVE ~Forbidden(cur)
    BY DEF NeverForbidden
  <2>1. CASE EnabledBy(cur) = None
    BY <2>1 DEF Forbidden
  <2>2. CASE EnabledBy(cur) # None
    <3>1. Typed /\ EnabledBy(cur) = Plans[cur].owner
      BY <2>2 DEF EnabledBy
    <3>2. OptionsOK /\ cur \in Planned /\ RunInv
      BY <2>0, BuildingIsPlanned, OptionsAreOK DEF DemoInv, RunInv, AllSteps, Preparing, Building
    <3>3. EnabledBy(cur) \in Users
      BY <2>2, <3>1, <3>2, PathsNameOwners
    <3>4. <<EnabledBy(cur), Plans[cur].path>> \in holds /\ HasRoles(cur)
      BY <2>0, <2>2, <3>1 DEF DemoInv, WorkspacesInv, Owned, HasRoles
    <3>5. TenantProviders # {}
      <4>1. PICK i \in DOMAIN Providers : Providers[i] # Core
        BY DemoAssumption DEF Core
      <4>2. Providers[i] \in ExportSet(Published)
        <5>1. Providers \in Seq(STRING \ {Nutanix})
          BY DemoAssumption
        <5>2. i \in DOMAIN Append(Providers, Nutanix) /\ Append(Providers, Nutanix)[i] = Providers[i]
          BY <4>1, <5>1, AppendProperties, LenProperties
        <5>3. QED
          BY <4>1, <5>2 DEF ExportSet, Published
      <4>3. QED
        BY <4>1, <4>2 DEF TenantProviders
    <3>6. EnabledBy(cur) \in mayBind
      BY <2>0, <3>3, <3>5 DEF DemoInv, GrantsInv, Reached, Building
    <3>7. QED
      BY <2>0, <3>4, <3>6 DEF Forbidden
  <2>3. QED
    BY <2>1, <2>2
<1>2. QED
  BY <1>1, DemoInvariant, PTL

\* Every manager of the process has engaged a workspace before anything is
\* created in it (Run, waitForEngagements before createObjects).
THEOREM ObjectsComeLast == Spec => []EngagedBeforeObjects
<1>1. DemoInv => EngagedBeforeObjects
  BY DEF DemoInv, EngagedInv, EngagedBeforeObjects
<1>2. QED
  BY <1>1, DemoInvariant, PTL

\* What waitForReady read piece by piece is so of all of the world when the run
\* succeeds, whatever it asked for, in a world where what is ready stays ready.
THEOREM SuccessIsReal == Spec => []SuccessMeansReady
<1>1. DemoInv => SuccessMeansReady
  BY DEF DemoInv, SeenInv, WorkspacesInv, Complete, Reached, SuccessMeansReady
<1>2. QED
  BY <1>1, DemoInvariant, PTL

LEMMA ApartWhenDone == DemoInv => TenantsAreApart
<1>0. SUFFICES ASSUME DemoInv, result = "ok" PROVE TenantsAreApart
  BY DEF TenantsAreApart, DemoInv, IsolatedInv
<1>1. OptionsOK /\ Validate /\ Planned \subseteq Workspaces
  BY <1>0, OptionsAreOK DEF DemoInv, RunInv, Reached, OptionsOK, Planned
<1>2. /\ \A h \in holds : h[2][2] = h[1]
      /\ \A u \in Users : <<u, HomePath(u)>> \in holds
      /\ \A w \in Planned : Owned(w) /\ HasRoles(w)
  BY <1>0 DEF DemoInv, GrantsInv, WorkspacesInv, Reached, Complete
<1>3. None \notin Users
  BY <1>1 DEF OptionsOK, Users
<1>4. ASSUME NEW u \in Users, NEW w \in Planned, Plans[w].owner = u
      PROVE  <<u, Plans[w].path>> \in holds /\ <<u, Plans[w].path>> \in Allowed
  <2>1. <<u, Plans[w].path>> \in holds
    BY <1>2, <1>3, <1>4 DEF Owned
  <2>2. QED
    BY <1>2, <2>1 DEF Allowed
<1>5. ASSUME NEW u \in Users
      PROVE  /\ \E w \in Planned : Plans[w].owner = u /\ <<u, Plans[w].path>> \in holds
             /\ \A path \in TenantEntries(u, Plans) : <<u, path>> \in Allowed
  <2>1. PICK w \in Planned : Plans[w].owner = u
    BY <1>1, EverybodyOwnsOne
  <2>2. <<u, HomePath(u)>> \in Allowed
    BY <1>2 DEF Allowed, HomePath
  <2>3. DOMAIN Plans = Planned
    BY DEF Plans, PlanWorkspaces, Planned
  <2>4. \A path \in TenantEntries(u, Plans) : <<u, path>> \in Allowed
    BY <1>4, <2>2, <2>3 DEF TenantEntries
  <2>5. QED
    BY <1>4, <2>1, <2>4
<1>6. QED
  BY <1>0, <1>1, <1>2, <1>5, PlanCounts DEF TenantsAreApart, DemoInv, IsolatedInv

\* Homes, workspaces and grants of the tenants of a run that succeeded are
\* theirs alone and all they were handed works, for any number of tenants and
\* workspaces (PlanWorkspaces, AccessCheck).
THEOREM TenantsStayApart == Spec => []TenantsAreApart
<1>1. QED
  BY ApartWhenDone, DemoInvariant, PTL
=============================================================================

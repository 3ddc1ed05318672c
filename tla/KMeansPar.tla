----------------------------- MODULE KMeansPar -----------------------------
(***************************************************************************)
(* The message passing of src/Distributed_K_Means_MPI/points_par.c.  Every *)
(* rank runs main: the root reads the points, sends the centroids (tag 1)  *)
(* and scatters the points; then each rank iterates, a worker sending its  *)
(* centroids with tag 2 and waiting for the averaged ones (tag 3), the     *)
(* root collecting the workers' centroids and sending back their average.  *)
(*                                                                         *)
(* The point and centroid values are abstracted away: whether a centroid   *)
(* moved more than 0.05 (flag) and whether a cluster came out empty        *)
(* (count == 0) are choices.  Messages are a bag of [src, dst, tag]: MPI   *)
(* keeps no order between different tags, and the payloads are abstract.  *)
(* A send of a few points is below every MPI library's eager limit, so     *)
(* MPI_Send returns at once and leaves the message in the bag.  A rank     *)
(* that returns from main without MPI_Finalize, or an MPI call with an     *)
(* invalid rank (fatal on MPI_COMM_WORLD), ends the whole job.             *)
(***************************************************************************)
EXTENDS Integers, Bags, BagsExt

CONSTANTS
    NumProcs,   \* the size of MPI_COMM_WORLD
    Iterations, \* the -n argument, or -1 when it is absent
    MaxRounds   \* bound on the iterations a rank computes in the model

ROOT == 0
Procs == 0..(NumProcs - 1)

\* MPI_Scatter's messages travel apart from point-to-point ones; -1 is no
\* tag a send can use
SCATTER == -1

VARIABLES
    pc,         \* rank -> the statement it is at
    i,          \* rank -> its variable i (iteration count and loop index)
    j,          \* the root's variable j in its receive loop
    flag,       \* rank -> not yet converged
    msgs,       \* bag of [src, dst, tag] sent and not yet received
    rounds      \* rank -> iterations it has computed (history only)

vars == <<pc, i, j, flag, msgs, rounds>>

Msg(s, d, t) == [src |-> s, dst |-> d, tag |-> t]

Send(m) == msgs' = BagAdd(msgs, m)

\* MPI_Recv(source, tag): blocks until such a message is there
Recv(m) == BagIn(m, msgs) /\ msgs' = BagRemove(msgs, m)

\* a rank returned from main early, or MPI aborted the job
Killed == \E p \in Procs : pc[p] \in {"exit", "abort"}

Init ==
    /\ pc = [p \in Procs |-> IF p = ROOT THEN "read" ELSE "recv1"]
    /\ i = [p \in Procs |-> 0]
    /\ j = 0
    /\ flag = [p \in Procs |-> TRUE]
    /\ msgs = EmptyBag
    /\ rounds = [p \in Procs |-> 0]

\* p moves from statement from to statement to
Goto(p, from, to) == pc[p] = from /\ pc' = [pc EXCEPT ![p] = to]

--------------------------------------------------------------------------
(* Set-up, lines 107-175.                                                  *)

\* the root opens and reads the file (110-126), or returns on an error;
\* then picks the initial centroids (130-139) and starts the send loop
Read ==
    \/ Goto(ROOT, "read", "exit") /\ UNCHANGED <<i, j, flag, msgs>>
    \/ /\ Goto(ROOT, "read", "send1")
       /\ i' = [i EXCEPT ![ROOT] = 0]
       /\ UNCHANGED <<j, flag, msgs>>

\* for (i = 0; i < num_procs; i++) MPI_Send(centroids, ..., i, 1, ...)
Send1 ==
    /\ pc[ROOT] = "send1"
    /\ IF i[ROOT] < NumProcs
       THEN /\ Send(Msg(ROOT, i[ROOT], 1))
            /\ i' = [i EXCEPT ![ROOT] = @ + 1]
            /\ UNCHANGED pc
       ELSE /\ pc' = [pc EXCEPT ![ROOT] = "scatter"]
            /\ UNCHANGED <<i, msgs>>
    /\ UNCHANGED <<j, flag>>

\* a worker's MPI_Recv(centroids, ..., ROOT, 1, ...)
Recv1(p) ==
    /\ Goto(p, "recv1", "scatter")
    /\ Recv(Msg(ROOT, p, 1))
    /\ UNCHANGED <<i, j, flag>>

\* the loop's start: flag = true; i = -2 without -n, else 0
LoopStart(p) ==
    /\ flag' = [flag EXCEPT ![p] = TRUE]
    /\ i' = [i EXCEPT ![p] = IF Iterations = -1 THEN -2 ELSE 0]

\* MPI_Scatter from the root: the root hands every worker its share and
\* goes on; a worker waits for its share
Scatter(p) ==
    /\ Goto(p, "scatter", "test")
    /\ IF p = ROOT
       THEN msgs' = msgs (+) SetToBag({Msg(ROOT, q, SCATTER) : q \in Procs \ {ROOT}})
       ELSE Recv(Msg(ROOT, p, SCATTER))
    /\ LoopStart(p)
    /\ UNCHANGED j

--------------------------------------------------------------------------
(* The iteration, lines 176-256.                                           *)

\* while (i < iterations && flag)
Test(p) ==
    /\ pc[p] = "test"
    /\ pc' = [pc EXCEPT ![p] = IF i[p] < Iterations /\ flag[p] THEN "compute" ELSE "final"]
    /\ UNCHANGED <<i, j, flag, msgs>>

\* assign the points, average each cluster: an empty cluster returns from
\* main (210-213); flag is set when some centroid moved; if (i >= 0) i++
Compute(p) ==
    /\ pc[p] = "compute"
    /\ rounds[p] < MaxRounds
    /\ \/ /\ pc' = [pc EXCEPT ![p] = "exit"]
          /\ UNCHANGED <<i, flag>>
       \/ /\ pc' = [pc EXCEPT ![p] = "combine"]
          /\ \E moved \in BOOLEAN : flag' = [flag EXCEPT ![p] = moved]
          /\ i' = [i EXCEPT ![p] = IF @ >= 0 THEN @ + 1 ELSE @]
    /\ rounds' = [rounds EXCEPT ![p] = @ + 1]
    /\ UNCHANGED <<j, msgs>>

\* a worker: MPI_Send(centroids, ..., i, 2, ...), to rank i
WorkerSend(p) ==
    /\ p # ROOT
    /\ IF i[p] \in Procs
       THEN Goto(p, "combine", "recv3") /\ Send(Msg(p, i[p], 2))
       ELSE Goto(p, "combine", "abort") /\ UNCHANGED msgs
    /\ UNCHANGED <<i, j, flag>>

\* a worker: MPI_Recv(centroids, ..., ROOT, 3, ...)
Recv3(p) ==
    /\ Goto(p, "recv3", "test")
    /\ Recv(Msg(ROOT, p, 3))
    /\ UNCHANGED <<i, j, flag>>

\* the root: for (j = 1; j < num_procs; j++) MPI_Recv(resulti, ..., ROOT, 2, ...)
RootCombine ==
    /\ Goto(ROOT, "combine", "recv2")
    /\ j' = 1
    /\ UNCHANGED <<i, flag, msgs>>

Recv2 ==
    /\ pc[ROOT] = "recv2"
    /\ IF j < NumProcs
       THEN /\ Recv(Msg(ROOT, ROOT, 2))
            /\ j' = j + 1
            /\ UNCHANGED <<pc, i>>
       ELSE /\ pc' = [pc EXCEPT ![ROOT] = "send3"]
            /\ i' = [i EXCEPT ![ROOT] = 1]
            /\ UNCHANGED <<j, msgs>>
    /\ UNCHANGED flag

\* the root: for (i = 1; i < num_procs; i++) MPI_Send(centroids, ..., i, 3, ...)
Send3 ==
    /\ pc[ROOT] = "send3"
    /\ IF i[ROOT] < NumProcs
       THEN /\ Send(Msg(ROOT, i[ROOT], 3))
            /\ i' = [i EXCEPT ![ROOT] = @ + 1]
            /\ UNCHANGED pc
       ELSE /\ pc' = [pc EXCEPT ![ROOT] = "test"]
            /\ UNCHANGED <<i, msgs>>
    /\ UNCHANGED <<j, flag>>

\* MPI_Finalize (269)
Finalize(p) ==
    /\ Goto(p, "final", "finalized")
    /\ UNCHANGED <<i, j, flag, msgs>>

--------------------------------------------------------------------------

\* the steps of rank p
Step(p) ==
    \/ p = ROOT /\ (Read \/ Send1 \/ RootCombine \/ Recv2 \/ Send3)
    \/ p # ROOT /\ (Recv1(p) \/ WorkerSend(p) \/ Recv3(p))
    \/ Scatter(p) \/ Test(p) \/ Compute(p) \/ Finalize(p)

\* a step of rank p while the job runs; only Compute counts a round
Act(p) == ~Killed /\ Step(p) /\ (pc[p] = "compute" \/ UNCHANGED rounds)

Next == \E p \in Procs : Act(p)

Spec == Init /\ [][Next]_vars

\* every rank is its own OS process and keeps running while it can
FairSpec == Spec /\ \A p \in Procs : WF_vars(Act(p))

--------------------------------------------------------------------------
(* Properties.                                                             *)

Labels == {"read", "send1", "recv1", "scatter", "test", "compute", "combine",
           "recv2", "send3", "recv3", "final", "finalized", "exit", "abort"}

TypeOK ==
    /\ pc \in [Procs -> Labels]
    /\ i \in [Procs -> -2..(Iterations + NumProcs)]
    /\ j \in 0..NumProcs
    /\ flag \in [Procs -> BOOLEAN]
    /\ rounds \in [Procs -> 0..MaxRounds]

\* The job ends: each rank runs its iterations ("We repeat this entire
\* procedure 'iterations' number of times", line 166) and reaches
\* MPI_Finalize, unless a rank returns early or MPI aborts.
JobEnds == Killed \/ \A p \in Procs : pc[p] = "finalized"
Terminates == <>JobEnds

\* With -n given, no rank computes more than n iterations: the loop test
\* i < iterations, with i counted up after each iteration (226-227).
IterationsBounded == Iterations >= 0 => \A p \in Procs : rounds[p] <= Iterations

====

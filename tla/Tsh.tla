-------------------------------- MODULE Tsh --------------------------------
(***************************************************************************)
(* The tiny shell of src/Tiny_Shell/...tsh.c: its job list, the read/eval *)
(* loop with the fg and bg builtins, and the SIGCHLD, SIGINT and SIGTSTP   *)
(* handlers, which run asynchronously on top of the main loop and of one   *)
(* another.  The children and the terminal are the environment: a child    *)
(* calls setpgid and may exit at any time, and the user may type ctrl-c    *)
(* or ctrl-z at any time.                                                  *)
(*                                                                         *)
(* Granularity.  A handler can interrupt the main loop between any two C   *)
(* statements that run with the signals unblocked, and csapp's Signal      *)
(* blocks only the signal being handled, so handlers nest.  The model      *)
(* therefore splits every statement that reads or writes the job list      *)
(* with signals unblocked into its own step, and keeps the handlers as a   *)
(* stack of frames of which only the top one runs.  The fork-and-addjob    *)
(* section of eval runs with SIGCHLD, SIGINT and SIGTSTP blocked and is    *)
(* one step.                                                               *)
(***************************************************************************)
EXTENDS Integers, Sequences, FiniteSets

CONSTANTS
    MAXJOBS,    \* size of job_list (16 in the code)
    Pids,       \* the pids Fork may return, integers larger than any jid
    Forks,      \* the kinds of command line the user runs: "fg", "bg"
    Builtins,   \* the fg/bg builtins the user types: [kind, byjid, arg]
    Keys        \* what the user types at the terminal: "INT", "TSTP"

VARIABLES
    job_list,   \* slot -> [pid, jid, state], the global job_list
    nextjid,    \* the global nextjid
    proc,       \* pid -> the kernel's state of that child
    doomed,     \* stopped children with a SIGINT pending (dies on SIGCONT)
    pending,    \* signals pending for the shell
    pc,         \* the main loop's position
    cmd,        \* the builtin being run
    fpid,       \* eval's local pid
    stack       \* the signal-handler frames, innermost last

vars == <<job_list, nextjid, proc, doomed, pending, pc, cmd, fpid, stack>>
kernel == <<proc, doomed, pending>>

\* job states, lines 25-28
UNDEF == 0
FG == 1
BG == 2
ST == 3
NULL == 0
Slots == 1..MAXJOBS

Dead == {"exit", "crash", "killerr"}
Running == pc \notin Dead

--------------------------------------------------------------------------
(* The job list helpers, lines 579-705.                                    *)

clearjob == [pid |-> 0, jid |-> 0, state |-> UNDEF]

initjobs == [i \in Slots |-> clearjob]

maxjid(jl) == LET js == {jl[i].jid : i \in Slots} \cup {0}
              IN  CHOOSE m \in js : \A j \in js : j <= m

FirstOf(S) == CHOOSE i \in S : \A k \in S : i <= k

\* addjob fills the first free slot; the job list full, it adds nothing
addjob(jl, nj, pid, state) ==
    LET free == {i \in Slots : jl[i].pid = 0}
    IN  IF pid < 1 \/ free = {} THEN [jl |-> jl, nj |-> nj]
        ELSE [jl |-> [jl EXCEPT ![FirstOf(free)] =
                        [pid |-> pid, jid |-> nj, state |-> state]],
              nj |-> IF nj + 1 > MAXJOBS THEN 1 ELSE nj + 1]

\* mutant: a clear that resets job->pid only
ClearSlot_pid_only(jl, i) == [jl |-> [jl EXCEPT ![i].pid = 0],
                              nj |-> maxjid([jl EXCEPT ![i].pid = 0]) + 1]

ClearSlot(jl, i) == [jl |-> [jl EXCEPT ![i] = clearjob],
                     nj |-> maxjid([jl EXCEPT ![i] = clearjob]) + 1]

\* mutant: a delete that matches the pid against the jid field
deletejob_by_jid(jl, nj, pid) ==
    LET hit == {i \in Slots : jl[i].jid = pid}
    IN  IF pid < 1 \/ hit = {} THEN [jl |-> jl, nj |-> nj]
        ELSE ClearSlot(jl, FirstOf(hit))

deletejob(jl, nj, pid) ==
    LET hit == {i \in Slots : jl[i].pid = pid}
    IN  IF pid < 1 \/ hit = {} THEN [jl |-> jl, nj |-> nj]
        ELSE ClearSlot(jl, FirstOf(hit))

fgpid(jl) == LET s == {i \in Slots : jl[i].state = FG}
             IN  IF s = {} THEN 0 ELSE jl[FirstOf(s)].pid

\* the slot of the job, or NULL
getjobpid(jl, pid) ==
    LET s == {i \in Slots : jl[i].pid = pid}
    IN  IF pid < 1 \/ s = {} THEN NULL ELSE FirstOf(s)

getjobjid(jl, jid) ==
    LET s == {i \in Slots : jl[i].jid = jid}
    IN  IF jid < 1 \/ s = {} THEN NULL ELSE FirstOf(s)

--------------------------------------------------------------------------
(* The kernel's side of kill(-g, sig), as csapp's Kill calls it: the group *)
(* g exists from the child's setpgid(0,0) until the child is reaped.  A    *)
(* stop or a death raises SIGCHLD for the shell, and so does a continue.   *)

GroupExists(g) == proc[g] \in {"run", "stop_new", "stop", "zombie"}

Stopped(g) == proc[g] \in {"stop_new", "stop"}

SignalGroup(g, sig) ==
    CASE sig = "INT" /\ proc[g] = "run" ->
            /\ proc' = [proc EXCEPT ![g] = "zombie"]
            /\ pending' = pending \cup {"CHLD"}
            /\ UNCHANGED doomed
      [] sig = "INT" /\ Stopped(g) ->
            /\ doomed' = doomed \cup {g}
            /\ UNCHANGED <<proc, pending>>
      [] sig = "TSTP" /\ proc[g] = "run" ->
            /\ proc' = [proc EXCEPT ![g] = "stop_new"]
            /\ pending' = pending \cup {"CHLD"}
            /\ UNCHANGED doomed
      [] sig = "CONT" /\ Stopped(g) ->
            /\ proc' = [proc EXCEPT ![g] = IF g \in doomed THEN "zombie" ELSE "run"]
            /\ doomed' = doomed \ {g}
            /\ pending' = pending \cup {"CHLD"}
      [] OTHER -> UNCHANGED kernel

\* csapp Kill: on failure unix_error ends the shell
Kill(g, sig, pcNext, stackNext) ==
    IF GroupExists(g)
    THEN SignalGroup(g, sig) /\ pc' = pcNext /\ stack' = stackNext
    ELSE pc' = "killerr" /\ UNCHANGED <<kernel, stack>>

--------------------------------------------------------------------------
(* The main loop: main, lines 149-172, and eval, lines 189-341.  It runs   *)
(* only while no handler is on the stack.                                   *)

MainTurn == Running /\ stack = <<>>

Init ==
    /\ job_list = initjobs
    /\ nextjid = 1
    /\ proc = [p \in Pids |-> "unused"]
    /\ doomed = {}
    /\ pending = {}
    /\ pc = "prompt"
    /\ cmd = [kind |-> "none", byjid |-> TRUE, arg |-> 0]
    /\ fpid = 0
    /\ stack = <<>>

NewPid == FirstOf({p \in Pids : proc[p] = "unused"})

\* eval of a command line that is not a builtin: with the three signals
\* blocked it forks, adds the job and unblocks; a foreground job then
\* waits on fgpid.  A pid the kernel cannot give is the end of the bound.
RunJob(kind, a) ==
    /\ job_list' = a.jl
    /\ nextjid' = a.nj
    /\ proc' = [proc EXCEPT ![fpid'] = "forked"]
    /\ pc' = IF kind = "bg" THEN "prompt" ELSE "waitfg"

eval_fork(kind) ==
    /\ MainTurn /\ pc = "prompt"
    /\ {p \in Pids : proc[p] = "unused"} # {}
    /\ fpid' = NewPid
    /\ RunJob(kind, addjob(job_list, nextjid, NewPid, IF kind = "bg" THEN BG ELSE FG))
    /\ UNCHANGED <<doomed, pending, cmd, stack>>

\* while(fgpid(job_list)!=0){} exits; while it spins nothing changes
waitfg ==
    /\ MainTurn /\ pc = "waitfg"
    /\ fgpid(job_list) = 0
    /\ pc' = "prompt"
    /\ UNCHANGED <<job_list, nextjid, kernel, cmd, fpid, stack>>

\* BUILTIN_QUIT
quit ==
    /\ MainTurn /\ pc = "prompt"
    /\ pc' = "exit"
    /\ UNCHANGED <<job_list, nextjid, kernel, cmd, fpid, stack>>

\* The job a fg/bg argument names: getjobjid for %jid, getjobpid for a pid.
Lookup(c) == IF c.byjid THEN getjobjid(job_list, c.arg)
                        ELSE getjobpid(job_list, c.arg)

\* pid = get...(...)->pid, the first statement of BUILTIN_BG and BUILTIN_FG
builtin_pid(c) ==
    /\ MainTurn /\ pc = "prompt"
    /\ cmd' = c
    /\ IF Lookup(c) = NULL
       THEN pc' = "crash" /\ UNCHANGED fpid
       ELSE /\ fpid' = job_list[Lookup(c)].pid
            /\ pc' = IF c.kind = "bg" THEN "bg_state" ELSE "fg_state"
    /\ UNCHANGED <<job_list, nextjid, kernel, stack>>

\* get...(...)->state = BG (or FG), a second lookup
builtin_state ==
    /\ MainTurn /\ pc \in {"bg_state", "fg_state"}
    /\ IF Lookup(cmd) = NULL
       THEN pc' = "crash" /\ UNCHANGED job_list
       ELSE /\ job_list' = [job_list EXCEPT ![Lookup(cmd)].state =
                                IF cmd.kind = "bg" THEN BG ELSE FG]
            /\ pc' = IF cmd.kind = "bg" THEN "bg_print" ELSE "fg_kill"
    /\ UNCHANGED <<nextjid, kernel, cmd, fpid, stack>>

\* bg's printf reads getjobjid(job_list, <argument>)->cmdline in both
\* forms, so the pid form looks a pid up as a jid
bg_print ==
    /\ MainTurn /\ pc = "bg_print"
    /\ pc' = IF getjobjid(job_list, cmd.arg) = NULL THEN "crash" ELSE "bg_kill"
    /\ UNCHANGED <<job_list, nextjid, kernel, cmd, fpid, stack>>

\* Kill(-pid, SIGCONT); the pid form looks the job up a third time
builtin_cont ==
    /\ MainTurn /\ pc \in {"bg_kill", "fg_kill"}
    /\ LET next == IF pc = "bg_kill" THEN "prompt" ELSE "waitfg"
       IN  IF cmd.byjid THEN Kill(fpid, "CONT", next, stack)
           ELSE IF Lookup(cmd) = NULL THEN pc' = "crash" /\ UNCHANGED <<kernel, stack>>
           ELSE Kill(job_list[Lookup(cmd)].pid, "CONT", next, stack)
    /\ UNCHANGED <<job_list, nextjid, cmd, fpid>>

--------------------------------------------------------------------------
(* The handlers, lines 499-555.  A pending signal is delivered when its    *)
(* own handler is not already running; the handler's frame then runs to   *)
(* its return, unless a further signal is delivered on top of it.         *)

Top == stack[Len(stack)]
HandlerTurn == Running /\ stack # <<>>
Pop == SubSeq(stack, 1, Len(stack) - 1)
SetTop(f) == [stack EXCEPT ![Len(stack)] = f]

deliver(s) ==
    /\ Running /\ s \in pending
    /\ \A i \in 1..Len(stack) : stack[i].sig # s
    /\ stack' = Append(stack, [sig |-> s, at |-> "start", pid |-> 0])
    /\ pending' = pending \ {s}
    /\ UNCHANGED <<job_list, nextjid, proc, doomed, pc, cmd, fpid>>

Reportable == {p \in Pids : proc[p] \in {"zombie", "stop_new"}}

\* waitpid(-1, &status, WNOHANG|WUNTRACED) returns 0: the loop ends
chld_none ==
    /\ HandlerTurn /\ Top.sig = "CHLD" /\ Top.at = "start"
    /\ Reportable = {}
    /\ stack' = Pop
    /\ UNCHANGED <<job_list, nextjid, kernel, pc, cmd, fpid>>

\* waitpid returns some child that died (it is reaped) or stopped
chld_wait ==
    /\ HandlerTurn /\ Top.sig = "CHLD" /\ Top.at = "start"
    /\ \E p \in Reportable :
          /\ proc' = [proc EXCEPT ![p] = IF @ = "zombie" THEN "reaped" ELSE "stop"]
          /\ stack' = SetTop([Top EXCEPT !.at = IF proc[p] = "zombie" THEN "del" ELSE "stop",
                                         !.pid = p])
    /\ UNCHANGED <<job_list, nextjid, doomed, pending, pc, cmd, fpid>>

\* deletejob(job_list, pid), then round the loop again
chld_delete ==
    /\ HandlerTurn /\ Top.sig = "CHLD" /\ Top.at = "del"
    /\ job_list' = deletejob(job_list, nextjid, Top.pid).jl
    /\ nextjid' = deletejob(job_list, nextjid, Top.pid).nj
    /\ stack' = SetTop([Top EXCEPT !.at = "start"])
    /\ UNCHANGED <<kernel, pc, cmd, fpid>>

\* mutant: the stop report returns without marking the job stopped
chld_stop_no_mark ==
    /\ HandlerTurn /\ Top.sig = "CHLD" /\ Top.at = "stop"
    /\ stack' = Pop
    /\ UNCHANGED <<job_list, nextjid, kernel, pc, cmd, fpid>>

\* mutant: the stop report marks the job BG
chld_stop_as_bg ==
    /\ HandlerTurn /\ Top.sig = "CHLD" /\ Top.at = "stop"
    /\ IF getjobpid(job_list, Top.pid) = NULL
       THEN pc' = "crash" /\ UNCHANGED <<job_list, stack>>
       ELSE /\ job_list' = [job_list EXCEPT ![getjobpid(job_list, Top.pid)].state = BG]
            /\ stack' = Pop
            /\ UNCHANGED pc
    /\ UNCHANGED <<nextjid, kernel, cmd, fpid>>

\* getjobpid(job_list,pid)->state = ST; return
chld_stop ==
    /\ HandlerTurn /\ Top.sig = "CHLD" /\ Top.at = "stop"
    /\ IF getjobpid(job_list, Top.pid) = NULL
       THEN pc' = "crash" /\ UNCHANGED <<job_list, stack>>
       ELSE /\ job_list' = [job_list EXCEPT ![getjobpid(job_list, Top.pid)].state = ST]
            /\ stack' = Pop
            /\ UNCHANGED pc
    /\ UNCHANGED <<nextjid, kernel, cmd, fpid>>

\* sigint_handler and sigtstp_handler: fgp = fgpid(job_list) ...
fwd_read ==
    /\ HandlerTurn /\ Top.sig \in {"INT", "TSTP"} /\ Top.at = "start"
    /\ stack' = IF fgpid(job_list) > 0
                THEN SetTop([Top EXCEPT !.at = "kill", !.pid = fgpid(job_list)])
                ELSE Pop
    /\ UNCHANGED <<job_list, nextjid, kernel, pc, cmd, fpid>>

\* ... and, fgp > 0, Kill(-fgp, sig)
fwd_kill ==
    /\ HandlerTurn /\ Top.sig \in {"INT", "TSTP"} /\ Top.at = "kill"
    /\ Kill(Top.pid, Top.sig, pc, Pop)
    /\ UNCHANGED <<job_list, nextjid, cmd, fpid>>

--------------------------------------------------------------------------
(* The environment.                                                        *)

\* the child runs setpgid(0,0) and execs
child_setpgid(p) ==
    /\ Running /\ proc[p] = "forked"
    /\ proc' = [proc EXCEPT ![p] = "run"]
    /\ UNCHANGED <<job_list, nextjid, doomed, pending, pc, cmd, fpid, stack>>

\* the child exits (also before setpgid: a failed Open or Execve)
child_exit(p) ==
    /\ Running /\ proc[p] \in {"forked", "run"}
    /\ proc' = [proc EXCEPT ![p] = "zombie"]
    /\ pending' = pending \cup {"CHLD"}
    /\ UNCHANGED <<job_list, nextjid, doomed, pc, cmd, fpid, stack>>

\* ctrl-c or ctrl-z: the terminal signals the shell's process group
key(k) ==
    /\ Running /\ k \notin pending
    /\ pending' = pending \cup {k}
    /\ UNCHANGED <<job_list, nextjid, proc, doomed, pc, cmd, fpid, stack>>

\* the shell has ended; nothing more happens
halted == ~Running /\ UNCHANGED vars

Main == \/ \E k \in Forks : eval_fork(k)
        \/ waitfg \/ quit
        \/ \E c \in Builtins : builtin_pid(c)
        \/ builtin_state \/ bg_print \/ builtin_cont

Handler == \/ chld_none \/ chld_wait \/ chld_delete \/ chld_stop
           \/ fwd_read \/ fwd_kill

Environment == \/ \E p \in Pids : child_setpgid(p) \/ child_exit(p)
               \/ \E k \in Keys : key(k)

Next == Main \/ Handler \/ (\E s \in {"CHLD", "INT", "TSTP"} : deliver(s))
        \/ Environment \/ halted

Spec == Init /\ [][Next]_vars

\* The shell's own steps are scheduled: the kernel delivers an unblocked
\* pending signal, and a handler or the main loop that is interrupted
\* resumes when the nested handler returns.  A step of the shell that is
\* enabled again and again is therefore taken (strong fairness, since a
\* nested handler disables it meanwhile).  The user and the children get
\* no fairness: they may never type or exit.
ChldHandler == chld_none \/ chld_wait \/ chld_delete \/ chld_stop

FwdHandler(s) == (fwd_read \/ fwd_kill) /\ Top.sig = s

MainResume == waitfg \/ builtin_state \/ bg_print \/ builtin_cont

Fairness ==
    /\ \A s \in {"CHLD", "INT", "TSTP"} : WF_vars(deliver(s))
    /\ SF_vars(ChldHandler)
    /\ \A s \in {"INT", "TSTP"} : SF_vars(FwdHandler(s))
    /\ SF_vars(MainResume)

FairSpec == Spec /\ Fairness

--------------------------------------------------------------------------
(* Properties.                                                             *)

Jobs == {i \in Slots : job_list[i].pid # 0}

\* A slot is either a whole job or wholly clear (clearjob, addjob).
TypeOK ==
    /\ job_list \in [Slots -> [pid : Pids \cup {0}, jid : Nat,
                               state : {UNDEF, FG, BG, ST}]]
    /\ \A i \in Slots : (job_list[i].pid = 0) <=> (job_list[i] = clearjob)
    /\ nextjid \in Nat
    /\ proc \in [Pids -> {"unused", "forked", "run", "stop_new", "stop",
                           "zombie", "reaped"}]
    /\ doomed \subseteq Pids /\ pending \subseteq {"CHLD", "INT", "TSTP"}
    /\ Len(stack) <= 3

\* A job the list calls stopped is stopped in the kernel: sigchld_handler
\* marks ST only on waitpid's stop report, and bg/fg change the state
\* before they send SIGCONT.
StoppedJobsAreStopped ==
    \A i \in Jobs : job_list[i].state = ST => Stopped(job_list[i].pid)

\* Once the handlers have all returned, no reaped child is left in the
\* job list: every waitpid that reaps is followed by its deletejob.
NoReapedJobAtRest ==
    stack = <<>> => \A i \in Jobs : proc[job_list[i].pid] # "reaped"

\* Job ids name jobs: getjobjid returns the first slot with the jid, so
\* two live jobs with one jid make one of them unreachable by %jid.
JidsDistinct ==
    \A i, j \in Jobs : job_list[i].jid = job_list[j].jid => i = j

\* The shell never dereferences a NULL job pointer (fg, bg, sigchld_handler).
NoNullDeref == pc # "crash"

\* csapp's Kill never fails, which would end the shell through unix_error.
NoKillError == pc # "killerr"

\* Every child that dies is reaped while the shell runs (the handler's
\* comment: it "reaps all available zombie children").
ZombiesReaped ==
    \A p \in Pids : proc[p] = "zombie" ~> (proc[p] = "reaped" \/ ~Running)

\* Once no child is running, the foreground wait of eval and of the fg
\* builtin ends: the handler has deleted or stopped the foreground job.
ForegroundReturns ==
    (pc = "waitfg" /\ \A p \in Pids : proc[p] \notin {"forked", "run"})
        ~> (pc # "waitfg")

--------------------------------------------------------------------------
(* Refinement: the job list, read per pid, changes only as the comment on  *)
(* job states (lines 31-38) allows.                                        *)

\* the state of the job of pid p in the list, UNDEF when it has none
StateOfPid(p) ==
    IF \E i \in Slots : job_list[i].pid = p
    THEN job_list[CHOOSE i \in Slots : job_list[i].pid = p].state
    ELSE UNDEF

JOBS == INSTANCE JobStates WITH jobs <- [p \in Pids |-> StateOfPid(p)]

\* Every step of the shell, handlers included, moves a job only along the
\* transitions FG -> ST, ST -> FG, ST -> BG, BG -> FG, creates or ends a
\* job, and never makes a second job FG.
JobStatesRefined == JOBS!Spec

====

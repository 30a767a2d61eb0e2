------------------------------- MODULE ExecRun -------------------------------
(***************************************************************************)
(* Running a script for the model: runInGroup (pkg/agentloop/execrun.go),  *)
(* the reading of its result by local__bash (exec.go runScript) and        *)
(* local__wait (wait.go waitForCommand), and the ExecRegistry              *)
(* (execregistry.go), the directory of files in which every shell on the   *)
(* machine announces what it runs and from which a second terminal lists   *)
(* and kills.                                                              *)
(*                                                                         *)
(* Shells, the scripts they start, the file system calls and the second    *)
(* terminal interleave freely.  What a script prints is left out, and so   *)
(* is the time of day: a deadline may pass at any moment.  A script is     *)
(* signalled by its own deadline or by exec kill, by nobody else.          *)
(***************************************************************************)
EXTENDS Integers, FiniteSets

CONSTANTS Shell,    \* the shells, by ShellPID
          Pid,      \* what child process ids range over; they are reused
          NoPid,    \* no child
          MaxRuns   \* bound: scripts started

ASSUME ExecAssumption ==
  NoPid \notin Pid /\ MaxRuns \in Nat /\ Shell \cap {"absent", "empty"} = {}

VARIABLES
  up,          \* which shells are alive
  pc,          \* where the tool call of each shell is
  pid,         \* the child it started
  registered,  \* whether record returned a cleanup that removes the file
  overdue,     \* ctx.Err() is DeadlineExceeded
  status,      \* what cmd.Wait returned
  proc,        \* what each child process is doing
  files,       \* the registry directory: what <pid>.json holds
  terminal,    \* where the second terminal is
  target,      \* the pid it was asked to kill, NoPid to list only
  todo,        \* List: files still to be read
  doomed,      \* List: the file it has decided to remove
  listed,      \* List: the entries found
  killed,      \* history: exec kill hit the current child of the shell
  last,        \* history: the last report, with what it was about
  runs         \* history: scripts started

shellVars == <<up, pc, pid, registered, overdue, status>>
termVars == <<terminal, target, todo, doomed, listed>>
vars == <<shellVars, proc, files, termVars, killed, last, runs>>

(* How a child ended: "piped" is an exit 0 that left a descendant behind which *)
(* still holds the output pipes.                                              *)
Ended == {"exit0", "piped", "exitN", "signalled"}

Init ==
  /\ up = [s \in Shell |-> TRUE]
  /\ pc = [s \in Shell |-> "idle"]
  /\ pid = [s \in Shell |-> NoPid] /\ registered = [s \in Shell |-> FALSE]
  /\ overdue = [s \in Shell |-> FALSE] /\ status = [s \in Shell |-> "none"]
  /\ proc = [p \in Pid |-> "none"]
  /\ files = [p \in Pid |-> "absent"]
  /\ terminal = "idle" /\ target = NoPid /\ todo = {} /\ doomed = NoPid /\ listed = {}
  /\ killed = [s \in Shell |-> FALSE] /\ runs = 0
  /\ last = [said |-> "nothing", killed |-> FALSE]

(* The child of this shell is p, and is still to be waited for. *)
Awaits(s, p) == up[s] /\ pc[s] \in {"creating", "writing", "waiting"} /\ pid[s] = p

-----------------------------------------------------------------------------
(* runInGroup *)

Start(s, p) ==
  /\ up[s] /\ pc[s] = "idle" /\ proc[p] = "none" /\ runs < MaxRuns
  /\ pc' = [pc EXCEPT ![s] = "creating"]
  /\ pid' = [pid EXCEPT ![s] = p]
  /\ proc' = [proc EXCEPT ![p] = "running"]
  /\ runs' = runs + 1
  /\ UNCHANGED <<up, registered, overdue, status, files, termVars, killed, last>>

(* record: os.WriteFile creates or truncates the file, then writes it. *)
CreateFile(s) ==
  /\ up[s] /\ pc[s] = "creating"
  /\ files' = [files EXCEPT ![pid[s]] = "empty"]
  /\ pc' = [pc EXCEPT ![s] = "writing"]
  /\ UNCHANGED <<up, pid, registered, overdue, status, proc, termVars, killed, last, runs>>

(* The write goes to the file that was opened: one that was removed since     *)
(* stays removed.                                                             *)
WriteFile(s) ==
  /\ up[s] /\ pc[s] = "writing"
  /\ files' = IF files[pid[s]] = "empty" THEN [files EXCEPT ![pid[s]] = s] ELSE files
  /\ registered' = [registered EXCEPT ![s] = TRUE]
  /\ pc' = [pc EXCEPT ![s] = "waiting"]
  /\ UNCHANGED <<up, pid, overdue, status, proc, termVars, killed, last, runs>>

(* No registry, or its directory cannot be written: the run goes on unlisted. *)
RecordFails(s) ==
  /\ up[s] /\ pc[s] \in {"creating", "writing"}
  /\ pc' = [pc EXCEPT ![s] = "waiting"]
  /\ UNCHANGED <<up, pid, registered, overdue, status, proc, files, termVars, killed, last, runs>>

(* cmd.Wait: pipes that a descendant holds are forced shut after WaitDelay,   *)
(* which is an error where the exit itself was none.                          *)
WaitReturns(s) ==
  /\ up[s] /\ pc[s] = "waiting" /\ proc[pid[s]] \in Ended
  /\ status' = [status EXCEPT ![s] = IF proc[pid[s]] = "piped" THEN "waitDelay" ELSE proc[pid[s]]]
  /\ proc' = [proc EXCEPT ![pid[s]] = "none"]
  /\ pc' = [pc EXCEPT ![s] = "cleanup"]
  /\ UNCHANGED <<up, pid, registered, overdue, files, termVars, killed, last, runs>>

(* Mutant of Cleanup: it is skipped for a script that was killed. *)
CleanupAfterExit(s) ==
  /\ up[s] /\ pc[s] = "cleanup"
  /\ files' = IF registered[s] /\ status[s] # "signalled" THEN [files EXCEPT ![pid[s]] = "absent"] ELSE files
  /\ pc' = [pc EXCEPT ![s] = "reading"]
  /\ UNCHANGED <<up, pid, registered, overdue, status, proc, termVars, killed, last, runs>>

(* The deferred cleanup removes the path, whoever wrote it. *)
Cleanup(s) ==
  /\ up[s] /\ pc[s] = "cleanup"
  /\ files' = IF registered[s] THEN [files EXCEPT ![pid[s]] = "absent"] ELSE files
  /\ pc' = [pc EXCEPT ![s] = "reading"]
  /\ UNCHANGED <<up, pid, registered, overdue, status, proc, termVars, killed, last, runs>>

(* Mutant of Outcome: the signal is looked at before the deadline. *)
SignalFirst(t, late, err) ==
  IF err = "signalled" THEN "killed"
  ELSE IF late THEN (IF t = "bash" THEN "timeout" ELSE "gaveUp")
  ELSE IF err = "exit0" THEN "passed"
  ELSE IF t = "bash" THEN "failed" ELSE "gaveUp"

(* How runScript and waitForCommand read the end of the run: the deadline     *)
(* first, then the signal, then the error.                                    *)
Outcome(t, late, err) ==
  IF late THEN (IF t = "bash" THEN "timeout" ELSE "gaveUp")
  ELSE IF err = "signalled" THEN "killed"
  ELSE IF err = "exit0" THEN "passed"
  ELSE IF t = "bash" THEN "failed" ELSE "gaveUp"

(* The shell's next call, or its death, starts from fresh locals. *)
Forget(s) ==
  /\ pc' = [pc EXCEPT ![s] = "idle"]
  /\ pid' = [pid EXCEPT ![s] = NoPid]
  /\ registered' = [registered EXCEPT ![s] = FALSE]
  /\ overdue' = [overdue EXCEPT ![s] = FALSE]
  /\ status' = [status EXCEPT ![s] = "none"]
  /\ killed' = [killed EXCEPT ![s] = FALSE]

(* Which of the two tools it was matters only here. *)
Report(s, t) ==
  /\ up[s] /\ pc[s] = "reading"
  /\ last' = [said |-> Outcome(t, overdue[s], status[s]), killed |-> killed[s]]
  /\ Forget(s)
  /\ UNCHANGED <<up, proc, files, termVars, runs>>

-----------------------------------------------------------------------------
(* The deadline, the scripts and the machine *)

DeadlinePasses(s) ==
  /\ up[s] /\ pc[s] # "idle" /\ ~overdue[s]
  /\ overdue' = [overdue EXCEPT ![s] = TRUE]
  /\ UNCHANGED <<up, pc, pid, registered, status, proc, files, termVars, killed, last, runs>>

(* A child ends; one whose shell is gone is reaped by init. *)
Ends(p, how) ==
  proc' = [proc EXCEPT ![p] = IF \E s \in Shell : Awaits(s, p) THEN how ELSE "none"]

(* Mutant of KillGroup: nothing is killed when the deadline passes. *)
NoKill(s) == FALSE /\ UNCHANGED vars

(* cmd.Cancel: SIGKILL to the group once the context is done. *)
KillGroup(s) ==
  /\ overdue[s] /\ \E p \in Pid : Awaits(s, p) /\ proc[p] = "running" /\ Ends(p, "signalled")
  /\ UNCHANGED <<shellVars, files, termVars, killed, last, runs>>

(* The script ends by itself. *)
ScriptEnds(p, how) ==
  /\ proc[p] = "running" /\ how \in Ended \ {"signalled"}
  /\ Ends(p, how)
  /\ UNCHANGED <<shellVars, files, termVars, killed, last, runs>>

(* A shell is killed: no deferred cleanup runs, and its script lives on. *)
ShellDies(s) ==
  /\ up[s]
  /\ up' = [up EXCEPT ![s] = FALSE]
  /\ Forget(s)
  /\ proc' = [p \in Pid |-> IF Awaits(s, p) /\ proc[p] \in Ended THEN "none" ELSE proc[p]]
  /\ UNCHANGED <<files, termVars, last, runs>>

-----------------------------------------------------------------------------
(* The second terminal: List, and Kill, which lists first *)

ReadDir(p) ==
  /\ terminal = "idle"
  /\ terminal' = "listing"
  /\ target' = p
  /\ todo' = {q \in Pid : files[q] # "absent"}
  /\ listed' = {}
  /\ UNCHANGED <<shellVars, proc, files, doomed, killed, last, runs>>

(* Mutant of Stale: whose shell it was is not looked at. *)
Corrupt(entry) == entry = "empty"

(* An entry List drops: one it cannot parse, or whose shell is gone. *)
Stale(entry) == entry = "empty" \/ (entry \in Shell /\ ~up[entry])

ReadEntry(p) ==
  /\ terminal = "listing" /\ p \in todo
  /\ todo' = todo \ {p}
  /\ IF Stale(files[p])
       THEN terminal' = "removing" /\ doomed' = p /\ UNCHANGED listed
       ELSE /\ listed' = IF files[p] \in Shell THEN listed \cup {p} ELSE listed
            /\ UNCHANGED <<terminal, doomed>>
  /\ UNCHANGED <<shellVars, proc, files, target, killed, last, runs>>

RemoveEntry ==
  /\ terminal = "removing"
  /\ files' = [files EXCEPT ![doomed] = "absent"]
  /\ terminal' = "listing" /\ doomed' = NoPid
  /\ UNCHANGED <<shellVars, proc, target, todo, listed, killed, last, runs>>

(* A list, or a pid that was not listed and is refused. *)
ListEnds ==
  /\ terminal = "listing" /\ todo = {}
  /\ target \notin listed
  /\ terminal' = "idle" /\ target' = NoPid /\ listed' = {}
  /\ UNCHANGED <<shellVars, proc, files, todo, doomed, killed, last, runs>>

(* Kill: the group of a listed pid is signalled; it may be gone by now. *)
Kill ==
  /\ terminal = "listing" /\ todo = {}
  /\ target \in listed
  /\ terminal' = "idle" /\ target' = NoPid /\ listed' = {}
  /\ IF proc[target] = "running"
       THEN /\ Ends(target, "signalled")
            /\ killed' = [s \in Shell |-> killed[s] \/ Awaits(s, target)]
       ELSE UNCHANGED <<proc, killed>>
  /\ UNCHANGED <<shellVars, files, todo, doomed, last, runs>>

-----------------------------------------------------------------------------

ShellStep(s) ==
  \/ CreateFile(s) \/ WriteFile(s) \/ RecordFails(s)
  \/ WaitReturns(s) \/ Cleanup(s) \/ \E t \in {"bash", "wait"} : Report(s, t)
  \/ DeadlinePasses(s) \/ KillGroup(s)

Listing == ReadDir(NoPid) \/ (\E p \in Pid : ReadEntry(p)) \/ RemoveEntry \/ ListEnds \/ Kill

Next ==
  \/ \E s \in Shell : ShellStep(s) \/ ShellDies(s)
  \/ \E s \in Shell, p \in Pid : Start(s, p)
  \/ \E p \in Pid, how \in Ended : ScriptEnds(p, how)
  \/ \E p \in Pid : ReadDir(p)
  \/ Listing

Spec == Init /\ [][Next]_vars

(* A shell that lives runs on and its clock with it; somebody keeps listing. *)
FairSpec == Spec /\ (\A s \in Shell : WF_vars(ShellStep(s))) /\ WF_vars(Listing)

-----------------------------------------------------------------------------
(* Properties *)

(* The model is told that a person stopped its script only when one did:     *)
(* neither tool's own deadline, which also kills by signal, is reported so   *)
(* (wait.go: "OUR OWN DEADLINE FIRST").                                      *)
KilledByAPerson == last.said = "killed" => last.killed

(* What a living shell has announced is what it is running: no entry         *)
(* outlives its run, whether that ended, was killed or timed out, however    *)
(* pids are reused and whoever else writes to or reaps the directory.        *)
EntriesAreLive ==
  \A s \in Shell, p \in Pid :
    files[p] = s /\ up[s] => pid[s] = p /\ pc[s] \in {"waiting", "cleanup"}

(* A tool call returns, however the script behaves (exec.go: the timeout is  *)
(* there "to stop a truly hung command hanging the run forever").            *)
CallReturns == \A s \in Shell : pc[s] # "idle" ~> pc[s] = "idle"

(* An entry whose shell is gone is reaped once somebody lists.               *)
StaleIsReaped ==
  \A s \in Shell, p \in Pid : files[p] = s /\ ~up[s] ~> files[p] # s

(* A run whose entry was written stays listed while it lasts                 *)
(* (execregistry.go: "the entry exists for exactly the life of the run").    *)
RunIsListed ==
  \A s \in Shell : up[s] /\ pc[s] = "waiting" /\ registered[s] => files[pid[s]] = s

=============================================================================

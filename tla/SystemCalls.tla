----------------------------- MODULE SystemCalls ----------------------------
(***************************************************************************)
(* examples/systemcalls/systemcalls.c: do_system, do_exec and              *)
(* do_exec_redirect, called by a program whose stdout is buffered.  Call n *)
(* is the n-th call of the program; it has at most one child process, and, *)
(* if it redirects, an output file of its own.                             *)
(*                                                                         *)
(* External: the program, which prints lines and has a signal handler that *)
(* may interrupt waitpid; fork, fopen and execv, which may fail; system,   *)
(* whose child inherits no stdio buffer and whose wait is not interrupted; *)
(* and the commands that are executed, which print one line at most, and   *)
(* exit, are killed or run for ever.                                       *)
(***************************************************************************)
EXTENDS Naturals, Sequences, FiniteSets

CONSTANTS
  MaxCalls,   \* bound on the calls
  MaxLines    \* bound on the lines that the program prints

Calls == 1..MaxCalls
Lines == 1..MaxLines

\* The line that the command of a call prints.
OUTPUT == 0

VARIABLES
  calls,      \* calls so far; the last one may still wait
  waiting,    \* whether it does
  printed,    \* lines that the program has printed
  buffer,     \* those that are still in the program's stdout buffer
  terminal,   \* what has been written to the program's standard output
  file,       \* the output file of each call
  child,      \* the child process of each call
  reaped,     \* calls whose waitpid has taken the child's status
  result,     \* what each call has returned
  interrupted \* history: calls whose waitpid was interrupted

vars == <<calls, waiting, printed, buffer, terminal, file, child, reaped, result,
          interrupted>>

\* A process: what it does or how it ended, where its standard output goes,
\* and the stdio buffer that it has inherited.
NoChild == [kind |-> "none", state |-> "none", stdout |-> "terminal", buffer |-> <<>>]

Init ==
  /\ calls = 0
  /\ waiting = FALSE
  /\ printed = 0
  /\ buffer = <<>>
  /\ terminal = <<>>
  /\ file = [n \in Calls |-> <<>>]
  /\ child = [n \in Calls |-> NoChild]
  /\ reaped = {}
  /\ result = [n \in Calls |-> FALSE]
  /\ interrupted = {}

-----------------------------------------------------------------------------
(* The calls, up to the fork.                                              *)

\* The child starts as a copy of the program, its buffered lines included.
Fork(n, kind) ==
  /\ ~waiting /\ n = calls + 1
  /\ calls' = n
  /\ waiting' = TRUE
  /\ child' = [child EXCEPT ![n] =
       [kind |-> kind, state |-> "start", stdout |-> "terminal",
        buffer |-> IF kind = "system" THEN <<>> ELSE buffer]]
  /\ UNCHANGED <<printed, buffer, terminal, file, reaped, result, interrupted>>

\* Fault: child_pid <= 0 is taken for the child, so that the program itself
\* becomes the command and its buffer is gone.
ForkFailsExecutes(n) ==
  /\ ~waiting /\ n = calls + 1
  /\ calls' = n
  /\ buffer' = <<>>
  /\ UNCHANGED <<waiting, printed, terminal, file, child, reaped, result, interrupted>>

\* There is no child: the call returns false.
ForkFails(n) ==
  /\ ~waiting /\ n = calls + 1
  /\ calls' = n
  /\ result' = [result EXCEPT ![n] = FALSE]
  /\ UNCHANGED <<waiting, printed, buffer, terminal, file, child, reaped, interrupted>>

-----------------------------------------------------------------------------
(* The child.                                                              *)

\* The process writes lines to its standard output.
WriteOut(n, lines) ==
  IF child[n].stdout = "terminal"
  THEN terminal' = terminal \o lines /\ UNCHANGED file
  ELSE file' = [file EXCEPT ![n] = @ \o lines] /\ UNCHANGED terminal

Becomes(n, state) == child' = [child EXCEPT ![n].state = state]

\* fopen(outputfile, "w"), dup2 and fclose.
Redirect(n) ==
  /\ child[n].kind = "redirect" /\ child[n].state = "start"
  /\ file' = [file EXCEPT ![n] = <<>>]
  /\ child' = [child EXCEPT ![n].state = "redirected", ![n].stdout = "file"]
  /\ UNCHANGED <<calls, waiting, printed, buffer, terminal, reaped, result, interrupted>>

\* Fault: the failure is reported and the command executed all the same.
OpenFailsGoesOn(n) ==
  /\ child[n].kind = "redirect" /\ child[n].state = "start"
  /\ Becomes(n, "redirected")
  /\ UNCHANGED <<calls, waiting, printed, buffer, terminal, file, reaped, result, interrupted>>

\* fopen fails: exit(EXIT_FAILURE), which flushes the inherited buffer.
OpenFails(n) ==
  /\ child[n].kind = "redirect" /\ child[n].state = "start"
  /\ WriteOut(n, child[n].buffer)
  /\ Becomes(n, "failed")
  /\ UNCHANGED <<calls, waiting, printed, buffer, reaped, result, interrupted>>

ReadyToExec(n) ==
  child[n].state = (IF child[n].kind = "redirect" THEN "redirected" ELSE "start")

\* execv replaces the copy of the program, and with it the buffer.
Exec(n) ==
  /\ ReadyToExec(n)
  /\ Becomes(n, "running")
  /\ UNCHANGED <<calls, waiting, printed, buffer, terminal, file, reaped, result, interrupted>>

\* Fault: without exit the child returns from the call and goes on as a
\* second copy of the program.
ExecFailsReturns(n) ==
  /\ ReadyToExec(n)
  /\ Becomes(n, "copy")
  /\ UNCHANGED <<calls, waiting, printed, buffer, terminal, file, reaped, result, interrupted>>

\* execv fails: exit(EXIT_FAILURE), which flushes the inherited buffer.
ExecFails(n) ==
  /\ ReadyToExec(n)
  /\ WriteOut(n, child[n].buffer)
  /\ Becomes(n, "failed")
  /\ UNCHANGED <<calls, waiting, printed, buffer, reaped, result, interrupted>>

\* External: the command writes its line and ends, or ends without it.
Ends == {"exit zero", "exit nonzero", "killed"}

Command(n) ==
  /\ child[n].state = "running"
  /\ WriteOut(n, <<OUTPUT>>) \/ UNCHANGED <<terminal, file>>
  /\ \E end \in Ends : Becomes(n, end)
  /\ UNCHANGED <<calls, waiting, printed, buffer, reaped, result, interrupted>>

-----------------------------------------------------------------------------
(* The calls, after the fork.                                              *)

HasEnded(n) == child[n].state \in Ends \cup {"failed"}

\* Fault: WIFEXITED is not asked, and the exit status of a process that was
\* killed reads as 0.
SucceededByStatus(n) == child[n].state \in {"exit zero", "killed"}

\* WIFEXITED(status) && (WEXITSTATUS(status) == 0), or system(cmd) == 0.
Succeeded(n) == child[n].state = "exit zero"

\* waitpid delivers the status, and the child is gone.
Wait(n) ==
  /\ waiting /\ n = calls
  /\ HasEnded(n)
  /\ reaped' = reaped \cup {n}
  /\ result' = [result EXCEPT ![n] = Succeeded(n)]
  /\ waiting' = FALSE
  /\ UNCHANGED <<calls, printed, buffer, terminal, file, child, interrupted>>

\* waitpid returns -1 because of a signal, which nobody looks at: status is
\* uninitialised, and the child is left alone.
WaitInterrupted(n) ==
  /\ waiting /\ n = calls
  /\ interrupted' = interrupted \cup {n}
  /\ \E success \in BOOLEAN : result' = [result EXCEPT ![n] = success]
  /\ waiting' = FALSE
  /\ UNCHANGED <<calls, printed, buffer, terminal, file, child, reaped>>

-----------------------------------------------------------------------------
(* External: the program's own output.                                     *)

PrintLine ==
  /\ ~waiting /\ printed < MaxLines
  /\ printed' = printed + 1
  /\ buffer' = Append(buffer, printed + 1)
  /\ UNCHANGED <<calls, waiting, terminal, file, child, reaped, result, interrupted>>

Flush ==
  /\ ~waiting /\ buffer # <<>>
  /\ terminal' = terminal \o buffer
  /\ buffer' = <<>>
  /\ UNCHANGED <<calls, waiting, printed, file, child, reaped, result, interrupted>>

-----------------------------------------------------------------------------
(* Each call with all of its steps.                                        *)

Of(n, kind) == child[n].kind = kind

do_system(n) ==
  \/ Fork(n, "system") \/ ForkFails(n)
  \/ Of(n, "system") /\ (Exec(n) \/ ExecFails(n) \/ Wait(n))

do_exec(n) ==
  \/ Fork(n, "exec") \/ ForkFails(n)
  \/ Of(n, "exec") /\ (Exec(n) \/ ExecFails(n) \/ Wait(n) \/ WaitInterrupted(n))

do_exec_redirect(n) ==
  \/ Fork(n, "redirect") \/ ForkFails(n)
  \/ /\ Of(n, "redirect")
     /\ \/ Redirect(n) \/ OpenFails(n) \/ Exec(n) \/ ExecFails(n)
        \/ Wait(n) \/ WaitInterrupted(n)

Next ==
  \/ \E n \in Calls :
       do_system(n) \/ do_exec(n) \/ do_exec_redirect(n) \/ Command(n)
  \/ PrintLine \/ Flush

Spec == Init /\ [][Next]_vars

(***************************************************************************)
(* Both processes run.  A command that is executed owes nothing.           *)
(***************************************************************************)
Fairness ==
  \A n \in Calls :
    /\ WF_vars(Redirect(n) \/ OpenFails(n) \/ Exec(n) \/ ExecFails(n))
    /\ WF_vars(Wait(n))

FairSpec == Spec /\ Fairness

-----------------------------------------------------------------------------
(* Properties.                                                             *)

Returned(n) == n < calls \/ (n = calls /\ ~waiting)

\* Copies of a line in a sequence of lines.
Copies(line, lines) == Cardinality({i \in DOMAIN lines : lines[i] = line})

(***************************************************************************)
(* A call that returns is over: its process has ended and left no zombie,  *)
(* and it returns true exactly if the command was executed and exited with *)
(* 0.  The one exception is a call whose waitpid a signal interrupts.      *)
(***************************************************************************)
ReturnsWhenOver ==
  \A n \in Calls : Returned(n) /\ n \notin interrupted =>
    /\ child[n].kind # "none" => HasEnded(n) /\ n \in reaped
    /\ result[n] <=> child[n].state = "exit zero"

(***************************************************************************)
(* No line that the program prints is lost, and fork doubles none, except  *)
(* for the lines that are in the buffer when a child is forked that cannot *)
(* open its file or execute its command: exit writes them once more, to    *)
(* wherever the standard output of that child then goes.                   *)
(***************************************************************************)
LinesOnce ==
  \A line \in 1..printed :
    LET doubled == {n \in Calls : /\ child[n].state = "failed"
                                  /\ Copies(line, child[n].buffer) = 1}
    IN  /\ Copies(line, terminal) + Copies(line, buffer)
             = 1 + Cardinality({n \in doubled : child[n].stdout = "terminal"})
        /\ \A n \in Calls : Copies(line, file[n]) =
             (IF n \in doubled /\ child[n].stdout = "file" THEN 1 ELSE 0)

(***************************************************************************)
(* What a redirected command prints goes to its file and nowhere else, and *)
(* only its file: the terminal has the output of other commands alone.     *)
(***************************************************************************)
OutputGoesToFile ==
  /\ \A n \in Calls : file[n] # <<>> => child[n].kind = "redirect"
  /\ Copies(OUTPUT, terminal) <=
       Cardinality({n \in Calls : child[n].kind \in {"system", "exec"}
                                  /\ child[n].state \in Ends})

(***************************************************************************)
(* A call returns, or its command is executed: a child that fails to start *)
(* does not leave its parent waiting.                                      *)
(***************************************************************************)
CallsReturn ==
  \A n \in Calls :
    calls = n /\ waiting ~> Returned(n) \/ child[n].state = "running"
=============================================================================

------------------------------ MODULE FinderApp -----------------------------
(***************************************************************************)
(* finder-app: finder-test.sh writes NUMFILES files with the program       *)
(* writer, counts files and matching lines with finder.sh and says whether *)
(* it finds the expected counts in what finder.sh has printed.             *)
(*                                                                         *)
(* A file is absent or holds WRITESTR: as a line, bare of its newline, or  *)
(* cut before the end of the string.  finder.sh takes WRITESTR for a       *)
(* regular expression; a member of Strings says how many lines grep finds  *)
(* with it in a file of each kind, in one that is cut at most.             *)
(*                                                                         *)
(* External: the disk, which may refuse a directory, a file, the removal   *)
(* of one, a write (the string is longer than the stdio buffer) or the     *)
(* flush in fclose.  What is on it can be read.                            *)
(***************************************************************************)
EXTENDS Naturals, FiniteSets

CONSTANTS
  MaxFiles,   \* bound on NUMFILES
  Strings     \* what WRITESTR may be: records with the fields line, bare, cut

VARIABLES
  NUMFILES,
  WRITESTR,
  step,        \* where finder-test.sh is
  next,        \* the file that writer is to write
  dir,         \* whether WRITEDIR exists
  file,        \* what is in it
  counts,      \* what finder.sh prints: files and matching lines
  result_txt,  \* /tmp/assignment4-result.txt: "old", "cut" or "written"
  verdict,     \* what finder-test.sh says, or "stopped" if set -e ended it
  faults       \* history: calls that failed

vars == <<NUMFILES, WRITESTR, step, next, dir, file, counts, result_txt, verdict, faults>>

Files == 1..MaxFiles

Contents == {"absent", "cut", "bare", "line"}

\* One line without a special character, like the default AELD_IS_FUN.
Plain == [line |-> 1, bare |-> 1, cut |-> 0]

Init ==
  /\ NUMFILES \in 0..MaxFiles
  /\ WRITESTR \in Strings
  /\ step = "prepare"
  /\ next = 1
  /\ dir \in BOOLEAN
  /\ file \in [Files -> IF dir THEN Contents ELSE {"absent"}]
  /\ counts = [files |-> 0, lines |-> 0]
  /\ result_txt = "old"
  /\ verdict = "none"
  /\ faults = {}

Stop(call) ==
  /\ step' = "end"
  /\ verdict' = "stopped"
  /\ faults' = faults \cup {call}
  /\ UNCHANGED <<NUMFILES, WRITESTR, next, counts, result_txt>>

\* rm -rf.
Removed ==
  /\ file' = [f \in Files |-> "absent"]
  /\ dir' = FALSE

\* rm -rf fails somewhere on its way, or has not been reached.
RemovedInPart ==
  /\ \E kept \in SUBSET Files :
       file' = [f \in Files |-> IF f \in kept THEN file[f] ELSE "absent"]
  /\ UNCHANGED dir

\* rm -rf; and mkdir -p, except for assignment1.
Prepare ==
  /\ step = "prepare"
  /\ file' = [f \in Files |-> "absent"]
  /\ dir' \in BOOLEAN
  /\ step' = "write"
  /\ UNCHANGED <<NUMFILES, WRITESTR, next, counts, result_txt, verdict, faults>>

\* One of the cats, the rm or the mkdir fails.
PrepareFails ==
  /\ step = "prepare"
  /\ Removed \/ RemovedInPart
  /\ Stop("prepare")

-----------------------------------------------------------------------------
(* writer.c.                                                               *)

Writing == step = "write" /\ next <= NUMFILES

\* The line reaches the disk when fclose flushes it.
Write ==
  /\ Writing /\ dir
  /\ file' = [file EXCEPT ![next] = "line"]
  /\ next' = next + 1
  /\ UNCHANGED <<NUMFILES, WRITESTR, step, dir, counts, result_txt, verdict, faults>>

\* The flush fails, and writer, which does not look at fclose, returns 0.
WriteLost ==
  /\ Writing /\ dir
  /\ \E left \in {"cut", "bare"} :
       /\ file' = [file EXCEPT ![next] = left]
       /\ faults' = faults \cup {IF left = "cut" THEN "string" ELSE "newline"}
  /\ next' = next + 1
  /\ UNCHANGED <<NUMFILES, WRITESTR, step, dir, counts, result_txt, verdict>>

\* fopen or fprintf fails: writer returns 1, and set -e ends the script.
WriteFails ==
  /\ Writing
  /\ \/ Stop("fopen") /\ UNCHANGED file
     \/ /\ dir
        /\ file' = [file EXCEPT ![next] = "cut"]
        /\ Stop("fprintf")
  /\ UNCHANGED dir

-----------------------------------------------------------------------------
(* finder.sh, and the end of finder-test.sh.                               *)

With(contents) == Cardinality({f \in Files : file[f] \in contents})

Find ==
  /\ step = "write" /\ next > NUMFILES
  /\ \E found \in 0..With({"cut"}) * WRITESTR.cut :
       counts' = [files |-> With({"cut", "bare", "line"}),
                  lines |-> With({"line"}) * WRITESTR.line
                              + With({"bare"}) * WRITESTR.bare + found]
  /\ step' = "compare"
  /\ UNCHANGED <<NUMFILES, WRITESTR, next, dir, file, result_txt, verdict, faults>>

\* finder.sh cannot be run.
FindFails ==
  /\ step = "write" /\ next > NUMFILES
  /\ Stop("finder.sh")
  /\ UNCHANGED <<dir, file>>

\* Bound: a number of lines has at most three digits more than NUMFILES.
Tens == {10, 100, 1000}

\* Fault: only the number of files is compared.
MatchesFiles == counts.files = NUMFILES

\* grep "${MATCHSTR}": the expected text ends with NUMFILES, the number of
\* lines need only begin with it.
Matches ==
  /\ counts.files = NUMFILES
  /\ \/ counts.lines = NUMFILES
     \/ NUMFILES > 0 /\ \E p \in Tens : counts.lines \div p = NUMFILES

\* rm -rf /tmp/aeld-data; after set +e the verdict, which a failing write of
\* the result file does not change.
Compare ==
  /\ step = "compare"
  /\ Removed
  /\ \/ result_txt' = "written" /\ UNCHANGED faults
     \/ result_txt' \in {"old", "cut"} /\ faults' = faults \cup {"result"}
  /\ verdict' = IF Matches THEN "Success" ELSE "Failed"
  /\ step' = "end"
  /\ UNCHANGED <<NUMFILES, WRITESTR, next, counts>>

\* The rm fails while set -e still holds.
CleanupFails ==
  /\ step = "compare"
  /\ RemovedInPart
  /\ Stop("rm")

Next ==
  \/ Prepare \/ PrepareFails
  \/ Write \/ WriteLost \/ WriteFails
  \/ Find \/ FindFails \/ Compare \/ CleanupFails

Spec == Init /\ [][Next]_vars

(***************************************************************************)
(* With a plain WRITESTR the test says Success exactly if nothing has      *)
(* failed: a string that writer lost without noticing shows in finder.sh's *)
(* count, that of the files is no help, and what an earlier run has left   *)
(* makes no difference.  Two failures stay without effect: a flush that    *)
(* has lost a newline alone, and the write of the result file.             *)
(***************************************************************************)
VerdictExact ==
  step = "end" /\ WRITESTR = Plain =>
    (verdict = "Success" <=> faults \subseteq {"newline", "result"})
=============================================================================

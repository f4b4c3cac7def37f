------------------------------ MODULE ReportFile -------------------------------
(***************************************************************************)
(* The report file of `recalc verify` (xl-bench, verify_cli.rs:            *)
(* write_atomic and the end of run_v1).  Runs of the program write to one  *)
(* report path: each creates a temporary file named after its process id,  *)
(* writes it, flushes it to the disk and renames it over the report.  Any  *)
(* call may fail, a process may be killed between two of them, and the     *)
(* machine may lose power.                                                 *)
(*                                                                         *)
(* A file is what a reader would find: whose report, whether all of it is  *)
(* there, and whether its bytes have reached the disk.  The file system is *)
(* external: a rename replaces its target at once for every reader, but    *)
(* until the directory is flushed a power loss may bring back the file     *)
(* that was there before; bytes not flushed may be missing after it.       *)
(***************************************************************************)
CONSTANTS
  Run,      \* invocations with a --json path, all naming the same report
  Pid,      \* process ids, reused once a process is gone
  NoPid, NoFile

ASSUME NoPidAssumption == NoPid \notin Pid

File == [of : Run, whole : BOOLEAN, flushed : BOOLEAN]

ASSUME NoFileAssumption == NoFile \notin File

VARIABLES
  call,        \* [Run -> the next call of the run]
  pid,       \* [Run -> its process id]
  result,    \* [Run -> how it ended]
  tmp,       \* [Pid -> the temporary file of that name]
  target,    \* the report file
  kept,      \* the report files a power loss may leave
  published  \* history: the runs whose report was ever in place

reportVars == <<call, pid, result, tmp, target, kept, published>>

Active(r) == call[r] \in {"create", "write", "flush", "rename", "exit"}

ReportInit ==
  /\ call = [r \in Run |-> "idle"]
  /\ pid = [r \in Run |-> NoPid]
  /\ result = [r \in Run |-> "none"]
  /\ tmp = [p \in Pid |-> NoFile]
  /\ target = NoFile
  /\ kept = {NoFile}
  /\ published = {}

\* The run has a decision and a report to write.
Begin(r, p) ==
  /\ call[r] = "idle"
  /\ \A q \in Run : Active(q) => pid[q] # p
  /\ call' = [call EXCEPT ![r] = "create"]
  /\ pid' = [pid EXCEPT ![r] = p]
  /\ UNCHANGED <<result, tmp, target, kept, published>>

\* Fault: one name for every process.
TmpName_Shared(r) == CHOOSE p \in Pid : TRUE

\* The temporary file: the report's name with the process id appended.
TmpName(r) == pid[r]

\* A failed call: exit code 64, whatever the temporary file has become.
Fails(r) ==
  /\ call' = [call EXCEPT ![r] = "done"]
  /\ result' = [result EXCEPT ![r] = "usage"]
  /\ UNCHANGED <<pid, target, kept, published>>

\* File::create truncates a file that a killed process of this id has left.
Create(r) ==
  /\ call[r] = "create"
  /\ \/ /\ tmp' = [tmp EXCEPT ![TmpName(r)] =
                     [of |-> r, whole |-> FALSE, flushed |-> FALSE]]
        /\ call' = [call EXCEPT ![r] = "write"]
        /\ UNCHANGED <<pid, result, target, kept, published>>
     \/ Fails(r) /\ UNCHANGED tmp

\* write_all may stop half-way.
Write(r) ==
  /\ call[r] = "write"
  /\ \/ /\ tmp' = [tmp EXCEPT ![TmpName(r)].whole = TRUE]
        /\ call' = [call EXCEPT ![r] = "flush"]
        /\ UNCHANGED <<pid, result, target, kept, published>>
     \/ Fails(r) /\ UNCHANGED tmp

\* sync_all
Flush(r) ==
  /\ call[r] = "flush"
  /\ \/ /\ tmp' = [tmp EXCEPT ![TmpName(r)].flushed = TRUE]
        /\ call' = [call EXCEPT ![r] = "rename"]
        /\ UNCHANGED <<pid, result, target, kept, published>>
     \/ Fails(r) /\ UNCHANGED tmp

\* Fault: the outcome of the rename is not looked at.
Rename_Unchecked(r) ==
  /\ call[r] = "rename"
  /\ call' = [call EXCEPT ![r] = "exit"]
  /\ UNCHANGED <<pid, result, tmp, target, kept, published>>

Rename(r) ==
  /\ call[r] = "rename"
  /\ \/ /\ target' = tmp[TmpName(r)]
        /\ kept' = kept \cup {tmp[TmpName(r)]}
        /\ tmp' = [tmp EXCEPT ![TmpName(r)] = NoFile]
        /\ published' = published \cup {r}
        /\ call' = [call EXCEPT ![r] = "exit"]
        /\ UNCHANGED <<pid, result>>
     \/ Fails(r) /\ UNCHANGED tmp

\* run_v1 returns the decision's exit code.
Exit(r) ==
  /\ call[r] = "exit"
  /\ call' = [call EXCEPT ![r] = "done"]
  /\ result' = [result EXCEPT ![r] = "decided"]
  /\ UNCHANGED <<pid, tmp, target, kept, published>>

Kill(r) ==
  /\ Active(r)
  /\ call' = [call EXCEPT ![r] = "done"]
  /\ result' = [result EXCEPT ![r] = "killed"]
  /\ UNCHANGED <<pid, tmp, target, kept, published>>

\* What the disk may hold of a file.
AfterLoss(f) ==
  IF f = NoFile \/ f.flushed THEN {f} ELSE {f, [f EXCEPT !.whole = FALSE]}

PowerLoss ==
  /\ call' = [r \in Run |-> IF Active(r) THEN "done" ELSE call[r]]
  /\ result' = [r \in Run |-> IF Active(r) THEN "killed" ELSE result[r]]
  /\ \E f \in kept : target' \in AfterLoss(f)
  /\ kept' = {target'}
  /\ tmp' \in [Pid -> (UNION {AfterLoss(tmp[p]) : p \in Pid}) \cup {NoFile}]
  /\ \A p \in Pid : tmp'[p] \in AfterLoss(tmp[p]) \cup {NoFile}
  /\ UNCHANGED <<pid, published>>

\* The file system flushes the directory.
DirectoryFlush ==
  /\ kept # {target}
  /\ kept' = {target}
  /\ UNCHANGED <<call, pid, result, tmp, target, published>>

ReportNext ==
  \/ \E r \in Run : \/ \E p \in Pid : Begin(r, p)
                    \/ Create(r)
                    \/ Write(r)
                    \/ Flush(r)
                    \/ Rename(r)
                    \/ Exit(r)
                    \/ Kill(r)
  \/ PowerLoss
  \/ DirectoryFlush

ReportSpec == ReportInit /\ [][ReportNext]_reportVars

TypeOK ==
  /\ call \in [Run -> {"idle", "create", "write", "flush", "rename", "exit", "done"}]
  /\ pid \in [Run -> Pid \cup {NoPid}]
  /\ result \in [Run -> {"none", "usage", "decided", "killed"}]
  /\ tmp \in [Pid -> File \cup {NoFile}]
  /\ target \in File \cup {NoFile}
  /\ kept \subseteq File \cup {NoFile}
  /\ published \subseteq Run

(* The report is never a truncated file: whatever fails, is killed or loses
   power, and however runs interleave, the path holds no file or the whole
   report of one run ("without ever leaving a partially truncated target"). *)
NeverPartial == target # NoFile => target.whole

(* An exit code that claims a decision is backed by a report that was in place,
   and exit code 64 by none: a caller that sees 64 will not find that run's
   report, and one that sees a decision has not been shown an older report for
   it, as long as no other run and no power loss has intervened. *)
ExitCodeTellsReport ==
  \A r \in Run : /\ result[r] = "decided" => r \in published
                 /\ result[r] = "usage" => r \notin published
                 /\ target # NoFile => target.of \in published
=============================================================================

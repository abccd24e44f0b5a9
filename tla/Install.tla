------------------------------ MODULE Install ------------------------------
(***************************************************************************)
(* How the transfer worker moves one item and puts it under its real name: *)
(* transfer(), install_remote() and install_linked() of                    *)
(* src/src/transfer/worker.rs.                                             *)
(*                                                                         *)
(* A single file is first copied to a private temporary beside its         *)
(* destination, then installed with a step that must not replace anything. *)
(* A folder is copied straight onto its real name.  Other programs write   *)
(* and remove the same names all the while.  Every remote step is one      *)
(* short sftp batch: the server may carry it out or not, and either way    *)
(* the batch may be interrupted, time out or exit with an error.           *)
(***************************************************************************)
CONSTANTS
    LocalPaths,      \* destinations of downloads
    RemotePaths,     \* destinations of uploads
    Foreign,         \* contents other programs may leave under a name
    Linkable,        \* the paths whose filesystem and server make hard links
    RenameReplaces,  \* sftp's rename replaces an existing name (posix-rename)
    Direct           \* sftp gets in without the master: a key or an agent

Paths == LocalPaths \cup RemotePaths

\* What the transfer itself may leave under a name: nothing, the beginning of
\* a folder, everything, or its files among those of another program.
OwnContents == {"absent", "part", "ours", "mixed"}

ASSUME InstallAssumption ==
    /\ LocalPaths \cap RemotePaths = {}
    /\ Linkable \subseteq Paths
    /\ RenameReplaces \in BOOLEAN
    /\ Direct \in BOOLEAN
    /\ Foreign \cap OwnContents = {}

Contents == OwnContents \cup Foreign

Jobs == [path : Paths, folder : BOOLEAN]

\* Why a batch ended without an answer: the user's cancel, the screen closing,
\* or a timeout or an sftp that could not be launched.
Interrupts == {"cancelled", "stopped", "failed"}

Outcomes == {"none", "done", "exists"} \cup Interrupts

\* "copy" is the sftp child of transfer(); "link", "stat" and "mv" are local
\* system calls; the others are sftp batches named after the command they run.
LocalPhases  == {"link", "stat", "mv"}
RemotePhases == {"ln", "lsLn", "rename", "lsRename", "rmTaken", "rmDone", "rmAbort"}
Phases == {"idle", "copy"} \cup LocalPhases \cup RemotePhases

VARIABLES
    fs,       \* what is under every destination name
    up,       \* the master connection still carries sftp
    job,      \* the job being run, or the last one
    phase,    \* the step of the job being run
    tmp,      \* the job's .sshelf-part temporary
    outcome,  \* how the job ended (or will, once "rmAbort" is over)
    copied,   \* history: every byte of a single file reached the temporary
    arrived,  \* history: the job put its bytes under the real name
    lost,     \* history: an ln or rename was carried out, yet exited in error
    excuses   \* history: why a rename may find something under the name

installVars == <<fs, up, job, phase, tmp, outcome, copied, arrived, lost, excuses>>
history     == <<copied, arrived, lost, excuses>>

\* Between an ln in error and the rename that follows: the ln failed on a free
\* name that takes links; another program freed the name before the ls; the ls
\* missed a name that was there; another program took the name after the look
\* that found it free.
Excuses == {"refused", "vacated", "blind", "late"}

Dest      == fs[job.path]
IsLocal   == job.path \in LocalPaths

\* sftp is given the master's socket and nothing that forbids a connection of
\* its own when nothing answers there (sftp_batch_args).
Reaches   == up \/ Direct
Free      == job.path \in Linkable /\ Dest = "absent"
CanLink   == Reaches /\ Free
CanRename == Reaches /\ (Dest = "absent" \/ RenameReplaces)

TypeOK ==
    /\ fs \in [Paths -> Contents]
    /\ up \in BOOLEAN
    /\ job \in Jobs
    /\ phase \in Phases
    /\ tmp \in {"none", "part", "whole"}
    /\ outcome \in Outcomes
    /\ copied \in BOOLEAN
    /\ arrived \in BOOLEAN
    /\ lost \in BOOLEAN
    /\ excuses \subseteq Excuses

Init ==
    /\ fs \in [Paths -> {"absent"} \cup Foreign]
    /\ up = FALSE
    /\ job \in Jobs
    /\ phase = "idle"
    /\ tmp = "none"
    /\ outcome = "none"
    /\ copied = FALSE /\ arrived = FALSE /\ lost = FALSE /\ excuses = {}
-----------------------------------------------------------------------------
(***************************************************************************)
(* The copy.                                                               *)
(***************************************************************************)

\* The job has ended with outcome o; what is left on disk stays there.
End(o) == phase' = "idle" /\ outcome' = o

\* The remote temporary is removed (best effort) before the job ends with o.
EndAfterRm(o) == phase' = "rmAbort" /\ outcome' = o

Start(j) ==
    /\ phase = "idle"
    /\ job' = j
    /\ phase' = "copy"
    /\ tmp' = "none"
    /\ outcome' = "none"
    /\ copied' = FALSE /\ arrived' = FALSE /\ lost' = FALSE /\ excuses' = {}
    /\ UNCHANGED <<fs, up>>

\* sftp could not be started, or could not be waited for: nothing is cleaned up.
LaunchFails ==
    /\ phase = "copy"
    /\ End("failed")
    /\ UNCHANGED <<fs, up, job, tmp, history>>

\* Mutant: a single file is written under its real name.
WriteInPlace ==
    /\ phase = "copy" /\ Reaches
    /\ fs' = [fs EXCEPT ![job.path] = "part"]
    /\ UNCHANGED <<tmp, up, job, phase, outcome, history>>

\* sftp creates the temporary, or the first files of a folder at its real name.
Write ==
    /\ phase = "copy" /\ Reaches
    /\ \/ /\ ~job.folder /\ tmp = "none"
          /\ tmp' = "part"
          /\ UNCHANGED fs
       \/ /\ job.folder /\ Dest \in Foreign \cup {"absent"}
          /\ fs' = [fs EXCEPT ![job.path] = IF @ = "absent" THEN "part" ELSE "mixed"]
          /\ UNCHANGED tmp
    /\ UNCHANGED <<up, job, phase, outcome, history>>

CopyOk ==
    /\ phase = "copy" /\ Reaches
    /\ \/ /\ ~job.folder /\ tmp = "part"
          /\ tmp' = "whole"
          /\ copied' = TRUE
          /\ phase' = IF IsLocal THEN "link" ELSE "ln"
          /\ UNCHANGED <<fs, outcome, arrived>>
       \/ /\ job.folder /\ Dest \in {"part", "mixed", "ours"}
          /\ fs' = [fs EXCEPT ![job.path] = IF @ = "mixed" THEN @ ELSE "ours"]
          /\ arrived' = TRUE
          /\ End("done")
          /\ UNCHANGED <<tmp, copied>>
    /\ UNCHANGED <<up, job, lost, excuses>>

\* sftp exited with an error: a temporary is removed, a folder's part is not.
CopyFails ==
    /\ phase = "copy"
    /\ IF job.folder \/ IsLocal THEN End("failed") ELSE EndAfterRm("failed")
    /\ tmp' = IF IsLocal THEN "none" ELSE tmp
    /\ UNCHANGED <<fs, up, job, history>>

\* A stop request found while sftp runs.  abandon() kills it and deletes what
\* a download was writing: the temporary, or the folder under its real name.
CopyInterrupted(r) ==
    /\ phase = "copy"
    /\ tmp' = IF IsLocal THEN "none" ELSE tmp
    /\ fs' = IF IsLocal /\ job.folder THEN [fs EXCEPT ![job.path] = "absent"] ELSE fs
    /\ \/ /\ r = "cancelled"
          /\ IF job.folder \/ IsLocal THEN End(r) ELSE EndAfterRm(r)
       \/ r = "stopped" /\ End(r)
    /\ UNCHANGED <<up, job, history>>
-----------------------------------------------------------------------------
(***************************************************************************)
(* Installing a download (install_linked): local system calls, each atomic *)
(* but with the rest of the machine running between them.                  *)
(***************************************************************************)

\* The error says that no hard link can be made there (link_unsupported).
LinkUnsupported == job.path \notin Linkable

LinkLocal ==
    /\ phase = "link"
    /\ \/ /\ job.path \in Linkable /\ Dest = "absent"
          /\ fs' = [fs EXCEPT ![job.path] = "ours"]
          /\ tmp' = "none" /\ arrived' = TRUE
          /\ End("done")
       \/ /\ Dest # "absent"
          /\ tmp' = "none"
          /\ End("exists")
          /\ UNCHANGED <<fs, arrived>>
       \/ /\ LinkUnsupported
          /\ phase' = "stat"
          /\ UNCHANGED <<fs, tmp, arrived, outcome>>
       \/ End("failed") /\ UNCHANGED <<fs, tmp, arrived>>
    /\ UNCHANGED <<up, job, copied, lost, excuses>>

StatLocal ==
    /\ phase = "stat"
    /\ \/ Dest # "absent" /\ tmp' = "none" /\ End("exists")
       \/ Dest = "absent" /\ phase' = "mv" /\ UNCHANGED <<tmp, outcome>>
    /\ UNCHANGED <<fs, up, job, history>>

\* Mutant: the result of the rename is not looked at.
RenameLocalUnchecked ==
    /\ phase = "mv"
    /\ \/ fs' = [fs EXCEPT ![job.path] = "ours"] /\ tmp' = "none" /\ arrived' = TRUE
       \/ UNCHANGED <<fs, tmp, arrived>>
    /\ End("done")
    /\ UNCHANGED <<up, job, copied, lost, excuses>>

RenameLocal ==
    /\ phase = "mv"
    /\ \/ /\ fs' = [fs EXCEPT ![job.path] = "ours"]
          /\ tmp' = "none" /\ arrived' = TRUE
          /\ End("done")
       \/ End("failed") /\ UNCHANGED <<fs, tmp, arrived>>
    /\ excuses' = {}
    /\ UNCHANGED <<up, job, copied, lost>>
-----------------------------------------------------------------------------
(***************************************************************************)
(* Installing an upload (install_remote): one sftp batch per step.  `took` *)
(* says whether the server carried out a batch that gave no clean answer.  *)
(***************************************************************************)

\* The file is now under the real name; what is left of the temporary is t.
Installed(t) ==
    /\ fs' = [fs EXCEPT ![job.path] = "ours"]
    /\ arrived' = TRUE
    /\ tmp' = t

Linked == CanLink /\ Installed(tmp)

\* Between two links of one file rename does nothing, and succeeds.
Renamed == CanRename /\ Installed(IF arrived /\ Dest = "ours" THEN tmp ELSE "none")

\* Mutants: a timeout is an outcome of its own; every failure cleans up.
StepTimesOut(r)  == IF r = "cancelled" THEN EndAfterRm(r) ELSE End("timeout")
StepCleansUp(r)  == EndAfterRm(r)

\* install_step_failed(), and transfer()'s cleanup of a cancel.
StepFailed(r) == IF r = "cancelled" THEN EndAfterRm(r) ELSE End(r)

LnOk ==
    /\ phase = "ln" /\ Linked
    /\ phase' = "rmDone"
    /\ UNCHANGED <<up, job, outcome, copied, lost, excuses>>

\* sftp exits in error: the server refused the link for whatever reason, or was
\* never asked, or made it and the answer was lost.  The code does not tell.
LnErrs(took, next) ==
    /\ phase = "ln"
    /\ \/ took /\ Linked /\ lost' = TRUE /\ UNCHANGED excuses
       \/ /\ ~took /\ excuses' = IF Free THEN {"refused"} ELSE {}
          /\ UNCHANGED <<fs, arrived, tmp, lost>>
    /\ phase' = next
    /\ UNCHANGED <<up, job, outcome, copied>>

\* Mutant: a refused link is never explained.
LnRefusedRenames(took) == LnErrs(took, "rename")

LnRefused(took) == LnErrs(took, "lsLn")

LnInterrupted(r, took) ==
    /\ phase = "ln"
    /\ IF took THEN Linked ELSE UNCHANGED <<fs, arrived, tmp>>
    /\ StepFailed(r)
    /\ UNCHANGED <<up, job, copied, lost, excuses>>

\* The name was not seen: it is free, or ls failed for a reason of its own.
NotTaken ==
    \/ /\ phase = "lsLn" /\ phase' = "rename"
       /\ excuses' = excuses \cup (IF Dest = "absent" THEN {} ELSE {"blind"})
       /\ UNCHANGED outcome
    \/ phase = "lsRename" /\ End("failed") /\ UNCHANGED excuses

\* taken(): the exit status of ls is all that is looked at.
Ls ==
    /\ \/ /\ phase \in {"lsLn", "lsRename"} /\ Reaches /\ Dest # "absent"
          /\ phase' = "rmTaken" /\ excuses' = {}
          /\ UNCHANGED outcome
       \/ NotTaken
    /\ UNCHANGED <<fs, up, job, tmp, copied, arrived, lost>>

\* An interrupted ls reads as "not taken" whatever interrupted it.
LsInterrupted ==
    /\ NotTaken
    /\ UNCHANGED <<fs, up, job, tmp, copied, arrived, lost>>

RenameOk ==
    /\ phase = "rename" /\ Renamed
    /\ End("done")
    /\ excuses' = {}
    /\ UNCHANGED <<up, job, copied, lost>>

\* sftp exits in error, whether or not the server renamed.
RenameRefused(took) ==
    /\ phase = "rename"
    /\ \/ took /\ Renamed /\ lost' = TRUE
       \/ ~took /\ UNCHANGED <<fs, arrived, tmp, lost>>
    /\ phase' = "lsRename"
    /\ excuses' = {}
    /\ UNCHANGED <<up, job, outcome, copied>>

RenameInterrupted(r, took) ==
    /\ phase = "rename"
    /\ IF took THEN Renamed ELSE UNCHANGED <<fs, arrived, tmp>>
    /\ StepFailed(r)
    /\ excuses' = {}
    /\ UNCHANGED <<up, job, copied, lost>>

\* Every rm of a remote temporary: its result is never looked at.
Rm(took) ==
    /\ phase \in {"rmTaken", "rmDone", "rmAbort"}
    /\ took => Reaches
    /\ tmp' = IF took THEN "none" ELSE tmp
    /\ End(CASE phase = "rmTaken" -> "exists"
             [] phase = "rmDone"  -> "done"
             [] phase = "rmAbort" -> outcome)
    /\ UNCHANGED <<fs, up, job, history>>
-----------------------------------------------------------------------------
(***************************************************************************)
(* The rest of the world.                                                  *)
(***************************************************************************)

\* Another program writes under a name, or removes what is there.
OtherWrites(p, f) ==
    /\ fs' = [fs EXCEPT ![p] = f]
    /\ excuses' = IF p = job.path /\ phase \in {"mv", "rename"}
                  THEN excuses \cup {"late"} ELSE excuses
    /\ UNCHANGED <<up, job, phase, tmp, outcome, copied, arrived, lost>>

OtherRemoves(p) ==
    /\ fs' = [fs EXCEPT ![p] = "absent"]
    /\ excuses' = IF p = job.path /\ phase = "lsLn"
                  THEN excuses \cup {"vacated"} ELSE excuses
    /\ UNCHANGED <<up, job, phase, tmp, outcome, copied, arrived, lost>>

\* A session opens its master connection before it takes jobs.
MasterUp ==
    /\ phase = "idle"
    /\ up' = TRUE
    /\ UNCHANGED <<fs, job, phase, tmp, outcome, history>>

\* The master dies or is torn down; the session opens no other.
ConnectionLost ==
    /\ up' = FALSE
    /\ UNCHANGED <<fs, job, phase, tmp, outcome, history>>

Other ==
    \/ \E p \in Paths : OtherRemoves(p) \/ \E f \in Foreign : OtherWrites(p, f)
    \/ MasterUp \/ ConnectionLost

Copy ==
    \/ \E j \in Jobs : Start(j)
    \/ LaunchFails \/ Write \/ CopyOk \/ CopyFails
    \/ \E r \in {"cancelled", "stopped"} : CopyInterrupted(r)

InstallDownload == LinkLocal \/ StatLocal \/ RenameLocal

InstallUpload ==
    \/ LnOk \/ Ls \/ LsInterrupted \/ RenameOk
    \/ \E r \in Interrupts, took \in BOOLEAN :
          LnInterrupted(r, took) \/ RenameInterrupted(r, took)
    \/ \E took \in BOOLEAN : LnRefused(took) \/ RenameRefused(took) \/ Rm(took)

Next == Copy \/ InstallDownload \/ InstallUpload \/ Other

Spec == Init /\ [][Next]_installVars
-----------------------------------------------------------------------------
(***************************************************************************)
(* Properties.                                                             *)
(***************************************************************************)

\* The step puts a single file over something another program left there.
Replaces == ~job.folder /\ Dest \in Foreign /\ fs'[job.path] \in {"ours", "part"}

\* A single file replaces another program's file only if that came after the
\* look that found the name free, or if an ls missed it (install_remote and
\* install_linked look before they rename).  And where the name takes links it
\* is not replaced at all, unless an ls missed it, or another program freed the
\* name after the ln found it taken, or the link failed with the name free: the code
\* takes every failed ln for a server or filesystem without hard links.
ReplacesOnlyLatecomers ==
    [][Replaces => /\ excuses \cap {"late", "blind"} # {}
                   /\ job.path \in Linkable =>
                         excuses \cap {"refused", "vacated", "blind"} # {}]_installVars

\* Done is told only of a file that is under its real name, and Skipped only of
\* one that was not put there, unless an ln or a rename was carried out and yet
\* exited in error: ls then finds our own file and takes it for another's.
ReportTrue ==
    phase = "idle" => /\ outcome = "done" => arrived
                      /\ outcome = "exists" => ~arrived \/ lost

\* A file that crossed whole is never thrown away by an install that failed:
\* it is in its temporary or under its name (kept_as_temporary,
\* kept_as_remote_temporary).
NothingThrownAway ==
    phase = "idle" /\ outcome = "failed" /\ copied => tmp = "whole" \/ arrived

\* The change under name p is the job's own, and shows the whole file; or it
\* is another program's.
OwnChange(p)    == p = job.path /\ fs'[p] = "ours" /\ copied
OthersChange(p) == fs'[p] \in Foreign \cup {"absent"} /\ phase' = phase

ShowsOnlyWhole ==
    job' = job /\ ~job.folder =>
        \A p \in Paths : fs'[p] # fs[p] => OwnChange(p) \/ OthersChange(p)

\* The steps of a single-file job never show anything but the whole file under
\* the real name, touch no other name and delete none (transfer_batch's
\* temporary and the step that installs it).
WholeOrUntouched == [][ShowsOnlyWhole]_installVars

-----------------------------------------------------------------------------
(***************************************************************************)
(* Why they hold: what is known at each step of a job.                     *)
(***************************************************************************)

\* A single file between its last byte and its real name is whole in its
\* temporary; before that nothing of it counts as copied.  A step that follows
\* an ln or a rename in error finds it under its name only if that was lost.
BytesInv ==
    /\ phase = "copy" => ~copied /\ ~arrived
    /\ phase \in LocalPhases \cup {"ln", "lsLn", "rename"} =>
          ~job.folder /\ tmp = "whole" /\ copied
    /\ phase \in LocalPhases \cup {"ln"} => ~arrived
    /\ phase \in {"lsLn", "rename", "lsRename", "rmTaken"} =>
          ~job.folder /\ copied /\ (arrived => lost)
    /\ phase = "lsRename" => tmp = "whole" \/ arrived
    /\ phase = "rmDone"  => ~job.folder /\ copied /\ arrived
    /\ phase = "rmAbort" => /\ ~job.folder
                            /\ outcome \in {"failed", "cancelled"}
                            /\ outcome = "failed" => ~copied

\* What is known of the name at the steps that follow a link in error.
FallbackInv ==
    /\ phase \in {"stat", "mv"} => job.path \notin Linkable
    /\ phase \in {"mv", "rename"} /\ Dest \in Foreign => excuses \cap {"late", "blind"} # {}
    /\ phase = "lsLn" /\ job.path \in Linkable /\ Dest = "absent" =>
          excuses \cap {"refused", "vacated"} # {}
    /\ phase = "rename" /\ job.path \in Linkable =>
          excuses \cap {"refused", "vacated", "blind"} # {}

InstallInv == TypeOK /\ BytesInv /\ FallbackInv /\ ReportTrue /\ NothingThrownAway
=============================================================================

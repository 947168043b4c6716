----------------------------- MODULE ConfigFile -----------------------------
(***************************************************************************)
(* How the server keeps its configuration on disk: the save of CfgSaveExW3   *)
(* and the choice of CfgReadW (Mayaqua/Cfg.c), driven by the saver thread,    *)
(* the Flush call, the last save of a stop, and an uploaded configuration     *)
(* (Cedar/Server.c, Cedar/Admin.c).  The process may be killed between any    *)
(* two file operations, and creating or writing a file may fail.              *)
(*                                                                           *)
(* A configuration is a version number.  Three files matter: the              *)
(* configuration itself, ".log" (the copy a save takes first, which ends in    *)
(* an EOF character once it is complete) and ".new" (an upload).              *)
(***************************************************************************)
EXTENDS Integers

CONSTANTS
  MaxVersion,   \* bound: configurations ever made
  MaxCrashes,   \* bound: how often the process is killed
  MaxFaults     \* bound: file operations that fail

ASSUME ConfigAssumption == {MaxVersion, MaxCrashes, MaxFaults} \subseteq Nat

Initial == 0     \* SiLoadInitialConfiguration
Configs == 0 .. MaxVersion
Torn == -1       \* a configuration cut short, in a file or read from one
NoConfig == -2   \* no text at all, or none that CfgBufTextToFolder accepts
Missing == -3    \* there is no such file
NoHash == -4     \* LashHash is zero
NoPromise == -5
Stub == -6       \* a single character, in the copy: no configuration either

\* What a file holds, and whether the EOF character follows it.
File == [cfg : Configs \cup {Torn, Stub, NoConfig, Missing}, eof : BOOLEAN]
Holding(c) == [cfg |-> c, eof |-> FALSE]
NoFile == Holding(Missing)
Empty == Holding(NoConfig)       \* of size 0
Exists(f) == f.cfg # Missing

VARIABLES
  unix,          \* OS_IS_UNIX: always writes, and a rename replaces its target
  name, tmp, newf,   \* the files name, name.log and name.new
  up,            \* the server: "down", "running" or "stopping"
  mem,           \* the configuration in force
  hash,          \* rw->LashHash, as the configuration it is the hash of
  noMoreSave,    \* s->NoMoreSave
  resetSetting,  \* server_reset_setting, which outlives a restart in the process
  waiting,       \* threads past the check of NoMoreSave, before SaveCfgLock
  job,           \* the thread that holds SaveCfgLock
  pc,            \* where it is in CfgSaveExW3
  saving,        \* the configuration it is writing
  uploading,     \* the configuration StSetConfig is writing
  last,          \* the last configuration anyone made
  sound,         \* history: the save has a good copy to fall back on
  promised,      \* history: what an orderly stop has to bring back
  crashes, faults

disk == <<name, tmp, newf>>
process == <<up, mem, hash, noMoreSave, resetSetting>>
save == <<waiting, job, pc, saving, sound>>
bounds == <<last, crashes, faults>>
vars == <<unix, disk, process, save, uploading, promised, bounds>>

\* The saver thread or an administrator's Flush, which do the same; the last save.
Threads == {"saver", "final"}
PCs == {"idle", "copy", "copying", "create", "write", "clean", "undo", "rename"}

Init ==
  /\ unix \in BOOLEAN
  /\ name = NoFile /\ tmp = NoFile /\ newf = NoFile
  /\ up = "down" /\ mem = Initial /\ hash = NoHash
  /\ noMoreSave = FALSE /\ resetSetting = FALSE
  /\ waiting = {} /\ job = "none" /\ pc = "idle" /\ saving = Initial /\ sound = TRUE
  /\ uploading = Initial /\ last = Initial /\ promised = NoPromise
  /\ crashes = 0 /\ faults = 0

-----------------------------------------------------------------------------
(* CfgReadW: which file a start would read *)

\* The copy counts when it ends in EOF.  The EOF is looked for only if there are two
\* characters or more: a copy of one character counts whatever it is, as nothing.
Chosen(new, log, cfg) ==
  LET first == IF Exists(new) THEN new
               ELSE IF log.eof \/ log.cfg = Stub THEN log ELSE Empty
  IN IF first = Empty THEN cfg ELSE first

Read(new, log, cfg) ==
  LET c == Chosen(new, log, cfg).cfg IN IF c \in {Missing, Stub} THEN NoConfig ELSE c

\* What a start would find now.
Stored == Read(newf, tmp, name)
-----------------------------------------------------------------------------
(* Saving: SiWriteConfigurationFile, SaveCfgRwEx and CfgSaveExW3 *)

Fault == faults < MaxFaults /\ faults' = faults + 1
         /\ promised' = IF up = "stopping" THEN NoPromise ELSE promised
NoFault == UNCHANGED <<faults, promised>>
SaveStep(from, to) ==
  /\ pc = from /\ pc' = to
  /\ job' = IF to = "idle" THEN "none" ELSE job
  /\ UNCHANGED <<unix, newf, up, mem, noMoreSave, resetSetting, waiting, saving,
                 uploading, last, crashes>>

\* The saver thread wakes up, or an administrator calls Flush.
CheckNoMoreSave ==
  /\ up # "down" /\ ~noMoreSave /\ "saver" \notin waiting \cup {job}
  /\ waiting' = waiting \cup {"saver"}
  /\ UNCHANGED <<unix, disk, process, job, pc, saving, sound, uploading, promised, bounds>>

\* SaveCfgLock, a snapshot of the configuration, and whether it is the last one
\* written.  Its hash is remembered before it is written.
BeginSave(t) ==
  /\ t \in waiting /\ pc = "idle"
  /\ waiting' = waiting \ {t}
  /\ IF hash = mem /\ ~unix
     THEN UNCHANGED <<hash, job, pc, saving, sound>>
     ELSE /\ hash' = mem /\ job' = t /\ pc' = "copy" /\ saving' = mem
          /\ sound' = IF Exists(name) THEN name.cfg # Torn /\ name.cfg = Stored ELSE tmp.eof
  /\ UNCHANGED <<unix, disk, up, mem, noMoreSave, resetSetting, uploading, promised, bounds>>

\* FileCopyExWithEofW(name, tmp): nothing to copy; or tmp is created, and emptied.
CopyCreate ==
  /\ SaveStep("copy", IF Exists(name) THEN "copying" ELSE "create")
  /\ tmp' = IF Exists(name) THEN Empty ELSE tmp
  /\ UNCHANGED <<name, hash, sound>> /\ NoFault

\* Some of it is in the copy: one character, or more.
CopyPart ==
  /\ name # Empty /\ SaveStep("copying", "copying")
  /\ \/ tmp = Empty /\ tmp' = Holding(Stub)
     \/ tmp \in {Empty, Holding(Stub)} /\ tmp' = Holding(Torn)
  /\ UNCHANGED <<name, hash, sound>> /\ NoFault

\* Mutant: the copy is not marked as complete.
CopyWithoutEof ==
  /\ SaveStep("copying", "create")
  /\ tmp' = Holding(name.cfg)
  /\ UNCHANGED <<name, hash, sound>> /\ NoFault

CopyEnd ==
  /\ SaveStep("copying", "create")
  /\ tmp' = [cfg |-> name.cfg, eof |-> TRUE]
  /\ UNCHANGED <<name, hash, sound>> /\ NoFault

\* The copy fails, before or after tmp was emptied; nobody looks.
CopyFail ==
  /\ pc \in {"copy", "copying"} /\ Exists(name) /\ Fault
  /\ SaveStep(pc, "create") /\ sound' = FALSE
  /\ UNCHANGED <<name, tmp, hash>>

Create ==
  /\ SaveStep("create", "write")
  /\ name' = Empty /\ UNCHANGED <<tmp, hash, sound>> /\ NoFault

\* FileRename(tmp, name)
RenameBack ==
  LET moves == Exists(tmp) /\ (unix \/ ~Exists(name))
  IN /\ name' = IF moves THEN tmp ELSE name
     /\ tmp' = IF moves THEN NoFile ELSE tmp

\* Mutant: a save that could not even begin leaves the hash as it set it.
CreateFailKeepsHash ==
  /\ SaveStep("create", "idle") /\ Fault
  /\ RenameBack /\ UNCHANGED <<hash, sound>>

CreateFail ==
  /\ SaveStep("create", "idle") /\ Fault
  /\ RenameBack /\ hash' = NoHash /\ UNCHANGED sound

WritePart ==
  /\ name = Empty /\ SaveStep("write", "write")
  /\ name' = Holding(Torn) /\ UNCHANGED <<tmp, hash, sound>> /\ NoFault

WriteEnd ==
  /\ SaveStep("write", "clean")
  /\ name' = Holding(saving) /\ UNCHANGED <<tmp, hash, sound>> /\ NoFault

\* FileWrite returns false, with less than all of it written.
WriteFail ==
  /\ SaveStep("write", "undo") /\ Fault
  /\ UNCHANGED <<name, tmp, hash, sound>>

\* The file is deleted, then the copy takes its place, and the next save must write.
Undo ==
  /\ SaveStep("undo", "rename")
  /\ name' = NoFile /\ UNCHANGED <<tmp, hash, sound>> /\ NoFault

\* Mutant: the hash of what was not written stays.
RenameKeepsHash ==
  /\ SaveStep("rename", "idle")
  /\ RenameBack /\ UNCHANGED <<hash, sound>> /\ NoFault

Rename ==
  /\ SaveStep("rename", "idle")
  /\ RenameBack /\ hash' = NoHash /\ UNCHANGED sound /\ NoFault

\* Mutant: the lock is not let go.
CleanLocked ==
  /\ pc = "clean" /\ pc' = "idle" /\ tmp' = NoFile
  /\ UNCHANGED <<unix, name, newf, process, waiting, job, saving, sound, uploading,
                 promised, bounds>>

\* The copy is no longer needed: from here on a start reads the new file.
Clean ==
  /\ SaveStep("clean", "idle")
  /\ tmp' = NoFile /\ UNCHANGED <<name, hash, sound>> /\ NoFault

SaveSteps ==
  \/ CopyCreate \/ CopyPart \/ CopyEnd \/ CopyFail \/ Create \/ CreateFail
  \/ WritePart \/ WriteEnd \/ WriteFail \/ Undo \/ Rename \/ Clean
-----------------------------------------------------------------------------
(* Administrators *)

\* Some setting is changed.  Connections of administrators outlive the last save.
Change ==
  /\ up # "down" /\ last < MaxVersion
  /\ last' = last + 1 /\ mem' = last'
  /\ UNCHANGED <<unix, disk, up, hash, noMoreSave, resetSetting, save, uploading, promised,
                 crashes, faults>>

UploadStep == UNCHANGED <<unix, name, tmp, up, mem, hash, noMoreSave, save, crashes>>

\* StSetConfig creates name.new ...
UploadCreate ==
  /\ up # "down" /\ uploading = Initial /\ last < MaxVersion
  /\ last' = last + 1 /\ uploading' = last'
  /\ newf' = Empty
  /\ UploadStep /\ UNCHANGED <<resetSetting, promised, faults>>

UploadPart ==
  /\ uploading # Initial /\ newf = Empty
  /\ newf' = Holding(Torn)
  /\ UploadStep /\ UNCHANGED <<resetSetting, uploading, last, promised, faults>>

\* ... writes it, or fails to, and reboots the server in either case.
UploadEnd ==
  /\ uploading # Initial /\ uploading' = Initial
  /\ resetSetting' = FALSE
  /\ \/ newf' = Holding(uploading) /\ UNCHANGED faults
        /\ promised' = IF up = "stopping" THEN uploading ELSE promised
     \/ Fault /\ UNCHANGED newf
  /\ UploadStep /\ UNCHANGED last

\* StRebootServer, to restart with or without the initial configuration.
StRebootServer ==
  /\ up # "down" /\ resetSetting' \in BOOLEAN
  /\ UNCHANGED <<unix, disk, up, mem, hash, noMoreSave, save, uploading, promised, bounds>>
-----------------------------------------------------------------------------
(* Stopping and starting *)

\* An upload that failed earlier leaves nothing to be promised.
Promise ==
  IF newf = NoFile \/ uploading # Initial THEN mem
  ELSE IF newf.cfg \in Configs THEN newf.cfg ELSE NoPromise

\* Mutant: saving is switched off before the last save.
StopServerUnsaved ==
  /\ up = "running" /\ up' = "stopping" /\ noMoreSave' = TRUE
  /\ promised' = Promise
  /\ UNCHANGED <<unix, disk, mem, hash, resetSetting, save, uploading, bounds>>

\* SiCleanupServer: the thread of a reboot, or of the service, stops the server.
StopServer ==
  /\ up = "running" /\ up' = "stopping"
  /\ waiting' = waiting \cup {"final"}
  /\ promised' = Promise
  /\ UNCHANGED <<unix, disk, mem, hash, noMoreSave, resetSetting, job, pc, saving, sound,
                 uploading, bounds>>

\* SiFreeConfiguration, after the last save.
SetNoMoreSave ==
  /\ up = "stopping" /\ ~noMoreSave /\ "final" \notin waiting \cup {job}
  /\ noMoreSave' = TRUE
  /\ UNCHANGED <<unix, disk, up, mem, hash, resetSetting, save, uploading, promised, bounds>>

Halted ==
  /\ up' = "down" /\ mem' = Initial /\ hash' = NoHash /\ noMoreSave' = FALSE
  /\ waiting' = {} /\ job' = "none" /\ pc' = "idle" /\ saving' = Initial
  /\ uploading' = Initial
  /\ UNCHANGED <<unix, disk, sound, last, faults>>

\* WaitThread(SaveThread), then the rest; the process may end as well.  A Flush is
\* over by then too: the code does not wait for one before it frees CfgRw, but what
\* follows from that is below this model.
StopEnd ==
  /\ up = "stopping" /\ noMoreSave /\ waiting = {} /\ job = "none" /\ uploading = Initial
  /\ Halted /\ resetSetting' \in {resetSetting, FALSE}
  /\ UNCHANGED <<promised, crashes>>

Crash ==
  /\ up # "down" /\ crashes < MaxCrashes /\ crashes' = crashes + 1
  /\ Halted /\ resetSetting' = FALSE /\ promised' = NoPromise

\* SiInitConfiguration with NewCfgRwEx2W.  A torn file is accepted if what is left
\* of it can be read.  What cannot be read is replaced by an empty file.  An upload
\* is removed, unless it is empty and there is no file to read in its place.
Load ==
  /\ up = "down" /\ up' = "running"
  /\ newf' = IF newf = Empty /\ ~Exists(name) THEN newf ELSE NoFile
  /\ \E found \in IF Stored = Torn THEN {Torn, NoConfig} ELSE {Stored} :
       /\ name' = IF found = NoConfig THEN Empty ELSE name
       /\ mem' = IF found = NoConfig \/ resetSetting THEN Initial ELSE found
  /\ resetSetting' = FALSE /\ promised' = NoPromise
  /\ UNCHANGED <<unix, tmp, hash, noMoreSave, save, uploading, bounds>>
-----------------------------------------------------------------------------

Next ==
  \/ CheckNoMoreSave \/ (\E t \in Threads : BeginSave(t)) \/ SaveSteps
  \/ Change \/ UploadCreate \/ UploadPart \/ UploadEnd \/ StRebootServer
  \/ StopServer \/ SetNoMoreSave \/ StopEnd \/ Crash \/ Load

Spec == Init /\ [][Next]_vars

\* The saver thread wakes up every AutoSaveConfigSpan, and a save goes on.
FairSpec ==
  /\ Spec
  /\ WF_vars(CheckNoMoreSave)
  /\ WF_vars(\E t \in Threads : BeginSave(t))
  /\ WF_vars(SaveSteps)
-----------------------------------------------------------------------------
(* Properties *)

\* Every variable has its type, and a save has a thread that holds the lock.
TypeOK ==
  /\ unix \in BOOLEAN /\ name \in File /\ tmp \in File /\ newf \in File
  /\ up \in {"down", "running", "stopping"} /\ mem \in Configs \cup {Torn}
  /\ hash \in Configs \cup {Torn, NoHash}
  /\ noMoreSave \in BOOLEAN /\ resetSetting \in BOOLEAN /\ sound \in BOOLEAN
  /\ waiting \subseteq Threads /\ job \in Threads \cup {"none"} /\ pc \in PCs
  /\ (job = "none" <=> pc = "idle")
  /\ saving \in Configs \cup {Torn} /\ uploading \in Configs /\ last \in Configs
  /\ promised \in Configs \cup {Torn, NoPromise}
  /\ crashes \in 0 .. MaxCrashes /\ faults \in 0 .. MaxFaults

\* CfgSaveExW3 replaces the configuration on disk in one go: whenever the process
\* is killed, and if creating or writing the file fails, a start finds what it
\* would have found before the save or what the save was writing.  This needs a
\* good file to begin with and a good copy of it (sound).  There is a gap: while the
\* copy has one character a start finds nothing, and Load then replaces the file.
SavedAtOnce ==
  [][sound' /\ newf = NoFile /\ newf' = NoFile /\ ~Load
     /\ ~(pc = "copying" /\ Stub \in {tmp.cfg, tmp'.cfg})
       => Stored' = Stored \/ (pc # "idle" /\ Stored' = saving)]_vars

\* "Contents are not changed": when a save is skipped because the hash is that of
\* the last one, a start would find those contents, whatever failed or was killed.
HashHonest == pc = "idle" /\ hash # NoHash /\ newf = NoFile => Stored = hash

\* StFlush's documentation (vpnserver-jsonrpc-clients/README.md:7946): "data will
\* be saved on the timing of shutting down normally": what was in force when an
\* orderly stop began, or was uploaded by then, is in force after the start, or a
\* later change is.
OrderlyRestart ==
  [][Load /\ promised # NoPromise /\ ~resetSetting => mem' >= promised]_vars

\* The same text: "It is flushed to the disk as vpn_server.config [...]
\* periodically": settings that stay as they are reach the disk while the server
\* runs, also after saves that failed.
EventuallySaved == []<>(up # "running" \/ newf # NoFile \/ Stored = mem)
=============================================================================

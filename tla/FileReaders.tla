------------------------------ MODULE FileReaders ------------------------------
(***************************************************************************)
(* The readers of one file (filesystem/Folder.cpp, FileContentJob.cpp) on  *)
(* top of their RepeatableIOJob.  A loader asks the folder for the content *)
(* and gets an access to it; the job reads the file on an IO thread and    *)
(* calls the loader back; the loader that ends the last access waits for   *)
(* the job and destroys it, and the next one creates it anew.              *)
(*                                                                         *)
(* What RepeatableIOJob calls its callers are the loaders here, its        *)
(* pending requests are FileContentJob::mWorkList.  The folder's mutex is  *)
(* held by a loader until it has its access, mMutex of FileContentJob      *)
(* while it is inside Execute: Execute is called for the first item of the *)
(* list only.                                                              *)
(***************************************************************************)
EXTENDS RepeatableIOJob

ASSUME FolderAssumption == Nobody \notin Callers

VARIABLES
  folderMutex,  \* the loader that holds Folder::mMutex, or Nobody
  load,         \* load[c]: what loader c is doing, see LoadStates
  active,       \* FileContentJob::mActiveWorkList
  delivered     \* loaders whose callback was called

filesVars == <<vars, folderMutex, load, active, delivered>>

(* "asking": inside GetFileContent; "open": it has an access; "closing":   *)
(* it has ended the last access and waits for the job.                     *)
LoadStates == {"none", "asking", "open", "closing"}

(* Loaders that FileReader::mContents has a tracker for.                   *)
Contents == {c \in Callers : load[c] \in {"asking", "open"}}

(* FileContentJob::mMutex is held around Execute.                          *)
ListIsFree == \A c \in Callers : pc[c] = "idle"

FilesTypeOK ==
  /\ TypeOK
  /\ folderMutex \in Callers \cup {Nobody}
  /\ load \in [Callers -> LoadStates]
  /\ active \subseteq Callers \X (1..MaxRequests)
  /\ delivered \subseteq Callers

FilesInit ==
  /\ Init
  /\ folderMutex = Nobody
  /\ load = [c \in Callers |-> "none"]
  /\ active = {}
  /\ delivered = {}

--------------------------------------------------------------------------------
(* Loaders                                                                 *)

(* The folder adds a tracker and Request the item: Execute only if the     *)
(* list was empty, for whoever made it non-empty has called Execute.       *)
GetFileContent(c) ==
  /\ load[c] = "none"
  /\ folderMutex = Nobody
  /\ asked[c] < MaxRequests
  /\ folderMutex' = c
  /\ load' = [load EXCEPT ![c] = "asking"]
  /\ asked' = [asked EXCEPT ![c] = asked[c] + 1]
  /\ pending' = pending \cup {<<c, asked[c] + 1>>}
  /\ pc' = [pc EXCEPT ![c] = IF pending = {} THEN "check" ELSE "idle"]
  /\ UNCHANGED <<mIsStarving, mIsDone, mMutex, ioTasks, workerPc, ownerPc, active, delivered>>

Execute(c) ==
  /\ ExecuteCheck(c) \/ ExecuteLocked(c)
  /\ UNCHANGED <<folderMutex, load, active, delivered>>

GotAccess(c) ==
  /\ load[c] = "asking"
  /\ pc[c] = "idle"
  /\ load' = [load EXCEPT ![c] = "open"]
  /\ folderMutex' = Nobody
  /\ UNCHANGED <<vars, active, delivered>>

(* A loader ends its access when it has been called back.  The last one    *)
(* keeps the folder locked while it waits.                                 *)
OnContentAccessEnded(c) ==
  /\ load[c] = "open"
  /\ c \in delivered
  /\ folderMutex = Nobody
  /\ delivered' = delivered \ {c}
  /\ IF Contents = {c}
       THEN load' = [load EXCEPT ![c] = "closing"] /\ folderMutex' = c
       ELSE load' = [load EXCEPT ![c] = "none"] /\ UNCHANGED folderMutex
  /\ UNCHANGED <<vars, active>>

(* Wait returned: the job is destroyed, and is as new for the next loader. *)
(* A thread that is still about to unlock its mutex (DestroyedUnused of    *)
(* RepeatableIOJob) simply leaves here.                                    *)
DestroyJob(c) ==
  /\ load[c] = "closing"
  /\ mIsDone
  /\ load' = [load EXCEPT ![c] = "none"]
  /\ folderMutex' = Nobody
  /\ mIsStarving' = TRUE
  /\ mMutex' = Nobody
  /\ workerPc' = [w \in Workers |-> IF workerPc[w] = "unlock" THEN "idle" ELSE workerPc[w]]
  /\ UNCHANGED <<mIsDone, ioTasks, pc, asked, pending, ownerPc, active, delivered>>

--------------------------------------------------------------------------------
(* The job                                                                 *)

(* RunIOJob: the lists are swapped when the active one has been served, or *)
(* the run ends.                                                           *)
CheckHasWork(w) ==
  /\ workerPc[w] = "run"
  /\ active = {}
  /\ ListIsFree
  /\ active' = pending
  /\ pending' = {}
  /\ workerPc' = [workerPc EXCEPT ![w] = IF pending = {} THEN "ran" ELSE "run"]
  /\ UNCHANGED <<mIsStarving, mIsDone, mMutex, ioTasks, pc, asked, ownerPc,
                 folderMutex, load, delivered>>

(* One item is read and its callback called.                               *)
ServeItem(w) ==
  /\ workerPc[w] = "run"
  /\ \E item \in active :
       /\ active' = active \ {item}
       /\ delivered' = delivered \cup {item[1]}
  /\ UNCHANGED <<vars, folderMutex, load>>

JobStep(w) ==
  \/ CheckHasWork(w)
  \/ ServeItem(w)
  \/ /\ MarkStarving(w) \/ FinishRun(w) \/ Unlock(w)
     /\ UNCHANGED <<folderMutex, load, active, delivered>>

TakeJob(w) == StartWork(w) /\ UNCHANGED <<folderMutex, load, active, delivered>>

--------------------------------------------------------------------------------
FilesNext ==
  \/ \E c \in Callers :
       \/ GetFileContent(c) \/ Execute(c) \/ GotAccess(c)
       \/ OnContentAccessEnded(c) \/ DestroyJob(c)
  \/ \E w \in Workers : TakeJob(w) \/ JobStep(w)

FilesSpec == FilesInit /\ [][FilesNext]_filesVars

(* The fairness of RepeatableIOJob; a call into the folder that holds its  *)
(* mutex goes on.  Nothing makes a loader load or end its access.          *)
FilesFairSpec ==
  /\ FilesSpec
  /\ WF_filesVars(\E w \in Workers : TakeJob(w))
  /\ \A w \in Workers : WF_filesVars(JobStep(w))
  /\ \A c \in Callers : WF_filesVars(Execute(c) \/ GotAccess(c) \/ DestroyJob(c))

--------------------------------------------------------------------------------
(* Properties                                                              *)

(* FileContentJob.cpp:22: an item that was added to a list that was not    *)
(* empty needs no Execute, because somebody is still inside Execute, or a  *)
(* run that will look at the list again is certain.                        *)
NoStrandedItem == pending # {} => ~ListIsFree \/ RunToCome

(* Folder.cpp:156: when the last loader finds the job done and destroys    *)
(* it, no item and no JobWork is left behind, and no thread is in DoWork   *)
(* but one that is on its way out.                                         *)
DestroyedIdle ==
  \A c \in Callers : load[c] = "closing" /\ mIsDone =>
    /\ pending = {} /\ active = {} /\ ioTasks = 0
    /\ \A w \in Workers : workerPc[w] \in {"idle", "unlock"}

(* Every loader that has asked for the content is called back.             *)
LoadsAreServed == \A c \in Callers : load[c] = "asking" ~> c \in delivered

(* The last loader, which waits for the job with the folder locked, gets   *)
(* out again: it does not wait for a job that waits for the folder.        *)
ClosingEnds == \A c \in Callers : load[c] = "closing" ~> load[c] = "none"
================================================================================

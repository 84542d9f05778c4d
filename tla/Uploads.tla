------------------------------ MODULE Uploads ------------------------------
(***************************************************************************)
(* Uploaded files: staged in a directory of their own, reverted by the     *)
(* admin, committed to a public directory, or swept when they were left    *)
(* too long.  Revert and commit run in the event loop without an await, so *)
(* the one API process does nothing else meanwhile; the sweeper is another *)
(* process, and the API may be killed between any two calls.               *)
(*                                                                         *)
(* Left out: contents, signatures, who owns a token, and the directories   *)
(* of the admins, which are removed only when empty.  Random suffixes are  *)
(* taken to differ: the n-th file of a name gets n.                        *)
(***************************************************************************)
EXTENDS Naturals, FiniteSets

CONSTANTS
  Uploads,     \* uuids of staged files
  NameOf,      \* the file name of each
  Folders,     \* public directories
  MaxCopies,   \* bound: files of one name in a public directory
  MaxCrashes,  \* bound: times the API is killed
  NoFile       \* an empty place, an idle process

Names  == {NameOf[u] : u \in Uploads}
Places == Folders \X Names \X (0..MaxCopies)
Work   == [step : {"write", "clean", "rmdir"}, upload : Uploads, place : Places \cup {NoFile}]
Sweep  == [step : {"unlink", "rmdir"}, upload : Uploads]

ASSUME UploadsAssumption ==
  /\ MaxCopies \in Nat /\ MaxCrashes \in Nat
  /\ NoFile \notin Uploads \cup Places \cup Work \cup Sweep

VARIABLES
  folder,    \* uploads whose staging directory is there
  staged,    \* uploads whose staged file is there
  old,       \* staging directories older than the cutoff
  public,    \* what lies in each public place
  staging,   \* requests between the directory and the file
  given,     \* uploads whose token the admin has
  api,       \* the revert or commit the API is in
  sweeper,   \* the directory the sweeper is at
  reverted,  \* history: uploads an admin took back
  expired,   \* history: files the sweeper removed
  crashes    \* history: times the API was killed

uploadVars == <<folder, staged, old, public, staging, given, api, sweeper,
                reverted, expired, crashes>>

UploadsTypeOK ==
  /\ \A S \in {folder, staged, old, staging, given, reverted, expired} : S \subseteq Uploads
  /\ staged \subseteq folder
  /\ public \in [Places -> Uploads \cup {NoFile}]
  /\ api \in Work \cup {NoFile}
  /\ sweeper \in Sweep \cup {NoFile}
  /\ crashes \in 0..MaxCrashes

UploadsInit ==
  /\ folder = {} /\ staged = {} /\ old = {} /\ staging = {} /\ given = {}
  /\ public = [p \in Places |-> NoFile]
  /\ api = NoFile /\ sweeper = NoFile
  /\ reverted = {} /\ expired = {} /\ crashes = 0

Idle == api = NoFile

-----------------------------------------------------------------------------
(* stage_file: the directory, an await, the file.                          *)

StageFolder(u) ==
  /\ Idle /\ u \notin folder \cup staging \cup given
  /\ folder' = folder \cup {u}
  /\ staging' = staging \cup {u}
  /\ UNCHANGED <<staged, old, public, given, api, sweeper, reverted, expired, crashes>>

\* Writing fails when the sweeper took the directory.
StageFile(u) ==
  /\ Idle /\ u \in staging
  /\ staging' = staging \ {u}
  /\ IF u \in folder
     THEN /\ staged' = staged \cup {u}
          /\ given' = given \cup {u}
          /\ old' = old \ {u}
     ELSE UNCHANGED <<staged, given, old>>
  /\ UNCHANGED <<folder, public, api, sweeper, reverted, expired, crashes>>

-----------------------------------------------------------------------------
(* revert_file and commit_file.                                            *)

Unlink(u) == staged' = staged \ {u} /\ old' = old \ {u}

\* A directory that is gone by now is an error or nothing to do: either ends.
Revert(u) ==
  /\ Idle /\ u \in given /\ u \in folder
  /\ Unlink(u)
  /\ reverted' = reverted \cup {u}
  /\ api' = [step |-> "rmdir", upload |-> u, place |-> NoFile]
  /\ UNCHANGED <<folder, public, staging, given, sweeper, expired, crashes>>

Taken(f, u) == {n \in 0..MaxCopies : public[<<f, NameOf[u], n>>] # NoFile}

\* Mutant of Free: dest.exists() is not asked.
FreeAlways(f, u, n) == n = 0

\* The name itself, or one with a new suffix when the name is taken.
Free(f, u, n) == n \notin Taken(f, u) /\ (n # 0 => 0 \in Taken(f, u))

Commit(u, f, n) ==
  /\ Idle /\ u \in given /\ u \in staged
  /\ Free(f, u, n)
  /\ api' = [step |-> "write", upload |-> u, place |-> <<f, NameOf[u], n>>]
  /\ UNCHANGED <<folder, staged, old, public, staging, given, sweeper,
                 reverted, expired, crashes>>

\* Mutant of Write: the staged file goes before its copy is there.
WriteLate ==
  /\ ~Idle /\ api.step = "write"
  /\ IF api.upload \in staged
     THEN Unlink(api.upload) /\ UNCHANGED <<public, api>>
     ELSE /\ public' = [public EXCEPT ![api.place] = api.upload]
          /\ api' = [api EXCEPT !.step = "clean"]
          /\ UNCHANGED <<staged, old>>
  /\ UNCHANGED <<folder, staging, given, sweeper, reverted, expired, crashes>>

\* The staged file is read before the target is opened; it may be gone.
Write ==
  /\ ~Idle /\ api.step = "write"
  /\ IF api.upload \in staged
     THEN /\ public' = [public EXCEPT ![api.place] = api.upload]
          /\ api' = [api EXCEPT !.step = "clean"]
     ELSE api' = NoFile /\ UNCHANGED public
  /\ UNCHANGED <<folder, staged, old, staging, given, sweeper, reverted, expired, crashes>>

\* Mutant of Clean: the directory is left to the sweeper.
CleanLater ==
  /\ ~Idle /\ api.step = "clean"
  /\ api' = NoFile
  /\ UNCHANGED <<folder, staged, old, public, staging, given, sweeper, reverted, expired, crashes>>

\* Listing a directory that is gone raises.
Clean ==
  /\ ~Idle /\ api.step = "clean"
  /\ IF api.upload \in folder
     THEN Unlink(api.upload) /\ api' = [api EXCEPT !.step = "rmdir"]
     ELSE api' = NoFile /\ UNCHANGED <<staged, old>>
  /\ UNCHANGED <<folder, public, staging, given, sweeper, reverted, expired, crashes>>

RemoveFolder ==
  /\ ~Idle /\ api.step = "rmdir"
  /\ folder' = folder \ {api.upload}
  /\ api' = NoFile
  /\ UNCHANGED <<staged, old, public, staging, given, sweeper, reverted, expired, crashes>>

-----------------------------------------------------------------------------
(* prune_upload_staging, and what happens to the API.                      *)

SweepLook(u) ==
  /\ sweeper = NoFile /\ u \in folder \cap old
  /\ sweeper' = [step |-> "unlink", upload |-> u]
  /\ UNCHANGED <<folder, staged, old, public, staging, given, api, reverted, expired, crashes>>

SweepUnlink ==
  /\ sweeper # NoFile /\ sweeper.step = "unlink"
  /\ expired' = expired \cup (staged \cap {sweeper.upload})
  /\ Unlink(sweeper.upload)
  /\ sweeper' = [sweeper EXCEPT !.step = "rmdir"]
  /\ UNCHANGED <<folder, public, staging, given, api, reverted, crashes>>

\* A file that was written meanwhile keeps its directory.
SweepRmdir ==
  /\ sweeper # NoFile /\ sweeper.step = "rmdir"
  /\ folder' = folder \ ({sweeper.upload} \ staged)
  /\ sweeper' = NoFile
  /\ UNCHANGED <<staged, old, public, staging, given, api, reverted, expired, crashes>>

SweeperDies ==
  /\ sweeper # NoFile /\ sweeper' = NoFile
  /\ UNCHANGED <<folder, staged, old, public, staging, given, api, reverted, expired, crashes>>

\* A day passes.
GrowsOld(u) ==
  /\ u \in folder \ old
  /\ old' = old \cup {u}
  /\ UNCHANGED <<folder, staged, public, staging, given, api, sweeper, reverted, expired, crashes>>

Crash ==
  /\ crashes < MaxCrashes /\ (~Idle \/ staging # {})
  /\ crashes' = crashes + 1
  /\ api' = NoFile /\ staging' = {}
  /\ UNCHANGED <<folder, staged, old, public, given, sweeper, reverted, expired>>

UploadsNext ==
  \/ \E u \in Uploads :
       \/ StageFolder(u) \/ StageFile(u) \/ Revert(u) \/ SweepLook(u) \/ GrowsOld(u)
       \/ \E f \in Folders, n \in 0..MaxCopies : Commit(u, f, n)
  \/ Write \/ Clean \/ RemoveFolder
  \/ SweepUnlink \/ SweepRmdir \/ SweeperDies \/ Crash

UploadsSpec == UploadsInit /\ [][UploadsNext]_uploadVars

-----------------------------------------------------------------------------
\* A file the admin holds a token for is staged or public, unless the admin
\* took it back or it was left past the cutoff: neither the sweeper nor a
\* crash between the copy and the clean-up loses it (uploads.py:104-109; "only
\* meant to survive until an admin commits or reverts them",
\* prune_upload_staging.py:4).
UploadKept == \A u \in given :
  \/ u \in staged \cup reverted \cup expired
  \/ \E p \in Places : public[p] = u

\* One upload becomes one public file, and one more for each time the API was
\* killed between the copy and the clean-up.
CopiesBounded == \A u \in Uploads :
  Cardinality({p \in Places : public[p] = u}) <= 1 + crashes

\* What is public stays: no commit writes over another file, whatever names the
\* uploads have.  For a name that is taken it rests on the random suffix being a
\* new one, which nothing checks (uploads.py:101-105).
PublicStays == [][\A p \in Places : public[p] # NoFile => public'[p] = public[p]]_uploadVars

=============================================================================

--------------------------- MODULE UploadsProofs ---------------------------
(***************************************************************************)
(* What holds of uploads for any files, names, directories and number of   *)
(* crashes.                                                                *)
(***************************************************************************)
EXTENDS Uploads, FiniteSetTheorems, TLAPS

-----------------------------------------------------------------------------
(* The inductive invariant.                                                *)

At(step)    == api # NoFile /\ api.step = step
Copies(u)   == {p \in Places : public[p] = u}
Cleaning(u) == At("clean") /\ api.upload = u

\* What the API is about to do is still right when it does it.
WorkSound ==
  /\ At("write") => api.place \in Places /\ public[api.place] = NoFile
  /\ At("clean") => api.place \in Places /\ public[api.place] = api.upload
  /\ At("rmdir") => api.upload \notin staged

\* A file is staged once, and only what was staged becomes public.
GivenSound ==
  /\ staging \cap given = {}
  /\ staged \subseteq given
  /\ \A p \in Places : public[p] # NoFile => public[p] \in given

\* A file that may be committed again was copied once for each crash.
CopiesSound == \A u \in Uploads :
  /\ IsFiniteSet(Copies(u))
  /\ Cardinality(Copies(u)) <= 1 + crashes
  /\ u \in staged /\ ~Cleaning(u) => Cardinality(Copies(u)) <= crashes

UploadsInv ==
  /\ UploadsTypeOK
  /\ WorkSound
  /\ GivenSound
  /\ CopiesSound
  /\ UploadKept

LEMMA NoFileIsNone ==
  NoFile \notin Uploads /\ NoFile \notin Work /\ NoFile \notin Sweep
BY UploadsAssumption

\* Copies do not change with anything but the public files.
LEMMA CopiesKept ==
  ASSUME UploadsInv, UNCHANGED <<public, crashes>>,
         \A u \in Uploads : u \in staged' /\ ~Cleaning(u)' =>
           \/ u \in staged /\ ~Cleaning(u)
           \/ Copies(u) = {}
  PROVE  CopiesSound'
<1> SUFFICES ASSUME NEW u \in Uploads
             PROVE  /\ IsFiniteSet(Copies(u))'
                    /\ (Cardinality(Copies(u)) <= 1 + crashes)'
                    /\ u \in staged' /\ ~Cleaning(u)' => (Cardinality(Copies(u)) <= crashes)'
  BY DEF CopiesSound
<1>1. Copies(u)' = Copies(u) /\ crashes' = crashes
  BY DEF Copies
<1>2. /\ IsFiniteSet(Copies(u)) /\ Cardinality(Copies(u)) <= 1 + crashes
      /\ u \in staged /\ ~Cleaning(u) => Cardinality(Copies(u)) <= crashes
  BY DEF UploadsInv, CopiesSound
<1>3. crashes \in Nat
  BY UploadsAssumption DEF UploadsInv, UploadsTypeOK
<1>4. Copies(u) = {} => Cardinality(Copies(u)) <= crashes
  BY <1>3, FS_EmptySet
<1> QED
  BY <1>1, <1>2, <1>4

-----------------------------------------------------------------------------
(* Staging.                                                                *)

LEMMA StageFolderKeeps ==
  ASSUME UploadsInv, NEW u \in Uploads, StageFolder(u)
  PROVE  UploadsInv'
<1> USE DEF UploadsInv, StageFolder
<1>1. UploadsTypeOK'
  BY DEF UploadsTypeOK
<1>2. WorkSound' /\ GivenSound'
  BY DEF WorkSound, GivenSound, At
<1>3. CopiesSound'
  BY CopiesKept DEF Cleaning, At
<1>4. UploadKept'
  BY DEF UploadKept
<1> QED
  BY <1>1, <1>2, <1>3, <1>4

LEMMA StageFileKeeps ==
  ASSUME UploadsInv, NEW u \in Uploads, StageFile(u)
  PROVE  UploadsInv'
<1> USE DEF UploadsInv, StageFile
<1>1. UploadsTypeOK'
  BY DEF UploadsTypeOK
<1>2. WorkSound' /\ GivenSound'
  BY DEF WorkSound, GivenSound, At, Idle
<1>3. CopiesSound'
  <2>1. u \notin given
    BY DEF GivenSound
  <2>2. Copies(u) = {}
    BY <2>1, NoFileIsNone DEF GivenSound, Copies
  <2> QED
    BY <2>2, CopiesKept DEF Cleaning, At
<1>4. UploadKept'
  BY DEF UploadKept
<1> QED
  BY <1>1, <1>2, <1>3, <1>4

-----------------------------------------------------------------------------
(* Revert and commit.                                                      *)

LEMMA RevertKeeps ==
  ASSUME UploadsInv, NEW u \in Uploads, Revert(u)
  PROVE  UploadsInv'
<1> USE DEF UploadsInv, Revert, Unlink
<1>0. [step |-> "rmdir", upload |-> u, place |-> NoFile] \in Work
  BY DEF Work
<1>1. UploadsTypeOK'
  BY <1>0 DEF UploadsTypeOK
<1>2. WorkSound' /\ GivenSound'
  BY DEF WorkSound, GivenSound, At
<1>3. CopiesSound'
  BY CopiesKept DEF Cleaning, At, Idle
<1>4. UploadKept'
  BY DEF UploadKept
<1> QED
  BY <1>1, <1>2, <1>3, <1>4

LEMMA CommitKeeps ==
  ASSUME UploadsInv, NEW u \in Uploads, NEW f \in Folders, NEW n \in 0..MaxCopies,
         Commit(u, f, n)
  PROVE  UploadsInv'
<1> USE DEF UploadsInv, Commit
<1> DEFINE place == <<f, NameOf[u], n>>
<1>0. place \in Places /\ public[place] = NoFile
  BY DEF Places, Names, Free, Taken
<1> HIDE DEF place
<1>1. api' = [step |-> "write", upload |-> u, place |-> place] /\ api' \in Work
  BY <1>0 DEF Work, place
<1>2. UploadsTypeOK'
  BY <1>1 DEF UploadsTypeOK
<1>3. WorkSound' /\ GivenSound'
  BY <1>0, <1>1 DEF WorkSound, GivenSound, At
<1>4. CopiesSound'
  BY <1>1, CopiesKept DEF Cleaning, At, Idle
<1>5. UploadKept'
  BY DEF UploadKept
<1> QED
  BY <1>2, <1>3, <1>4, <1>5

LEMMA WriteKeeps ==
  ASSUME UploadsInv, Write
  PROVE  UploadsInv'
<1> DEFINE u == api.upload
<1>1. At("write") /\ api \in Work /\ u \in Uploads
  BY DEF Write, UploadsInv, UploadsTypeOK, Idle, At, Work
<1>2. CASE u \notin staged
  <2>1. api' = NoFile /\ UNCHANGED <<folder, staged, old, public, staging, given, sweeper,
                                     reverted, expired, crashes>>
    BY <1>2 DEF Write
  <2>2. UploadsTypeOK' /\ WorkSound' /\ GivenSound' /\ UploadKept'
    BY <2>1 DEF UploadsInv, UploadsTypeOK, WorkSound, GivenSound, At, UploadKept
  <2>3. CopiesSound'
    BY <1>1, <2>1, CopiesKept DEF Cleaning, At
  <2> QED
    BY <2>2, <2>3 DEF UploadsInv
<1>3. CASE u \in staged
  <2>1. PICK a \in Work : a = api
    BY <1>1
  <2>2. PICK p \in Places : p = api.place /\ public[p] = NoFile
    BY <1>1 DEF UploadsInv, WorkSound
  <2>3. /\ public' = [public EXCEPT ![p] = a.upload]
        /\ api' = [a EXCEPT !.step = "clean"]
        /\ UNCHANGED <<folder, staged, old, staging, given, sweeper, reverted, expired, crashes>>
    BY <1>3, <2>1, <2>2 DEF Write
  <2>4. api' \in Work /\ api'.step = "clean" /\ api'.upload = a.upload /\ api'.place = p
    BY <2>1, <2>2, <2>3 DEF Work
  <2>5. public \in [Places -> Uploads \cup {NoFile}] /\ a.upload \in staged /\ a.upload \in Uploads
    BY <1>1, <1>3, <2>1 DEF UploadsInv, UploadsTypeOK
  <2>6. public'[p] = a.upload /\ \A q \in Places : q # p => public'[q] = public[q]
    BY <2>3, <2>5
  <2>7. UploadsTypeOK'
    BY <2>3, <2>4, <2>5 DEF UploadsInv, UploadsTypeOK
  <2>8. WorkSound'
    BY <2>4, <2>6, NoFileIsNone DEF WorkSound, At
  <2>9. GivenSound'
    BY <2>3, <2>5, <2>6 DEF UploadsInv, GivenSound
  <2>10. UploadKept'
    <3> SUFFICES ASSUME NEW v \in given, v \notin staged \cup reverted \cup expired
                 PROVE  \E q \in Places : public'[q] = v
      BY <2>3 DEF UploadKept
    <3>1. PICK q \in Places : public[q] = v
      BY DEF UploadsInv, UploadKept
    <3>2. v \in Uploads
      BY DEF UploadsInv, UploadsTypeOK
    <3>3. q # p
      BY <2>2, <3>1, <3>2, NoFileIsNone
    <3> QED
      BY <2>6, <3>1, <3>3
  <2>11. ASSUME NEW v \in Uploads
         PROVE  /\ IsFiniteSet(Copies(v))'
                /\ (Cardinality(Copies(v)) <= 1 + crashes)'
                /\ v \in staged' /\ ~Cleaning(v)' => (Cardinality(Copies(v)) <= crashes)'
    <3>0. /\ IsFiniteSet(Copies(v)) /\ Cardinality(Copies(v)) <= 1 + crashes
          /\ v \in staged /\ ~Cleaning(v) => Cardinality(Copies(v)) <= crashes
      BY DEF UploadsInv, CopiesSound
    <3>1. ~Cleaning(v) /\ (Cleaning(v)' <=> v = a.upload)
      BY <1>1, <2>4, NoFileIsNone DEF Cleaning, At
    <3>2. CASE v = a.upload
      <4>1. Copies(v)' = Copies(v) \cup {p} /\ p \notin Copies(v)
        BY <2>2, <2>5, <2>6, <3>2, NoFileIsNone DEF Copies
      <4>2. /\ IsFiniteSet(Copies(v) \cup {p})
            /\ Cardinality(Copies(v) \cup {p}) = Cardinality(Copies(v)) + 1
        BY <3>0, <4>1, FS_AddElement
      <4>3. Cardinality(Copies(v)) \in Nat /\ crashes \in Nat
        BY <3>0, FS_CardinalityType, UploadsAssumption DEF UploadsInv, UploadsTypeOK
      <4> QED
        BY <2>3, <2>5, <3>0, <3>1, <3>2, <4>1, <4>2, <4>3
    <3>3. CASE v # a.upload
      <4>1. Copies(v)' = Copies(v)
        BY <2>2, <2>6, <3>3, NoFileIsNone DEF Copies
      <4> QED
        BY <2>3, <3>0, <3>1, <4>1
    <3> QED
      BY <3>2, <3>3
  <2>12. CopiesSound'
    BY <2>11 DEF CopiesSound
  <2> QED
    BY <2>7, <2>8, <2>9, <2>10, <2>12 DEF UploadsInv
<1> QED
  BY <1>2, <1>3

LEMMA CleanKeeps ==
  ASSUME UploadsInv, Clean
  PROVE  UploadsInv'
<1> DEFINE u == api.upload
<1>1. At("clean") /\ api \in Work /\ u \in Uploads
  BY DEF Clean, UploadsInv, UploadsTypeOK, Idle, At, Work
<1>2. api.place \in Places /\ public[api.place] = u
  BY <1>1 DEF UploadsInv, WorkSound
<1>3. UNCHANGED <<folder, public, staging, given, sweeper, reverted, expired, crashes>>
  BY DEF Clean
<1>4. /\ u \notin staged' /\ staged' \subseteq staged /\ old' \subseteq old
      /\ \A v \in staged : v # u => v \in staged'
  BY DEF Clean, Unlink, UploadsInv, UploadsTypeOK
<1>5. api' = NoFile \/ (api' \in Work /\ api'.step = "rmdir" /\ api'.upload = u)
  <2>1. PICK a \in Work : a = api
    BY <1>1
  <2>2. [a EXCEPT !.step = "rmdir"] \in Work /\ [a EXCEPT !.step = "rmdir"].step = "rmdir"
        /\ [a EXCEPT !.step = "rmdir"].upload = a.upload
    BY DEF Work
  <2> QED
    BY <2>1, <2>2 DEF Clean
<1>6. UploadsTypeOK' /\ WorkSound' /\ GivenSound'
  <2>1. UploadsTypeOK'
    BY <1>3, <1>4, <1>5 DEF UploadsInv, UploadsTypeOK
  <2>2. WorkSound' /\ GivenSound'
    BY <1>3, <1>4, <1>5 DEF UploadsInv, WorkSound, GivenSound, At
  <2> QED
    BY <2>1, <2>2
<1>7. CopiesSound'
  BY <1>3, <1>4, CopiesKept DEF Cleaning
<1>8. UploadKept'
  BY <1>2, <1>3, <1>4 DEF UploadsInv, UploadKept
<1> QED
  BY <1>6, <1>7, <1>8 DEF UploadsInv

LEMMA RemoveFolderKeeps ==
  ASSUME UploadsInv, RemoveFolder
  PROVE  UploadsInv'
<1>1. /\ At("rmdir") /\ api' = NoFile /\ folder' = folder \ {api.upload}
      /\ UNCHANGED <<staged, old, public, staging, given, sweeper, reverted, expired, crashes>>
  BY DEF RemoveFolder, Idle, At
<1>2. api.upload \notin staged
  BY <1>1 DEF UploadsInv, WorkSound
<1>3. UploadsTypeOK' /\ WorkSound' /\ GivenSound' /\ UploadKept'
  BY <1>1, <1>2 DEF UploadsInv, UploadsTypeOK, WorkSound, GivenSound, At, UploadKept
<1>4. CopiesSound'
  BY <1>1, CopiesKept DEF Cleaning, At
<1> QED
  BY <1>3, <1>4 DEF UploadsInv

-----------------------------------------------------------------------------
(* The sweeper, time and crashes.                                          *)

LEMMA SweepLookKeeps ==
  ASSUME UploadsInv, NEW u \in Uploads, SweepLook(u)
  PROVE  UploadsInv'
<1> USE DEF UploadsInv, SweepLook
<1>0. [step |-> "unlink", upload |-> u] \in Sweep
  BY DEF Sweep
<1>1. UploadsTypeOK'
  BY <1>0 DEF UploadsTypeOK
<1>2. WorkSound' /\ GivenSound' /\ UploadKept'
  BY DEF WorkSound, GivenSound, At, UploadKept
<1>3. CopiesSound'
  BY CopiesKept DEF Cleaning, At
<1> QED
  BY <1>1, <1>2, <1>3

LEMMA SweepUnlinkKeeps ==
  ASSUME UploadsInv, SweepUnlink
  PROVE  UploadsInv'
<1>1. PICK w \in Sweep : w = sweeper
  BY DEF UploadsInv, UploadsTypeOK, SweepUnlink
<1>2. [w EXCEPT !.step = "rmdir"] \in Sweep /\ w.upload \in Uploads
  BY DEF Sweep
<1>3. /\ expired' = expired \cup (staged \cap {w.upload})
      /\ staged' = staged \ {w.upload} /\ old' = old \ {w.upload}
      /\ sweeper' = [w EXCEPT !.step = "rmdir"]
      /\ UNCHANGED <<folder, public, staging, given, api, reverted, crashes>>
  BY <1>1 DEF SweepUnlink, Unlink
<1>4. UploadsTypeOK'
  BY <1>2, <1>3 DEF UploadsInv, UploadsTypeOK
<1>5. WorkSound' /\ GivenSound' /\ UploadKept'
  BY <1>3 DEF UploadsInv, WorkSound, GivenSound, At, UploadKept
<1>6. CopiesSound'
  BY <1>3, CopiesKept DEF Cleaning, At
<1> QED
  BY <1>4, <1>5, <1>6 DEF UploadsInv

\* The steps that touch neither files, work nor tokens.
LEMMA RestKeeps ==
  ASSUME UploadsInv,
         \/ SweepRmdir \/ SweeperDies
         \/ \E u \in Uploads : GrowsOld(u)
         \/ UNCHANGED uploadVars
  PROVE  UploadsInv'
<1>1. /\ UNCHANGED <<staged, public, staging, given, api, reverted, expired, crashes>>
      /\ folder' \subseteq folder /\ staged \subseteq folder'
      /\ old' \subseteq Uploads /\ sweeper' \in Sweep \cup {NoFile}
  BY DEF SweepRmdir, SweeperDies, GrowsOld, uploadVars, UploadsInv, UploadsTypeOK
<1>2. UploadsTypeOK'
  BY <1>1 DEF UploadsInv, UploadsTypeOK
<1>3. WorkSound' /\ GivenSound' /\ UploadKept'
  BY <1>1 DEF UploadsInv, WorkSound, GivenSound, At, UploadKept
<1>4. CopiesSound'
  BY <1>1, CopiesKept DEF Cleaning, At
<1> QED
  BY <1>2, <1>3, <1>4 DEF UploadsInv

LEMMA CrashKeeps ==
  ASSUME UploadsInv, Crash
  PROVE  UploadsInv'
<1>1. /\ crashes < MaxCrashes /\ crashes' = crashes + 1 /\ api' = NoFile /\ staging' = {}
      /\ UNCHANGED <<folder, staged, old, public, given, sweeper, reverted, expired>>
  BY DEF Crash
<1>2. crashes \in Nat /\ crashes' \in 0..MaxCrashes
  BY <1>1, UploadsAssumption DEF UploadsInv, UploadsTypeOK
<1>3. UploadsTypeOK'
  BY <1>1, <1>2 DEF UploadsInv, UploadsTypeOK
<1>4. WorkSound' /\ GivenSound' /\ UploadKept'
  BY <1>1 DEF UploadsInv, WorkSound, GivenSound, At, UploadKept
<1>5. ASSUME NEW u \in Uploads
      PROVE  /\ IsFiniteSet(Copies(u))'
             /\ (Cardinality(Copies(u)) <= 1 + crashes)'
             /\ (Cardinality(Copies(u)) <= crashes)'
  <2>1. Copies(u)' = Copies(u)
    BY <1>1 DEF Copies
  <2>2. IsFiniteSet(Copies(u)) /\ Cardinality(Copies(u)) <= 1 + crashes
    BY DEF UploadsInv, CopiesSound
  <2>3. Cardinality(Copies(u)) \in Nat
    BY <2>2, FS_CardinalityType
  <2> QED
    BY <1>1, <1>2, <2>1, <2>2, <2>3
<1>6. CopiesSound'
  BY <1>5 DEF CopiesSound
<1> QED
  BY <1>3, <1>4, <1>6 DEF UploadsInv

-----------------------------------------------------------------------------
(* Theorems.                                                               *)

LEMMA UploadsStart == UploadsInit => UploadsInv
<1> SUFFICES ASSUME UploadsInit
             PROVE  UploadsInv
  OBVIOUS
<1>1. UploadsTypeOK
  BY UploadsAssumption DEF UploadsInit, UploadsTypeOK
<1>2. WorkSound /\ GivenSound /\ UploadKept
  BY DEF UploadsInit, WorkSound, GivenSound, At, UploadKept
<1>3. ASSUME NEW u \in Uploads
      PROVE  Copies(u) = {}
  BY NoFileIsNone DEF UploadsInit, Copies
<1>4. CopiesSound
  BY <1>3, FS_EmptySet DEF UploadsInit, CopiesSound
<1> QED
  BY <1>1, <1>2, <1>4 DEF UploadsInv

LEMMA UploadsStep == UploadsInv /\ [UploadsNext]_uploadVars => UploadsInv'
<1> SUFFICES ASSUME UploadsInv, [UploadsNext]_uploadVars
             PROVE  UploadsInv'
  OBVIOUS
<1>1. ASSUME NEW u \in Uploads, StageFolder(u) \/ StageFile(u) \/ Revert(u)
      PROVE  UploadsInv'
  BY <1>1, StageFolderKeeps, StageFileKeeps, RevertKeeps
<1>2. ASSUME NEW u \in Uploads, NEW f \in Folders, NEW n \in 0..MaxCopies, Commit(u, f, n)
      PROVE  UploadsInv'
  BY <1>2, CommitKeeps
<1>3. CASE Write
  BY <1>3, WriteKeeps
<1>4. CASE Clean
  BY <1>4, CleanKeeps
<1>5. CASE RemoveFolder
  BY <1>5, RemoveFolderKeeps
<1>6. ASSUME NEW u \in Uploads, SweepLook(u)
      PROVE  UploadsInv'
  BY <1>6, SweepLookKeeps
<1>7. CASE SweepUnlink
  BY <1>7, SweepUnlinkKeeps
<1>8. CASE SweepRmdir \/ SweeperDies \/ (\E u \in Uploads : GrowsOld(u)) \/ UNCHANGED uploadVars
  BY <1>8, RestKeeps
<1>9. CASE Crash
  BY <1>9, CrashKeeps
<1> QED
  BY <1>1, <1>2, <1>3, <1>4, <1>5, <1>6, <1>7, <1>8, <1>9 DEF UploadsNext

\* The strengthening of the properties of uploads (uploads.py:49-112,
\* prune_upload_staging.py): what the API is about to do is still right when
\* it does it, and a staged file was copied at most once for each crash.
THEOREM UploadsInductive == UploadsSpec => []UploadsInv
<1> QED
  BY UploadsStart, UploadsStep, PTL DEF UploadsSpec

\* Neither the sweeper nor a crash loses a file (uploads.py:104-109).
THEOREM UploadsKept == UploadsSpec => []UploadKept
<1>1. UploadsInv => UploadKept
  BY DEF UploadsInv
<1> QED
  BY <1>1, UploadsInductive, PTL

\* An upload becomes one public file and one more for each crash between the
\* copy and the clean-up (uploads.py:104-109).
THEOREM CopiesStayBounded == UploadsSpec => []CopiesBounded
<1>1. UploadsInv => CopiesBounded
  BY DEF UploadsInv, CopiesSound, CopiesBounded, Copies
<1> QED
  BY <1>1, UploadsInductive, PTL

\* No commit writes over a public file (uploads.py:100-104).
THEOREM PublicAlwaysStays == UploadsSpec => PublicStays
<1> DEFINE Stays == \A p \in Places : public[p] # NoFile => public'[p] = public[p]
<1>1. ASSUME UploadsInv, UploadsNext
      PROVE  Stays
  <2>1. CASE Write
    <3>1. public \in [Places -> Uploads \cup {NoFile}] /\ WorkSound
      BY <1>1 DEF UploadsInv, UploadsTypeOK
    <3>2. /\ public[api.place] = NoFile
          /\ public' = [public EXCEPT ![api.place] = api.upload] \/ public' = public
      BY <2>1, <3>1 DEF Write, Idle, At, WorkSound
    <3> QED
      BY <3>1, <3>2
  <2>2. CASE ~Write
    BY <1>1, <2>2 DEF UploadsNext, StageFolder, StageFile, Revert, SweepLook, GrowsOld,
       Commit, Clean, RemoveFolder, SweepUnlink, SweepRmdir, SweeperDies, Crash
  <2> QED
    BY <2>1, <2>2
<1>2. UploadsInv /\ [UploadsNext]_uploadVars => [Stays]_uploadVars
  BY <1>1
<1>3. PublicStays <=> [][Stays]_uploadVars
  BY DEF PublicStays
<1> QED
  BY <1>2, <1>3, UploadsInductive, PTL DEF UploadsSpec

=============================================================================

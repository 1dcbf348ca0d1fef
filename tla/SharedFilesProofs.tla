--------------------------- MODULE SharedFilesProofs ---------------------------
(***************************************************************************)
(* The files that several processes of codehub share in the user's home    *)
(* directory.                                                              *)
(* The registry, for any processes, repositories and names: a repository   *)
(* is listed exactly when it is indexed, but for the named mishaps.        *)
(* Downloads, for any setups, versions and lengths of a file: while they   *)
(* do not overlap, the final path has nothing or a whole file, wherever    *)
(* setups fail or die, and a reported success is true.                     *)
(***************************************************************************)
EXTENDS Registry, Downloads, TLAPS

-----------------------------------------------------------------------------
(* The registry.                                                           *)

(* A process that begins or ends a command leaves the others alone.         *)
LEMMA BeginEffect ==
    ASSUME RegInv, NEW p \in Process, NEW step, NEW rs \in SUBSET Repo,
           Begin(p, step, rs)
    PROVE  /\ doing[p] = "idle" /\ doing' = [doing EXCEPT ![p] = step]
           /\ work' = [work EXCEPT ![p] = rs]
           /\ \A q \in Process : q # p => work[q] \cap rs = {}
           /\ gone[p] = {} /\ Half(p) = {}
BY DEF RegInv, RegTypeOK, WorkInv, Begin, Goes, Free, Half

LEMMA EndEffect ==
    ASSUME RegInv, NEW p \in Process, End(p)
    PROVE  /\ doing' = [doing EXCEPT ![p] = "idle"] /\ work' = [work EXCEPT ![p] = {}]
           /\ seen' = [seen EXCEPT ![p] = NoEntries] /\ gone' = [gone EXCEPT ![p] = {}]
           /\ \A q \in Process : Half(q)' = IF q = p THEN {} ELSE Half(q)
BY DEF RegInv, RegTypeOK, End, Goes, Half

LEMMA NoEntriesType == NoEntries \in Entries
BY DEF NoEntries, Entries

(* Only the repositories of a command end up half dealt with.               *)
LEMMA HalfInWork ==
    ASSUME RegInv, NEW p \in Process
    PROVE  Half(p) \subseteq work[p]
BY DEF RegInv, WorkInv, Half

(* The last step of a command, which writes the registry.                   *)
LEMMA WriteStep ==
    ASSUME RegInv, NEW p \in Process, NEW new \in Entries, NEW shadowed \in SUBSET Repo,
           Write(p, new, shadowed), indexed' = indexed,
           \A r \in work[p] \ shadowed : new[NameOf[r]] = r <=> r \in indexed,
           \A r \in (Repo \ work[p]) \ shadowed :
               seen[p] = entries => (Listed(r) <=> new[NameOf[r]] = r)
    PROVE  RegInv'
<1>1. entries' = new /\ End(p)
  BY DEF Write
<1>2. off' = (off \ work[p]) \cup shadowed \cup
                 IF seen[p] = entries THEN {}
                 ELSE {r \in Repo \ work[p] : Listed(r) # (new[NameOf[r]] = r)}
  BY DEF Write
<1>3. RegTypeOK'
  BY <1>1, <1>2, EndEffect, NoEntriesType DEF RegInv, RegTypeOK
<1>4. WorkInv'
  BY <1>1, EndEffect DEF RegInv, RegTypeOK, WorkInv
<1>5. AgreeInv'
  <2> SUFFICES ASSUME NEW r \in Repo, r \notin off', \A q \in Process : r \notin Half(q)'
               PROVE  Listed(r)' <=> r \in indexed
    BY DEF AgreeInv
  <2>1. Listed(r)' <=> new[NameOf[r]] = r
    BY <1>1 DEF Listed
  <2>2. r \notin shadowed
    BY <1>2
  <2>3. CASE r \in work[p]
    BY <2>1, <2>2, <2>3
  <2>4. CASE r \notin work[p]
    <3>1. \A q \in Process : r \notin Half(q)
      BY <2>4, <1>1, EndEffect, HalfInWork
    <3>2. r \notin off
      BY <1>2, <2>4
    <3>3. Listed(r) <=> r \in indexed
      BY <3>1, <3>2 DEF RegInv, AgreeInv
    <3>4. Listed(r) <=> new[NameOf[r]] = r
      <4>1. CASE seen[p] = entries
        BY <4>1, <2>2, <2>4
      <4>2. CASE seen[p] # entries
        <5>1. Listed(r) \in BOOLEAN /\ (new[NameOf[r]] = r) \in BOOLEAN
          BY DEF Listed
        <5> QED  BY <4>2, <5>1, <1>2, <2>4
      <4> QED  BY <4>1, <4>2
    <3> QED  BY <2>1, <3>3, <3>4
  <2> QED  BY <2>3, <2>4
<1> QED  BY <1>3, <1>4, <1>5 DEF RegInv

(* The last step of a command that has nothing to drop.                     *)
LEMMA NothingStep ==
    ASSUME RegInv, NEW p \in Process, NEW r \in Repo, End(p), work[p] = {r},
           off' = off \ {r}, UNCHANGED <<indexed, entries>>, ~Listed(r), r \notin indexed
    PROVE  RegInv'
<1>1. RegTypeOK'
  BY EndEffect, NoEntriesType DEF RegInv, RegTypeOK
<1>2. WorkInv'
  BY EndEffect DEF RegInv, RegTypeOK, WorkInv
<1>3. AgreeInv'
  <2> SUFFICES ASSUME NEW s \in Repo, s \notin off', \A q \in Process : s \notin Half(q)'
               PROVE  Listed(s) <=> s \in indexed
    BY DEF AgreeInv, Listed
  <2>1. CASE s = r
    BY <2>1
  <2>2. CASE s # r
    <3>1. \A q \in Process : s \notin Half(q)
      BY <2>2, EndEffect, HalfInWork
    <3> QED  BY <3>1, <2>2 DEF RegInv, AgreeInv
  <2> QED  BY <2>1, <2>2
<1> QED  BY <1>1, <1>2, <1>3 DEF RegInv

(* A command begins: with an index that has changed, or with the listing.   *)
LEMMA BeginStep ==
    ASSUME RegInv, NEW p \in Process, NEW r \in Repo, IndexRepo(p, r) \/ CleanOne(p, r)
    PROVE  RegInv'
<1>1. PICK step \in {"indexed", "find"} :
        /\ Begin(p, step, {r})
        /\ indexed' = IF step = "indexed" THEN indexed \cup {r} ELSE indexed \ {r}
        /\ UNCHANGED <<entries, seen, gone, off>>
  BY DEF IndexRepo, CleanOne
<1>2. RegTypeOK'
  BY <1>1, BeginEffect DEF RegInv, RegTypeOK
<1>3. WorkInv'
  BY <1>1, BeginEffect DEF RegInv, RegTypeOK, WorkInv
<1>4. AgreeInv'
  <2> SUFFICES ASSUME NEW s \in Repo, s \notin off, \A q \in Process : s \notin Half(q)'
               PROVE  Listed(s) <=> s \in indexed'
    BY <1>1 DEF AgreeInv, Listed
  <2>1. s # r
    BY <1>1, BeginEffect DEF RegInv, RegTypeOK, Half
  <2>2. \A q \in Process : s \notin Half(q)
    BY <1>1, BeginEffect DEF RegInv, RegTypeOK, Half
  <2> QED  BY <1>1, <2>1, <2>2 DEF RegInv, AgreeInv
<1> QED  BY <1>2, <1>3, <1>4 DEF RegInv

LEMMA CleanAllStep ==
    ASSUME RegInv, NEW p \in Process, CleanAll(p)
    PROVE  RegInv'
<1>1. /\ Begin(p, "clear", Listing) /\ seen' = [seen EXCEPT ![p] = entries]
      /\ UNCHANGED <<indexed, entries, gone, off>>
  BY DEF CleanAll, Read
<1>2. Listing \in SUBSET Repo
  BY DEF RegInv, RegTypeOK, Entries, Listing
<1>3. RegTypeOK'
  BY <1>1, <1>2, BeginEffect DEF RegInv, RegTypeOK
<1>4. \A n \in Name : entries[n] \in Listing \cup {NoRepo}
  BY DEF Listing
<1>5. WorkInv'
  BY <1>1, <1>2, <1>4, BeginEffect DEF RegInv, RegTypeOK, WorkInv
<1>6. AgreeInv'
  <2>1. ASSUME NEW q \in Process
        PROVE  Half(q)' = Half(q)
    <3>1. /\ doing \in [Process -> {"idle", "indexed", "upsert", "find", "drop", "remove", "clear"}]
          /\ work \in [Process -> SUBSET Repo]
      BY DEF RegInv, RegTypeOK
    <3>2. /\ doing' = [doing EXCEPT ![p] = "clear"] /\ work' = [work EXCEPT ![p] = Listing]
          /\ gone' = gone /\ gone[p] = {} /\ Half(p) = {}
      BY <1>1, <1>2, BeginEffect
    <3>3. CASE q = p
      BY <3>1, <3>2, <3>3 DEF Half
    <3>4. CASE q # p
      BY <3>1, <3>2, <3>4 DEF Half
    <3> QED  BY <3>3, <3>4
  <2> QED  BY <1>1, <2>1 DEF RegInv, AgreeInv, Listed
<1> QED  BY <1>3, <1>5, <1>6 DEF RegInv

(* The steps that only read.                                                *)
LEMMA ReadStep ==
    ASSUME RegInv, NEW p \in Process,
           \/ doing[p] = "indexed" /\ Goes(p, "upsert")
           \/ doing[p] = "find" /\ Goes(p, "drop")
           \/ doing[p] = "drop" /\ Goes(p, "remove"),
           seen' = seen \/ Read(p),
           UNCHANGED <<indexed, entries, work, gone, off>>
    PROVE  RegInv'
<1>1. PICK step \in {"upsert", "drop", "remove"} :
        /\ doing' = [doing EXCEPT ![p] = step]
        /\ step = "upsert" <=> doing[p] = "indexed"
        /\ doing[p] \in {"indexed", "find", "drop"}
  BY DEF Goes
<1>2. RegTypeOK'
  BY <1>1 DEF RegInv, RegTypeOK, Read
<1>3. WorkInv'
  BY <1>1 DEF RegInv, RegTypeOK, WorkInv, Read
<1>4. \A q \in Process : Half(q)' = Half(q)
  BY <1>1 DEF RegInv, RegTypeOK, Half
<1> QED  BY <1>2, <1>3, <1>4 DEF RegInv, AgreeInv, Listed

LEMMA UpsertStep ==
    ASSUME RegInv, NEW p \in Process, NEW r \in Repo, UpsertWrite(p, r)
    PROVE  RegInv'
<1>1. /\ work[p] = {r} /\ doing[p] = "upsert" /\ indexed' = indexed
      /\ Write(p, Upserted(p, r), SameName(r))
  BY DEF UpsertWrite
<1>2. Upserted(p, r) \in Entries
  BY RegistryAssumption DEF RegInv, RegTypeOK, Entries, Upserted
<1>3. SameName(r) \in SUBSET Repo /\ r \notin SameName(r)
  BY DEF SameName
<1>4. r \in indexed
  BY <1>1 DEF RegInv, WorkInv
<1>5. Upserted(p, r)[NameOf[r]] = r
  BY RegistryAssumption DEF RegInv, RegTypeOK, Entries, Upserted
<1>6. \A s \in (Repo \ {r}) \ SameName(r) : Upserted(p, r)[NameOf[s]] = seen[p][NameOf[s]]
  BY RegistryAssumption DEF RegInv, RegTypeOK, Entries, Upserted, SameName
<1>7. \A s \in (Repo \ work[p]) \ SameName(r) :
          seen[p] = entries => (Listed(s) <=> Upserted(p, r)[NameOf[s]] = s)
  BY <1>1, <1>6 DEF Listed
<1> QED  BY <1>1, <1>2, <1>3, <1>4, <1>5, <1>7, WriteStep

LEMMA DropStep ==
    ASSUME RegInv, NEW p \in Process, NEW r \in Repo, DropWrite(p, r)
    PROVE  RegInv'
<1> DEFINE new == [seen[p] EXCEPT ![NameOf[r]] = NoRepo]
<1>1. /\ work[p] = {r} /\ doing[p] = "remove" /\ indexed' = indexed
      /\ Write(p, new, SameName(r))
  BY DEF DropWrite
<1>2. new \in Entries
  BY RegistryAssumption DEF RegInv, RegTypeOK, Entries
<1>3. SameName(r) \in SUBSET Repo
  BY DEF SameName
<1>4. r \notin indexed
  BY <1>1 DEF RegInv, WorkInv
<1>5. new[NameOf[r]] # r
  BY RegistryAssumption DEF RegInv, RegTypeOK, Entries
<1>6. \A s \in (Repo \ {r}) \ SameName(r) : new[NameOf[s]] = seen[p][NameOf[s]]
  BY RegistryAssumption DEF RegInv, RegTypeOK, Entries, SameName
<1> HIDE DEF new
<1>7. \A s \in (Repo \ work[p]) \ SameName(r) :
          seen[p] = entries => (Listed(s) <=> new[NameOf[s]] = s)
  BY <1>1, <1>6 DEF Listed
<1> QED  BY <1>1, <1>2, <1>3, <1>4, <1>5, <1>7, WriteStep

(* clean --all. *)
LEMMA RemoveIndexStep ==
    ASSUME RegInv, NEW p \in Process, NEW r \in Repo, RemoveIndex(p, r)
    PROVE  RegInv'
<1>1. /\ doing[p] = "clear" /\ r \in work[p]
      /\ indexed' = indexed \/ indexed' = indexed \ {r}
      /\ gone' = [gone EXCEPT ![p] = gone[p] \cup {r}]
      /\ UNCHANGED <<entries, doing, work, seen, off>>
  BY DEF RemoveIndex
<1>2. RegTypeOK'
  BY <1>1 DEF RegInv, RegTypeOK
<1>3. WorkInv'
  BY <1>1 DEF RegInv, RegTypeOK, WorkInv
<1>4. AgreeInv'
  <2> SUFFICES ASSUME NEW s \in Repo, s \notin off, \A q \in Process : s \notin Half(q)'
               PROVE  Listed(s) <=> s \in indexed'
    BY <1>1 DEF AgreeInv, Listed
  <2>1. s # r /\ \A q \in Process : s \notin Half(q)
    BY <1>1 DEF RegInv, RegTypeOK, Half
  <2> QED  BY <1>1, <2>1 DEF RegInv, AgreeInv
<1> QED  BY <1>2, <1>3, <1>4 DEF RegInv

LEMMA ClearStep ==
    ASSUME RegInv, NEW p \in Process, Clear(p)
    PROVE  RegInv'
<1>1. /\ doing[p] = "clear" /\ gone[p] = work[p] /\ indexed' = indexed
      /\ Write(p, NoEntries, gone[p] \cap indexed)
  BY DEF Clear, Swept
<1>2. NoEntries \in Entries /\ gone[p] \cap indexed \in SUBSET Repo
  BY DEF RegInv, RegTypeOK, Entries, NoEntries
<1>3. \A s \in Repo : NoEntries[NameOf[s]] # s
  BY RegistryAssumption DEF NoEntries
<1>4. \A s \in Repo \ work[p] : seen[p] = entries => ~Listed(s)
  BY <1>1, RegistryAssumption DEF RegInv, WorkInv, Listed
<1> QED  BY <1>1, <1>2, <1>3, <1>4, WriteStep DEF RegInv, RegTypeOK

LEMMA KillStep ==
    ASSUME RegInv, NEW p \in Process, Kill(p)
    PROVE  RegInv'
<1>1. End(p) /\ off' = off \cup Half(p) /\ UNCHANGED <<indexed, entries>>
  BY DEF Kill
<1>2. Half(p) \subseteq Repo
  BY DEF RegInv, RegTypeOK, Half
<1>3. RegTypeOK'
  BY <1>1, <1>2, EndEffect, NoEntriesType DEF RegInv, RegTypeOK
<1>4. WorkInv'
  BY <1>1, EndEffect DEF RegInv, RegTypeOK, WorkInv
<1>5. AgreeInv'
  <2> SUFFICES ASSUME NEW s \in Repo, s \notin off', \A q \in Process : s \notin Half(q)'
               PROVE  Listed(s) <=> s \in indexed
    BY <1>1 DEF AgreeInv, Listed
  <2>1. \A q \in Process : s \notin Half(q)
    BY <1>1, EndEffect
  <2> QED  BY <1>1, <2>1 DEF RegInv, AgreeInv
<1> QED  BY <1>3, <1>4, <1>5 DEF RegInv

LEMMA InitRegInv == RegInit => RegInv
<1> SUFFICES ASSUME RegInit PROVE RegInv
  OBVIOUS
<1>1. RegTypeOK
  BY DEF RegInit, RegTypeOK, Entries, NoEntries
<1>2. WorkInv
  BY DEF RegInit, WorkInv
<1>3. AgreeInv
  BY RegistryAssumption DEF RegInit, AgreeInv, Listed, NoEntries
<1> QED  BY <1>1, <1>2, <1>3 DEF RegInv

LEMMA NextRegInv == RegInv /\ [RegNext]_regVars => RegInv'
<1> SUFFICES ASSUME RegInv, [RegNext]_regVars PROVE RegInv'
  OBVIOUS
<1>1. ASSUME NEW p \in Process, NEW r \in Repo, FindEntry(p, r)
      PROVE  RegInv'
  <2>1. doing[p] = "find" /\ work[p] = {r} /\ UNCHANGED <<indexed, entries>>
    BY <1>1 DEF FindEntry
  <2>2. CASE Listed(r)
    <3>1. Goes(p, "drop") /\ UNCHANGED <<work, seen, gone, off>>
      BY <1>1, <2>2 DEF FindEntry
    <3> QED  BY <2>1, <3>1, ReadStep
  <2>3. CASE ~Listed(r)
    <3>1. End(p) /\ off' = off \ {r}
      BY <1>1, <2>3 DEF FindEntry
    <3>2. r \notin indexed
      BY <2>1 DEF RegInv, WorkInv
    <3> QED  BY <2>1, <2>3, <3>1, <3>2, NothingStep
  <2> QED  BY <2>2, <2>3
<1>2. ASSUME NEW p \in Process, NEW r \in Repo, DropRead(p, r)
      PROVE  RegInv'
  <2>1. doing[p] = "drop" /\ work[p] = {r} /\ UNCHANGED <<indexed, entries>>
    BY <1>2 DEF DropRead
  <2>2. CASE entries[NameOf[r]] # NoRepo
    <3>1. Goes(p, "remove") /\ Read(p) /\ UNCHANGED <<work, gone, off>>
      BY <1>2, <2>2 DEF DropRead
    <3> QED  BY <2>1, <3>1, ReadStep
  <2>3. CASE entries[NameOf[r]] = NoRepo
    <3>1. End(p) /\ off' = off \ {r}
      BY <1>2, <2>3 DEF DropRead
    <3>2. r \notin indexed /\ ~Listed(r)
      BY <2>1, <2>3, RegistryAssumption DEF RegInv, WorkInv, Listed
    <3> QED  BY <2>1, <3>1, <3>2, NothingStep
  <2> QED  BY <2>2, <2>3
<1>3. ASSUME NEW p \in Process, UpsertRead(p)
      PROVE  RegInv'
  BY <1>3, ReadStep DEF UpsertRead
<1>4. CASE UNCHANGED regVars
  <2>1. UNCHANGED <<indexed, entries, doing, work, seen, gone, off>>
    BY <1>4 DEF regVars, procVars
  <2>2. \A q \in Process : Half(q)' = Half(q)
    BY <2>1 DEF Half
  <2> QED  BY <2>1, <2>2 DEF RegInv, RegTypeOK, WorkInv, AgreeInv, Listed
<1> QED  BY <1>1, <1>2, <1>3, <1>4, BeginStep, CleanAllStep, UpsertStep, DropStep,
            RemoveIndexStep, ClearStep, KillStep DEF RegNext

(* What the commands have found and done so far stays true of the registry. *)
THEOREM RegistryInvariance == RegSpec => []RegInv
<1> QED  BY InitRegInv, NextRegInv, PTL DEF RegSpec

(* The registry lists a repository exactly when it is indexed, the named    *)
(* mishaps aside, whatever the processes do at a time.                      *)
THEOREM ListedExactly == RegSpec => []ListedIffIndexed
<1>1. RegInv => ListedIffIndexed
  <2> SUFFICES ASSUME RegInv, NEW r \in Repo \ off, Free({r})
               PROVE  Listed(r) <=> r \in indexed
    BY DEF ListedIffIndexed
  <2>1. \A q \in Process : r \notin Half(q)
    BY HalfInWork DEF Free
  <2> QED  BY <2>1 DEF RegInv, AgreeInv
<1> QED  BY <1>1, RegistryInvariance, PTL

-----------------------------------------------------------------------------
(* Downloads.                                                              *)

LEMMA WholeType ==
    ASSUME NEW v \in Version, NEW form \in {"download", "binary"}
    PROVE  Whole(v, form) \in [Place -> Block]
BY DEF Whole, Block, Place

LEMMA EmptyType == Empty \in [Place -> Block]
BY DEF Empty, Nothing, Block, Place

(* A file of which every block has been written.                           *)
LEMMA WrittenWhole ==
    ASSUME DownInv, NEW p \in Setup, NEW form \in {"download", "binary"},
           Writing(p, form), count[p] = Blocks
    PROVE  tmp # None /\ data[tmp] = Whole(got[p], form)
<1>1. tmp \in File /\ data[tmp] \in [Place -> Block]
  BY DEF DownInv, DownTypeOK, Writing
<1>2. \A i \in Place : data[tmp][i] = <<got[p], form>>
  BY DEF Writing, Place
<1> QED  BY <1>1, <1>2 DEF Whole, Writing

(* Two whole files that are equal are of one version.                      *)
LEMMA WholeIsOne ==
    ASSUME NEW v, NEW w, Whole(v, "download") = Whole(w, "download")
    PROVE  v = w
<1>1. 1 \in Place
  BY DownloadAssumption DEF Place
<1>2. Whole(v, "download")[1] = <<v, "download">> /\ Whole(w, "download")[1] = <<w, "download">>
  BY <1>1 DEF Whole
<1> QED  BY <1>2

(* A setup that starts over or gives up touches its own state only, and is  *)
(* not downloading.                                                        *)
LEMMA ThrowEffect ==
    ASSUME DownTypeOK, NEW p \in Setup, NEW transient \in BOOLEAN,
           at[p] # "idle", Throw(p, transient)
    PROVE  /\ \A q \in Setup : q # p => at'[q] = at[q] /\ out'[q] = out[q]
           /\ at'[p] \in {"unlink", "failed"}
           /\ at' \in [Setup -> Step] /\ try' \in [Setup -> 0 .. Tries]
           /\ out' \in [Setup -> File \cup {None}]
           /\ UNCHANGED <<kind, final, data, pin, count, got, overlapped>>
<1>1. /\ at' \in [Setup -> Step] /\ at'[p] \in {"unlink", "failed"}
      /\ \A q \in Setup : q # p => at'[q] = at[q]
  BY DEF Throw, GoTo, DownTypeOK, Step
<1>2. try' \in [Setup -> 0 .. Tries]
  <2>1. CASE kind = "weights" /\ transient /\ try[p] < Tries
    <3>1. try[p] + 1 \in 0 .. Tries
      BY <2>1, DownloadAssumption DEF DownTypeOK
    <3> QED  BY <2>1, <3>1 DEF Throw, DownTypeOK
  <2>2. CASE ~(kind = "weights" /\ transient /\ try[p] < Tries)
    BY <2>2 DEF Throw, DownTypeOK
  <2> QED  BY <2>1, <2>2
<1>3. /\ out' \in [Setup -> File \cup {None}]
      /\ \A q \in Setup : q # p => out'[q] = out[q]
      /\ UNCHANGED <<kind, final, data, pin, count, got, overlapped>>
  BY DEF Throw, DownTypeOK
<1> QED  BY <1>1, <1>2, <1>3

(* A step of p after which nothing is left of its download, and the         *)
(* temporary path is as it was or removed.                                 *)
LEMMA StopStep ==
    ASSUME DownInv, NEW p \in Setup, DownTypeOK',
           \A q \in Setup : q # p => /\ at'[q] = at[q] /\ pin'[q] = pin[q]
                                     /\ out'[q] = out[q] /\ count'[q] = count[q]
                                     /\ got'[q] = got[q],
           at'[p] \in {"idle", "unlink", "failed", "installed"},
           at'[p] # "idle" => pin'[p] \in Version,
           \/ tmp' = tmp
           \/ tmp' = None /\ Downloading(p),
           UNCHANGED <<kind, final, data, overlapped>>
    PROVE  DownInv'
<1> SUFFICES ASSUME ~overlapped
             PROVE  (Alone /\ FinalGood /\ \A q \in Setup : Progress(q))'
  BY DEF DownInv
<1>1. ~Downloading(p)' /\ \A q \in Setup : q # p => Downloading(q)' = Downloading(q)
  BY DEF Downloading
<1>2. Alone'
  BY <1>1 DEF DownInv, Alone
<1>3. FinalGood'
  BY DEF DownInv, FinalGood, Goods, Whole
<1>4. ASSUME NEW q \in Setup
      PROVE  Progress(q)'
  <2>1. CASE q = p
    BY <2>1 DEF Progress
  <2>2. CASE q # p /\ tmp' = tmp
    <3>1. /\ at'[q] = at[q] /\ pin'[q] = pin[q] /\ out'[q] = out[q]
          /\ count'[q] = count[q] /\ got'[q] = got[q]
          /\ tmp' = tmp /\ data' = data /\ kind' = kind
      BY <2>2
    <3>2. Progress(q)
      BY DEF DownInv
    <3>3. ASSUME NEW form, Writing(q, form)
          PROVE  Writing(q, form)'
      BY <3>1, <3>3 DEF Writing
    <3>4. Whole(pin[q], "download")' = Whole(pin[q], "download")
      BY <3>1 DEF Whole
    <3> QED  BY <3>1, <3>2, <3>3, <3>4 DEF Progress
  <2>3. CASE q # p /\ Downloading(p)
    <3>1. ~Downloading(q) /\ at'[q] = at[q] /\ pin'[q] = pin[q]
      BY <2>3 DEF DownInv, Alone
    <3> QED  BY <3>1 DEF DownInv, Progress, Downloading
  <2> QED  BY <2>1, <2>2, <2>3
<1> QED  BY <1>2, <1>3, <1>4

(* A step of p that goes on with its download keeps it the only one.        *)
LEMMA WorkStep ==
    ASSUME DownInv, NEW p \in Setup, DownTypeOK', Downloading(p),
           \A q \in Setup : q # p => at'[q] = at[q] /\ pin'[q] = pin[q],
           UNCHANGED overlapped,
           ~overlapped => FinalGood' /\ Progress(p)'
    PROVE  DownInv'
<1> SUFFICES ASSUME ~overlapped
             PROVE  (Alone /\ \A q \in Setup : Progress(q))'
  BY DEF DownInv
<1>1. \A q \in Setup : q # p => ~Downloading(q) /\ Downloading(q)' = Downloading(q)
  BY DEF DownInv, Alone, Downloading
<1>2. Alone'
  BY <1>1 DEF Alone
<1>3. ASSUME NEW q \in Setup
      PROVE  Progress(q)'
  <2>1. CASE q = p
    BY <2>1
  <2>2. CASE q # p
    BY <2>2, <1>1 DEF DownInv, Progress, Downloading
  <2> QED  BY <2>1, <2>2
<1> QED  BY <1>2, <1>3

(* The temporary path is opened: never the file at the final path.          *)
LEMMA OpenEffect ==
    ASSUME DownInv, NEW p \in Setup, NEW v \in Version \cup {None}, OpenTmp(p, v)
    PROVE  /\ tmp' \in File /\ tmp' # None
           /\ data' \in [File -> [Place -> Block]]
           /\ \A f \in File : f # tmp' => data'[f] = data[f]
           /\ ~overlapped /\ final # None => final # tmp'
           /\ out' \in [Setup -> File \cup {None}] /\ out'[p] = tmp'
           /\ count' \in [Setup -> 0 .. Blocks] /\ count'[p] = 0
           /\ got' \in [Setup -> Version \cup {None}] /\ got'[p] = v
<1>1. OpenFile \in File /\ (OpenFile = tmp \/ OpenFile \notin Used)
  <2>1. CASE tmp # None
    BY <2>1 DEF OpenFile, DownInv, DownTypeOK
  <2>2. CASE tmp = None /\ File \ Used # {}
    <3>1. \E f \in File : f \notin Used
      BY <2>2
    <3> QED  BY <2>2, <3>1 DEF OpenFile
  <2> QED  BY <2>1, <2>2 DEF OpenTmp
<1>2. tmp' = OpenFile /\ tmp' # None
  BY <1>1, DownloadAssumption DEF OpenTmp
<1>3. ~overlapped /\ final # None => final # tmp'
  BY <1>1, <1>2 DEF DownInv, FinalGood, Used
<1>4. data' \in [File -> [Place -> Block]] /\ \A f \in File : f # tmp' => data'[f] = data[f]
  BY <1>1, <1>2, EmptyType DEF OpenTmp, DownInv, DownTypeOK
<1>5. 0 \in 0 .. Blocks
  BY DownloadAssumption
<1>6. /\ out' \in [Setup -> File \cup {None}] /\ out'[p] = tmp'
      /\ count' \in [Setup -> 0 .. Blocks] /\ count'[p] = 0
      /\ got' \in [Setup -> Version \cup {None}] /\ got'[p] = v
  BY <1>1, <1>2, <1>5 DEF OpenTmp, DownInv, DownTypeOK
<1> QED  BY <1>1, <1>2, <1>3, <1>4, <1>6

(* The file at the final path stays good while it is not written.           *)
LEMMA FinalKept ==
    ASSUME FinalGood, DownTypeOK, final' = final, kind' = kind,
           final # None => final # tmp' /\ data'[final] = data[final]
    PROVE  FinalGood'
BY DEF FinalGood, Goods, Whole, DownTypeOK

-----------------------------------------------------------------------------
LEMMA BeginKeeps ==
    ASSUME DownInv, NEW p \in Setup, NEW v \in Version, NEW force \in BOOLEAN,
           BeginSetup(p, v, force)
    PROVE  DownInv'
<1>1. 1 \in 0 .. Tries
  BY DownloadAssumption
<1>2. DownTypeOK'
  BY <1>1 DEF DownInv, DownTypeOK, BeginSetup, GoTo, Step, fileVars
<1>3. at'[p] \in {"unlink", "installed"} /\ pin'[p] = v
  BY DEF DownInv, DownTypeOK, BeginSetup, GoTo
<1>4. \A q \in Setup : q # p => /\ at'[q] = at[q] /\ pin'[q] = pin[q]
                                /\ out'[q] = out[q] /\ count'[q] = count[q]
                                /\ got'[q] = got[q]
  BY DEF DownInv, DownTypeOK, BeginSetup, GoTo
<1> QED  BY <1>2, <1>3, <1>4, StopStep DEF BeginSetup, fileVars

LEMMA UnlinkKeeps ==
    ASSUME DownInv, NEW p \in Setup, Unlink(p)
    PROVE  DownInv'
<1>1. DownTypeOK'
  BY DEF DownInv, DownTypeOK, Unlink, GoTo, Step
<1> SUFFICES ASSUME ~overlapped'
             PROVE  (Alone /\ FinalGood /\ \A q \in Setup : Progress(q))'
  BY <1>1 DEF DownInv
<1>2. ~overlapped /\ \A q \in Setup : ~Downloading(q)
  BY DEF Unlink
<1>3. at'[p] = "fetch" /\ \A q \in Setup : q # p => at'[q] = at[q]
  BY DEF Unlink, GoTo, DownInv, DownTypeOK
<1>4. Alone'
  BY <1>2, <1>3 DEF Alone, Downloading
<1>5. FinalGood'
  <2>1. tmp' = None /\ final' = final /\ data' = data /\ kind' = kind
    BY DEF Unlink
  <2> QED  BY <1>2, <2>1, FinalKept DEF DownInv
<1>6. ASSUME NEW q \in Setup
      PROVE  Progress(q)'
  <2>1. pin' = pin /\ (at[q] # "idle" => pin[q] \in Version)
    BY <1>2 DEF Unlink, DownInv, Progress
  <2>2. at'[q] = "fetch" \/ (at'[q] = at[q] /\ ~Downloading(q))
    BY <1>2, <1>3
  <2>3. at'[q] # "idle" => at[q] # "idle"
    BY <1>3 DEF Unlink
  <2> QED  BY <2>1, <2>2, <2>3 DEF Progress, Downloading
<1> QED  BY <1>4, <1>5, <1>6

LEMMA ThrowKeeps ==
    ASSUME DownInv, NEW p \in Setup, NEW transient \in BOOLEAN, Downloading(p),
           Throw(p, transient), tmp' = tmp \/ tmp' = None
    PROVE  DownInv'
<1>1. at[p] # "idle"
  BY DEF Downloading
<1>2. /\ \A q \in Setup : q # p => at'[q] = at[q] /\ out'[q] = out[q]
      /\ at'[p] \in {"unlink", "failed"}
      /\ at' \in [Setup -> Step] /\ try' \in [Setup -> 0 .. Tries]
      /\ out' \in [Setup -> File \cup {None}]
      /\ UNCHANGED <<kind, final, data, pin, count, got, overlapped>>
  BY <1>1, ThrowEffect DEF DownInv
<1>3. DownTypeOK'
  BY <1>2 DEF DownInv, DownTypeOK
<1>4. CASE overlapped
  BY <1>2, <1>3, <1>4 DEF DownInv
<1>5. CASE ~overlapped
  <2>1. pin'[p] \in Version
    BY <1>1, <1>2, <1>5 DEF DownInv, Progress
  <2> QED  BY <1>2, <1>3, <2>1, StopStep
<1> QED  BY <1>4, <1>5 DEF DownInv, DownTypeOK

LEMMA FetchedKeeps ==
    ASSUME DownInv, NEW p \in Setup, NEW v \in Version \cup {None}, Fetched(p, v)
    PROVE  DownInv'
<1>1. at' \in [Setup -> Step] /\ at'[p] = "stream" /\ \A q \in Setup : q # p => at'[q] = at[q]
  BY DEF Fetched, GoTo, Step, DownInv, DownTypeOK
<1>2. OpenTmp(p, v) /\ UNCHANGED <<kind, final, pin, try, overlapped>>
  BY DEF Fetched, OpenTmp
<1>3. DownTypeOK'
  BY <1>1, <1>2, OpenEffect DEF DownInv, DownTypeOK
<1>4. ASSUME ~overlapped
      PROVE  FinalGood' /\ Progress(p)'
  <2>1. FinalGood'
    BY <1>2, <1>4, OpenEffect, FinalKept DEF DownInv, DownTypeOK
  <2>2. pin'[p] \in Version
    BY <1>2, <1>4 DEF Fetched, DownInv, Progress
  <2>3. Writing(p, "download")'
    BY <1>2, OpenEffect DEF Writing
  <2> QED  BY <1>1, <2>1, <2>2, <2>3 DEF Progress
<1> QED  BY <1>1, <1>2, <1>3, <1>4, WorkStep DEF Fetched, Downloading

LEMMA ReplaceKeeps ==
    ASSUME DownInv, NEW p \in Setup, Replace(p)
    PROVE  DownInv'
<1>1. at' \in [Setup -> Step] /\ at'[p] = "extract" /\ \A q \in Setup : q # p => at'[q] = at[q]
  BY DEF Replace, GoTo, Step, DownInv, DownTypeOK
<1>2. /\ OpenTmp(p, got[p]) /\ UNCHANGED <<kind, final, pin, try, overlapped>>
      /\ got[p] \in Version \cup {None}
  BY DEF Replace, OpenTmp, DownInv, DownTypeOK
<1>3. DownTypeOK'
  BY <1>1, <1>2, OpenEffect DEF DownInv, DownTypeOK
<1>4. ASSUME ~overlapped
      PROVE  FinalGood' /\ Progress(p)'
  <2>1. FinalGood'
    BY <1>2, <1>4, OpenEffect, FinalKept DEF DownInv, DownTypeOK
  <2>2. pin'[p] \in Version /\ kind' = "archive" /\ got'[p] = pin'[p]
    BY <1>2, <1>4, OpenEffect DEF Replace, DownInv, Progress
  <2>3. Writing(p, "binary")'
    BY <1>2, OpenEffect DEF Writing
  <2> QED  BY <1>1, <2>1, <2>2, <2>3 DEF Progress
<1> QED  BY <1>1, <1>2, <1>3, <1>4, WorkStep DEF Replace, Downloading

LEMMA WrittenKeeps ==
    ASSUME DownInv, NEW p \in Setup, NEW form \in {"download", "binary"},
           at[p] = IF form = "download" THEN "stream" ELSE "extract", Written(p, form)
    PROVE  DownInv'
<1> DEFINE n == count[p] + 1
<1>1. n \in Place /\ n \in 0 .. Blocks /\ count[p] \in Nat
  BY DownloadAssumption DEF Written, Place, DownInv, DownTypeOK
<1>2. count' \in [Setup -> 0 .. Blocks] /\ count'[p] = n
  BY <1>1 DEF Written, DownInv, DownTypeOK
<1>3. <<got[p], form>> \in Block
  BY DEF Block, DownInv, DownTypeOK
<1>4. data' \in [File -> [Place -> Block]]
  <2>1. CASE out[p] \in File
    <3>1. [data[out[p]] EXCEPT ![n] = <<got[p], form>>] \in [Place -> Block]
      BY <1>3, <2>1 DEF DownInv, DownTypeOK
    <3>2. data' = [data EXCEPT ![out[p]] = [data[out[p]] EXCEPT ![n] = <<got[p], form>>]]
      BY DEF Written
    <3> QED  BY <3>1, <3>2, <2>1 DEF DownInv, DownTypeOK
  <2>2. CASE out[p] \notin File
    <3>1. data' = data
      BY <2>2 DEF Written, DownInv, DownTypeOK
    <3> QED  BY <3>1 DEF DownInv, DownTypeOK
  <2> QED  BY <2>1, <2>2
<1>5. UNCHANGED <<kind, tmp, final, at, pin, out, got, try, overlapped>>
  BY DEF Written
<1>6. DownTypeOK'
  BY <1>2, <1>4, <1>5 DEF DownInv, DownTypeOK
<1>7. ASSUME ~overlapped
      PROVE  FinalGood' /\ Progress(p)'
  <2>1. Writing(p, form) /\ tmp \in File
    BY <1>7 DEF DownInv, DownTypeOK, Progress, Writing
  <2>2. \A f \in File : f # tmp => data'[f] = data[f]
    BY <2>1 DEF Written, Writing, DownInv, DownTypeOK
  <2>3. FinalGood'
    BY <1>5, <1>7, <2>2, FinalKept DEF DownInv, DownTypeOK, FinalGood
  <2>4. Writing(p, form)'
    <3>1. data'[tmp] = [data[tmp] EXCEPT ![n] = <<got[p], form>>]
      BY <2>1 DEF Written, Writing, DownInv, DownTypeOK
    <3>2. data[tmp] \in [Place -> Block]
      BY <2>1 DEF DownInv, DownTypeOK
    <3>3. ASSUME NEW i \in 1 .. n
          PROVE  data'[tmp][i] = <<got[p], form>>
      <4>1. i \in Place
        BY <1>1, DownloadAssumption DEF Place
      <4>2. CASE i = n
        BY <3>1, <3>2, <4>1, <4>2
      <4>3. CASE i # n
        <5>1. i \in 1 .. count[p]
          BY <1>1, <4>3
        <5>2. data'[tmp][i] = data[tmp][i]
          BY <3>1, <3>2, <4>1, <4>3
        <5> QED  BY <5>1, <5>2, <2>1 DEF Writing
      <4> QED  BY <4>2, <4>3
    <3> QED  BY <3>3, <1>2, <1>5, <2>1 DEF Writing
  <2>5. Progress(p)
    BY <1>7 DEF DownInv
  <2> QED  BY <1>5, <2>3, <2>4, <2>5 DEF Progress
<1>8. Downloading(p)
  BY DEF Downloading
<1> QED  BY <1>5, <1>6, <1>7, <1>8, WorkStep

LEMMA VerifyKeeps ==
    ASSUME DownInv, NEW p \in Setup, Verify(p)
    PROVE  DownInv'
<1>1. Downloading(p)
  BY DEF Verify, Downloading
<1>2. CASE ~Verified(p)
  BY <1>1, <1>2, ThrowKeeps DEF Verify
<1>3. CASE Verified(p)
  <2>1. /\ at' = [at EXCEPT ![p] = IF kind = "archive" THEN "unpack" ELSE "rename"]
        /\ out' = [out EXCEPT ![p] = None]
        /\ UNCHANGED <<kind, tmp, final, data, pin, count, got, try, overlapped>>
    BY <1>3 DEF Verify, GoTo, fileVars
  <2>2. DownTypeOK'
    BY <2>1 DEF DownInv, DownTypeOK, Step
  <2>3. at'[p] = IF kind = "archive" THEN "unpack" ELSE "rename"
    BY <2>1 DEF DownInv, DownTypeOK
  <2>4. ASSUME ~overlapped
        PROVE  FinalGood' /\ Progress(p)'
    <3>1. FinalGood'
      BY <2>1, <2>4, FinalKept DEF DownInv, FinalGood
    <3>2. Writing(p, "download") /\ pin[p] \in Version
      BY <2>4 DEF DownInv, Progress, Verify
    <3>3. tmp # None /\ data[tmp] = Whole(pin[p], "download")
      BY <1>3, <3>2, WrittenWhole DEF Verify, Verified
    <3>4. (tmp # None /\ data[tmp] = Whole(pin[p], "download"))' /\ pin'[p] \in Version
      BY <2>1, <3>2, <3>3 DEF Whole
    <3> QED  BY <2>1, <2>3, <3>1, <3>4 DEF Progress
  <2>5. \A q \in Setup : q # p => at'[q] = at[q] /\ pin'[q] = pin[q]
    BY <2>1 DEF DownInv, DownTypeOK
  <2> QED  BY <1>1, <2>1, <2>2, <2>4, <2>5, WorkStep
<1> QED  BY <1>2, <1>3

LEMMA UnpackKeeps ==
    ASSUME DownInv, NEW p \in Setup, Unpack(p)
    PROVE  DownInv'
<1>1. at[p] = "unpack" /\ Downloading(p)
  BY DEF Unpack, Downloading
<1>2. CASE Throw(p, FALSE) /\ UNCHANGED tmp
  BY <1>1, <1>2, ThrowKeeps
<1>3. ASSUME NEW v \in Archived, got' = [got EXCEPT ![p] = v], GoTo(p, "replace"),
             UNCHANGED <<kind, fileVars, pin, out, count, try, overlapped>>
      PROVE  DownInv'
  <2>1. v \in Version /\ tmp # None /\ data[tmp] = Whole(v, "download")
    BY <1>3 DEF Archived
  <2>2. DownTypeOK'
    BY <1>3, <2>1 DEF DownInv, DownTypeOK, GoTo, Step, fileVars
  <2>3. at'[p] = "replace" /\ got'[p] = v /\ \A q \in Setup : q # p => at'[q] = at[q]
    BY <1>3 DEF DownInv, DownTypeOK, GoTo
  <2>4. ASSUME ~overlapped
        PROVE  FinalGood' /\ Progress(p)'
    <3>1. FinalGood'
      BY <1>3, <2>4, FinalKept DEF DownInv, FinalGood, fileVars
    <3>2. kind = "archive" /\ pin[p] \in Version /\ data[tmp] = Whole(pin[p], "download")
      BY <1>1, <2>4 DEF DownInv, Progress
    <3>3. v = pin[p]
      BY <2>1, <3>2, WholeIsOne
    <3> QED  BY <1>3, <2>3, <3>1, <3>2, <3>3 DEF Progress
  <2> QED  BY <1>1, <1>3, <2>2, <2>3, <2>4, WorkStep
<1> QED  BY <1>2, <1>3 DEF Unpack

(* What is renamed to the final path, unless downloads have overlapped.     *)
LEMMA RenamesGoods ==
    ASSUME DownInv, ~overlapped, NEW p \in Setup, ReadyToRename(p)
    PROVE  pin[p] \in Version /\ tmp # None /\ data[tmp] = Goods(pin[p])
<1>1. Progress(p)
  BY DEF DownInv
<1>2. CASE at[p] = "rename"
  BY <1>1, <1>2 DEF Progress, Goods
<1>3. CASE at[p] = "extract" /\ count[p] = Blocks
  BY <1>1, <1>3, WrittenWhole DEF Progress, Goods
<1> QED  BY <1>1, <1>2, <1>3 DEF ReadyToRename, Progress

LEMMA RenameKeeps ==
    ASSUME DownInv, NEW p \in Setup, Rename(p)
    PROVE  DownInv'
<1>1. Downloading(p) /\ at[p] # "idle" /\ ReadyToRename(p)
  BY DEF Rename, ReadyToRename, Downloading
<1>2. CASE Throw(p, FALSE) /\ UNCHANGED tmp
  BY <1>1, <1>2, ThrowKeeps
<1>3. CASE /\ tmp # None
           /\ final' = tmp /\ tmp' = None
           /\ out' = [out EXCEPT ![p] = None]
           /\ GoTo(p, "installed")
           /\ UNCHANGED <<kind, data, pin, count, got, try, overlapped>>
  <2>1. DownTypeOK'
    BY <1>3 DEF DownInv, DownTypeOK, GoTo, Step
  <2>2. at'[p] = "installed" /\ \A q \in Setup : q # p => at'[q] = at[q] /\ pin'[q] = pin[q]
    BY <1>3 DEF DownInv, DownTypeOK, GoTo
  <2>3. ASSUME ~overlapped
        PROVE  FinalGood' /\ Progress(p)'
    <3>1. pin[p] \in Version /\ data[tmp] = Goods(pin[p])
      BY <1>1, <2>3, RenamesGoods
    <3>2. FinalGood'
      BY <1>3, <3>1 DEF FinalGood, Goods, Whole
    <3>3. Progress(p)'
      BY <1>3, <2>2, <3>1 DEF Progress
    <3> QED  BY <3>2, <3>3
  <2> QED  BY <1>1, <1>3, <2>1, <2>2, <2>3, WorkStep
<1> QED  BY <1>2, <1>3 DEF Rename

LEMMA GoneKeeps ==
    ASSUME DownInv, NEW p \in Setup, Gone(p)
    PROVE  DownInv'
<1>1. 0 \in 0 .. Tries /\ 0 \in 0 .. Blocks
  BY DownloadAssumption
<1>2. DownTypeOK'
  BY <1>1 DEF DownInv, DownTypeOK, Gone, GoTo, Step, fileVars
<1>3. at'[p] = "idle"
  BY DEF DownInv, DownTypeOK, Gone, GoTo
<1>4. \A q \in Setup : q # p => /\ at'[q] = at[q] /\ pin'[q] = pin[q]
                                /\ out'[q] = out[q] /\ count'[q] = count[q]
                                /\ got'[q] = got[q]
  BY DEF DownInv, DownTypeOK, Gone, GoTo
<1> QED  BY <1>2, <1>3, <1>4, StopStep DEF Gone, fileVars

-----------------------------------------------------------------------------
LEMMA DownInvInit == DownInit => DownInv
<1> SUFFICES ASSUME DownInit
             PROVE  DownInv
  OBVIOUS
<1>1. 0 \in 0 .. Tries /\ 0 \in 0 .. Blocks
  BY DownloadAssumption
<1>2. DownTypeOK
  BY <1>1, EmptyType DEF DownInit, DownTypeOK, Step
<1>3. Alone /\ FinalGood
  BY DEF DownInit, Alone, Downloading, FinalGood
<1>4. \A p \in Setup : Progress(p)
  BY DEF DownInit, Progress
<1> QED  BY <1>2, <1>3, <1>4 DEF DownInv

LEMMA DownInvStep == DownInv /\ [DownNext]_downVars => DownInv'
<1> SUFFICES ASSUME DownInv, [DownNext]_downVars
             PROVE  DownInv'
  OBVIOUS
<1>1. CASE UNCHANGED downVars
  <2>1. /\ kind' = kind /\ tmp' = tmp /\ final' = final /\ data' = data
        /\ at' = at /\ pin' = pin /\ out' = out /\ count' = count /\ got' = got
        /\ try' = try /\ overlapped' = overlapped
    BY <1>1 DEF downVars, fileVars, setupVars
  <2>2. DownTypeOK'
    BY <2>1 DEF DownInv, DownTypeOK
  <2>3. ASSUME ~overlapped PROVE Alone'
    BY <2>1, <2>3 DEF DownInv, Alone, Downloading
  <2>4. ASSUME ~overlapped PROVE FinalGood'
    BY <2>1, <2>4 DEF DownInv, FinalGood, Goods, Whole
  <2>5. ASSUME ~overlapped, NEW p \in Setup PROVE Progress(p)'
    <3>1. Progress(p)
      BY <2>5 DEF DownInv
    <3> QED  BY <2>1, <3>1 DEF Progress, Writing, Whole
  <2> QED  BY <2>1, <2>2, <2>3, <2>4, <2>5 DEF DownInv
<1>2. ASSUME NEW p \in Setup, NEW v \in Version, NEW force \in BOOLEAN,
             BeginSetup(p, v, force)
      PROVE  DownInv'
  BY <1>2, BeginKeeps
<1>3. ASSUME NEW p \in Setup, Unlink(p)
      PROVE  DownInv'
  BY <1>3, UnlinkKeeps
<1>4. ASSUME NEW p \in Setup, NEW v \in Version \cup {None}, Fetched(p, v)
      PROVE  DownInv'
  BY <1>4, FetchedKeeps
<1>5. ASSUME NEW p \in Setup, NEW transient \in BOOLEAN,
             FetchFails(p, transient) \/ StreamFails(p, transient)
      PROVE  DownInv'
  BY <1>5, ThrowKeeps DEF FetchFails, StreamFails, Downloading
<1>6. ASSUME NEW p \in Setup, Stream(p)
      PROVE  DownInv'
  BY <1>6, WrittenKeeps DEF Stream
<1>7. ASSUME NEW p \in Setup, Verify(p)
      PROVE  DownInv'
  BY <1>7, VerifyKeeps
<1>8. ASSUME NEW p \in Setup, Unpack(p)
      PROVE  DownInv'
  BY <1>8, UnpackKeeps
<1>9. ASSUME NEW p \in Setup, Replace(p)
      PROVE  DownInv'
  BY <1>9, ReplaceKeeps
<1>10. ASSUME NEW p \in Setup, Extract(p)
       PROVE  DownInv'
  BY <1>10, WrittenKeeps DEF Extract
<1>11. ASSUME NEW p \in Setup, Rename(p)
       PROVE  DownInv'
  BY <1>11, RenameKeeps
<1>12. ASSUME NEW p \in Setup, Leave(p) \/ Die(p)
       PROVE  DownInv'
  BY <1>12, GoneKeeps DEF Leave, Die
<1>13. ASSUME NEW p \in Setup, FileFails(p)
       PROVE  DownInv'
  BY <1>13, ThrowKeeps DEF FileFails, Downloading
<1> QED  BY <1>1, <1>2, <1>3, <1>4, <1>5, <1>6, <1>7, <1>8, <1>9, <1>10, <1>11, <1>12,
            <1>13 DEF DownNext

(* The inductive invariant holds in every reachable state: one download at  *)
(* a time owns the temporary path, and the final path is another file.      *)
THEOREM DownInvariance == DownSpec => []DownInv
<1> QED  BY DownInvInit, DownInvStep, PTL DEF DownSpec

(* However setups fail, retry or die, the final path has nothing or the     *)
(* whole file of some release, unless two downloads were under way at once. *)
THEOREM FinalWhole == DownSpec => []FinalIsWhole
<1>1. DownInv => FinalIsWhole
  BY DEF DownInv, FinalGood, FinalIsWhole
<1> QED  BY <1>1, DownInvariance, PTL

(* A setup that reports success leaves the version it pins, or skipped an   *)
(* archive whose binary is whole.                                          *)
THEOREM ReportTrue == DownSpec => ReportIsTrue
<1> DEFINE Report == \A p \in Setup :
               at[p] # "installed" /\ at'[p] = "installed" /\ ~overlapped =>
                   \E v \in Version :
                       /\ data'[final'] = Goods(v)
                       /\ v = pin'[p] \/ (kind = "archive" /\ at[p] = "idle")
<1>1. ASSUME DownInv, DownNext
      PROVE  Report
  <2> SUFFICES ASSUME NEW p \in Setup, at[p] # "installed", at'[p] = "installed", ~overlapped
               PROVE  \E v \in Version :
                         /\ data'[final'] = Goods(v)
                         /\ v = pin'[p] \/ (kind = "archive" /\ at[p] = "idle")
    OBVIOUS
  <2>1. \/ \E v \in Version, force \in BOOLEAN : BeginSetup(p, v, force)
        \/ Rename(p)
    <3>1. PICK q \in Setup :
              \/ \E v \in Version, force \in BOOLEAN : BeginSetup(q, v, force)
              \/ Unlink(q)
              \/ \E v \in Version \cup {None} : Fetched(q, v)
              \/ \E transient \in BOOLEAN : FetchFails(q, transient) \/ StreamFails(q, transient)
              \/ Stream(q) \/ Verify(q) \/ Unpack(q) \/ Replace(q) \/ Extract(q)
              \/ Rename(q) \/ FileFails(q) \/ Leave(q) \/ Die(q)
      BY <1>1 DEF DownNext
    <3>2. at \in [Setup -> Step] /\ at' # at
      BY <1>1 DEF DownInv, DownTypeOK
    <3>3. CASE \E v \in Version, force \in BOOLEAN : BeginSetup(q, v, force)
      <4>1. q = p
        BY <3>2, <3>3 DEF BeginSetup, GoTo
      <4> QED  BY <3>3, <4>1
    <3>4. CASE Rename(q)
      <4>1. q = p
        BY <3>2, <3>4 DEF Rename, GoTo, Throw
      <4> QED  BY <3>4, <4>1
    <3>5. CASE Unlink(q) \/ Verify(q) \/ Unpack(q) \/ Replace(q) \/ Leave(q) \/ Die(q)
      BY <3>2, <3>5 DEF Unlink, Verify, Unpack, Replace, Leave, Die, Gone, GoTo, Throw
    <3>6. CASE Stream(q) \/ Extract(q)
      BY <3>2, <3>6 DEF Stream, Extract, Written
    <3>7. CASE \E v \in Version \cup {None} : Fetched(q, v)
      BY <3>2, <3>7 DEF Fetched, GoTo
    <3>8. CASE \E transient \in BOOLEAN : FetchFails(q, transient) \/ StreamFails(q, transient)
      BY <3>2, <3>8 DEF FetchFails, StreamFails, Throw, GoTo
    <3>9. CASE FileFails(q)
      BY <3>2, <3>9 DEF FileFails, Throw, GoTo
    <3> QED  BY <3>1, <3>3, <3>4, <3>5, <3>6, <3>7, <3>8, <3>9
  <2>2. ASSUME NEW v \in Version, NEW force \in BOOLEAN, BeginSetup(p, v, force)
        PROVE  \E w \in Version :
                  /\ data'[final'] = Goods(w)
                  /\ w = pin'[p] \/ (kind = "archive" /\ at[p] = "idle")
    <3>1. at[p] = "idle" /\ pin'[p] = v /\ data' = data /\ final' = final
      BY <2>2, <1>1 DEF BeginSetup, fileVars, DownInv, DownTypeOK
    <3>2. Skips(v)
      BY <2>2, <1>1 DEF BeginSetup, GoTo, DownInv, DownTypeOK
    <3>3. CASE kind = "archive"
      <4>1. \E w \in Version : data[final] = Goods(w)
        BY <1>1, <3>2 DEF DownInv, FinalGood, Skips
      <4> QED  BY <3>1, <3>3, <4>1
    <3>4. CASE kind # "archive"
      BY <3>1, <3>2, <3>4 DEF Skips
    <3> QED  BY <3>3, <3>4
  <2>3. CASE Rename(p)
    <3>1. pin[p] \in Version /\ tmp # None /\ data[tmp] = Goods(pin[p])
      BY <1>1, <2>3, RenamesGoods DEF Rename
    <3>2. final' = tmp /\ data' = data /\ pin' = pin
      BY <2>3, <3>1 DEF Rename
    <3> QED  BY <3>1, <3>2
  <2> QED  BY <2>1, <2>2, <2>3
<1>2. DownInv /\ [DownNext]_downVars => [Report]_downVars
  BY <1>1
<1> QED  BY <1>2, DownInvariance, PTL DEF DownSpec, ReportIsTrue
=============================================================================

------------------------------- MODULE Registry -------------------------------
(***************************************************************************)
(* The list of indexed repositories, ~/.codehub/registry.json, as the      *)
(* processes of one user keep it (packages/cli/src/registry.ts, commands/  *)
(* analyze.ts, index-repo.ts, clean.ts). Each change reads the file and    *)
(* writes it again, atomically but without a lock. An entry is filed under *)
(* the base name of its repository, which two repositories may share.      *)
(***************************************************************************)
EXTENDS Integers

CONSTANTS Process, Repo, Name, NameOf, NoRepo

ASSUME RegistryAssumption ==
    /\ NameOf \in [Repo -> Name]
    /\ NoRepo \notin Repo

VARIABLES
    indexed,        \* repositories with an index, the directory .codehub
    entries,        \* registry.json: the repository listed under a name
    doing,          \* where each process is
    work,           \* the repositories its command is about
    seen,           \* what it read
    gone,           \* clean --all: the indexes it has removed or failed to
    off             \* repositories a mishap listed or unlisted (history)

procVars == <<doing, work, seen, gone>>
regVars == <<indexed, entries, procVars, off>>

Entries == [Name -> Repo \cup {NoRepo}]
NoEntries == [n \in Name |-> NoRepo]
Listed(r) == entries[NameOf[r]] = r

RegTypeOK ==
    /\ indexed \subseteq Repo
    /\ entries \in Entries
    /\ doing \in [Process ->
                    {"idle", "indexed", "upsert", "find", "drop", "remove", "clear"}]
    /\ work \in [Process -> SUBSET Repo]
    /\ seen \in [Process -> Entries]
    /\ gone \in [Process -> SUBSET Repo]
    /\ off \subseteq Repo

RegInit ==
    /\ indexed = {}
    /\ entries = NoEntries
    /\ doing = [p \in Process |-> "idle"]
    /\ work = [p \in Process |-> {}]
    /\ seen = [p \in Process |-> NoEntries]
    /\ gone = [p \in Process |-> {}]
    /\ off = {}

-----------------------------------------------------------------------------
(* Assumed of the user: no two commands about one repository at a time.    *)
Free(rs) == \A q \in Process : work[q] \cap rs = {}

Goes(p, step) == doing' = [doing EXCEPT ![p] = step]

Begin(p, step, rs) ==
    /\ doing[p] = "idle" /\ Free(rs)
    /\ Goes(p, step)
    /\ work' = [work EXCEPT ![p] = rs]

(* readRegistry *)
Read(p) == seen' = [seen EXCEPT ![p] = entries]

End(p) ==
    /\ Goes(p, "idle")
    /\ work' = [work EXCEPT ![p] = {}]
    /\ seen' = [seen EXCEPT ![p] = NoEntries]
    /\ gone' = [gone EXCEPT ![p] = {}]

(* writeRegistry, the last step of a command. A write from a stale read is  *)
(* to blame for every entry it changes; a repository that loses its name   *)
(* to another, and those of the command itself, are dealt with apart.      *)
Write(p, new, shadowed) ==
    /\ entries' = new
    /\ off' = (off \ work[p]) \cup shadowed \cup
                 IF seen[p] = entries THEN {}
                 ELSE {r \in Repo \ work[p] : Listed(r) # (new[NameOf[r]] = r)}
    /\ End(p)

(* analyze has stored the index; index finds it stored.                    *)
IndexRepo(p, r) ==
    /\ Begin(p, "indexed", {r})
    /\ indexed' = indexed \cup {r}
    /\ UNCHANGED <<entries, seen, gone, off>>

UpsertRead(p) ==
    /\ doing[p] = "indexed"
    /\ Read(p)
    /\ Goes(p, "upsert")
    /\ UNCHANGED <<indexed, entries, work, gone, off>>

(* The entry of r next to all the others.                                  *)
Upserted_Only(p, r) == [NoEntries EXCEPT ![NameOf[r]] = r]
Upserted(p, r) == [seen[p] EXCEPT ![NameOf[r]] = r]

SameName(r) == {s \in Repo \ {r} : NameOf[s] = NameOf[r]}

UpsertWrite(p, r) ==
    /\ doing[p] = "upsert" /\ work[p] = {r}
    /\ Write(p, Upserted(p, r), SameName(r))
    /\ UNCHANGED indexed

(* clean removes the index first, then looks for an entry with its path.   *)
CleanOne(p, r) ==
    /\ Begin(p, "find", {r})
    /\ indexed' = indexed \ {r}
    /\ UNCHANGED <<entries, seen, gone, off>>

FindEntry(p, r) ==
    /\ doing[p] = "find" /\ work[p] = {r}
    /\ IF Listed(r)
       THEN Goes(p, "drop") /\ UNCHANGED <<work, seen, gone, off>>
       ELSE End(p) /\ off' = off \ {r}
    /\ UNCHANGED <<indexed, entries>>

(* removeFromRegistry, by the name of the entry that was found.            *)
DropRead(p, r) ==
    /\ doing[p] = "drop" /\ work[p] = {r}
    /\ IF entries[NameOf[r]] # NoRepo
       THEN Read(p) /\ Goes(p, "remove") /\ UNCHANGED <<work, gone, off>>
       ELSE End(p) /\ off' = off \ {r}
    /\ UNCHANGED <<indexed, entries>>

DropWrite(p, r) ==
    /\ doing[p] = "remove" /\ work[p] = {r}
    /\ Write(p, [seen[p] EXCEPT ![NameOf[r]] = NoRepo], SameName(r))
    /\ UNCHANGED indexed

(* clean --all: the listed indexes one by one, then an empty registry.     *)
Listing == {entries[n] : n \in Name} \ {NoRepo}

CleanAll(p) ==
    /\ Begin(p, "clear", Listing)
    /\ Read(p)
    /\ UNCHANGED <<indexed, entries, gone, off>>

(* A removal that fails is reported and passed over.                        *)
RemoveIndex(p, r) ==
    /\ doing[p] = "clear" /\ r \in work[p] \ gone[p]
    /\ indexed' \in {indexed, indexed \ {r}}
    /\ gone' = [gone EXCEPT ![p] = @ \cup {r}]
    /\ UNCHANGED <<entries, doing, work, seen, off>>

Swept_Early(p) == TRUE
Swept(p) == gone[p] = work[p]

Clear(p) ==
    /\ doing[p] = "clear"
    /\ Swept(p)
    /\ Write(p, NoEntries, gone[p] \cap indexed)
    /\ UNCHANGED indexed

(* The repositories that p has half dealt with. *)
Half(p) == IF doing[p] = "clear" THEN gone[p] ELSE work[p]

Kill(p) ==
    /\ doing[p] # "idle"
    /\ End(p)
    /\ off' = off \cup Half(p)
    /\ UNCHANGED <<indexed, entries>>

RegNext ==
    \E p \in Process :
        \/ \E r \in Repo :
              \/ IndexRepo(p, r)
              \/ UpsertWrite(p, r)
              \/ CleanOne(p, r)
              \/ FindEntry(p, r)
              \/ DropRead(p, r)
              \/ DropWrite(p, r)
              \/ RemoveIndex(p, r)
        \/ UpsertRead(p)
        \/ CleanAll(p)
        \/ Clear(p)
        \/ Kill(p)

RegSpec == RegInit /\ [][RegNext]_regVars

-----------------------------------------------------------------------------
(* The registry lists a repository exactly when it is indexed, outside the  *)
(* commands about it, until one of four mishaps befalls it: a command dies  *)
(* half-way, a write from a stale read lists or unlists it, one of its name *)
(* is listed or unlisted, or clean --all fails to remove its index.         *)
ListedIffIndexed ==
    \A r \in Repo \ off : Free({r}) => (Listed(r) <=> r \in indexed)

-----------------------------------------------------------------------------
(* For the proofs: what each command has found and done so far, and that a  *)
(* command disturbs no other repository.                                    *)
WorkInv ==
    /\ \A p, q \in Process : p # q => work[p] \cap work[q] = {}
    /\ \A p \in Process :
          /\ doing[p] = "idle" => work[p] = {}
          /\ doing[p] \in {"indexed", "upsert"} => work[p] \subseteq indexed
          /\ doing[p] \in {"find", "drop", "remove"} => work[p] \cap indexed = {}
          /\ gone[p] \subseteq work[p]
          /\ doing[p] = "clear" => \A n \in Name : seen[p][n] \in work[p] \cup {NoRepo}

AgreeInv ==
    \A r \in Repo \ off : (\A p \in Process : r \notin Half(p)) => (Listed(r) <=> r \in indexed)

RegInv == RegTypeOK /\ WorkInv /\ AgreeInv
=============================================================================

------------------------------ MODULE Downloads ------------------------------
(***************************************************************************)
(* Installing one pinned file under ~/.codehub: a SCIP tool that is the    *)
(* download itself or an entry of a downloaded archive                     *)
(* (packages/cli/src/scip-downloader.ts), or the weights of an embedder,   *)
(* with retries (embedder-downloader.ts). All setups of a file share one   *)
(* temporary path next to it. A file has an identity of its own, as in a   *)
(* POSIX file system: a writer keeps writing to the file it has opened,    *)
(* whatever becomes of the path.                                           *)
(***************************************************************************)
EXTENDS Integers, FiniteSets

CONSTANTS
    Setup,          \* processes that run codehub setup
    Version,        \* versions of the file that some release of codehub pins
    File,           \* identities of files
    Blocks,         \* length of a file
    Tries,          \* attempts at the weights
    None

ASSUME DownloadAssumption ==
    /\ Blocks \in Nat \ {0}
    /\ Tries \in Nat \ {0}
    /\ None \notin File \cup Version

VARIABLES
    kind,           \* what is installed: binary, archive or weights
    tmp, final,     \* the file at each path, or None
    data,           \* the blocks of each file
    at,             \* where a setup is
    pin,            \* the version it wants
    out,            \* the file it is writing
    count,          \* blocks it has written
    got,            \* the version it writes; None for bytes that are not as pinned
    try,            \* its attempt
    overlapped         \* two downloads were under way at once (history)

fileVars == <<tmp, final, data>>
setupVars == <<at, pin, out, count, got, try>>
downVars == <<kind, fileVars, setupVars, overlapped>>

Step ==
    {"idle", "unlink", "fetch", "stream", "unpack", "replace", "extract", "rename",
     "installed", "failed"}

(* What is at a place of a file: a block of the download or of the binary   *)
(* in it, or nothing yet.                                                  *)
Block == (Version \cup {None}) \X {"download", "binary", "nothing"}

Place == 1 .. Blocks
Nothing == <<None, "nothing">>
Empty == [i \in Place |-> Nothing]
Whole(v, form) == [i \in Place |-> <<v, form>>]

(* What the release that pins v installs. *)
Goods(v) == Whole(v, IF kind = "archive" THEN "binary" ELSE "download")

DownTypeOK ==
    /\ kind \in {"binary", "archive", "weights"}
    /\ tmp \in File \cup {None} /\ final \in File \cup {None}
    /\ data \in [File -> [Place -> Block]]
    /\ at \in [Setup -> Step]
    /\ pin \in [Setup -> Version \cup {None}]
    /\ out \in [Setup -> File \cup {None}]
    /\ count \in [Setup -> 0 .. Blocks]
    /\ got \in [Setup -> Version \cup {None}]
    /\ try \in [Setup -> 0 .. Tries]
    /\ overlapped \in BOOLEAN

DownInit ==
    /\ kind \in {"binary", "archive", "weights"}
    /\ tmp = None /\ final = None
    /\ data = [f \in File |-> Empty]
    /\ at = [p \in Setup |-> "idle"]
    /\ pin = [p \in Setup |-> None]
    /\ out = [p \in Setup |-> None]
    /\ count = [p \in Setup |-> 0]
    /\ got = [p \in Setup |-> None]
    /\ try = [p \in Setup |-> 0]
    /\ overlapped = FALSE

-----------------------------------------------------------------------------
GoTo(p, step) == at' = [at EXCEPT ![p] = step]

Downloading(p) == at[p] \in {"fetch", "stream", "unpack", "replace", "extract", "rename"}

(* The idempotency check: an extracted binary only has to be there.        *)
Skips_IfPresent(v) == final # None
Skips(v) ==
    /\ final # None
    /\ data[final] # Empty
    /\ kind # "archive" => data[final] = Goods(v)

BeginSetup(p, v, force) ==
    /\ at[p] = "idle"
    /\ pin' = [pin EXCEPT ![p] = v]
    /\ try' = [try EXCEPT ![p] = 1]
    /\ GoTo(p, IF ~force /\ Skips(v) THEN "installed" ELSE "unlink")
    /\ UNCHANGED <<kind, fileVars, out, count, got, overlapped>>

(* What an earlier attempt left is removed.                                *)
Unlink(p) ==
    /\ at[p] = "unlink"
    /\ tmp' = None
    /\ GoTo(p, "fetch")
    /\ overlapped' = (overlapped \/ \E q \in Setup : Downloading(q))
    /\ UNCHANGED <<kind, final, data, pin, out, count, got, try>>

(* The attempt ends with an error; only weights are tried again.           *)
Throw(p, transient) ==
    /\ IF kind = "weights" /\ transient /\ try[p] < Tries
       THEN GoTo(p, "unlink") /\ try' = [try EXCEPT ![p] = @ + 1]
       ELSE GoTo(p, "failed") /\ UNCHANGED try
    /\ out' = [out EXCEPT ![p] = None]
    /\ UNCHANGED <<kind, final, data, pin, count, got, overlapped>>

FetchFails(p, transient) ==
    /\ at[p] = "fetch"
    /\ Throw(p, transient)
    /\ UNCHANGED tmp

(* The temporary path is opened for writing: the file there is truncated,   *)
(* or a new one created.                                                   *)
Used == {tmp, final} \cup {out[q] : q \in Setup}
OpenFile == IF tmp # None THEN tmp ELSE CHOOSE f \in File : f \notin Used

OpenTmp(p, v) ==
    /\ tmp # None \/ File \ Used # {}
    /\ tmp' = OpenFile
    /\ data' = [data EXCEPT ![OpenFile] = Empty]
    /\ out' = [out EXCEPT ![p] = OpenFile]
    /\ count' = [count EXCEPT ![p] = 0]
    /\ got' = [got EXCEPT ![p] = v]
    /\ UNCHANGED <<kind, final, pin, try, overlapped>>

Fetched(p, v) ==
    /\ at[p] = "fetch"
    /\ v \in {pin[p], None}
    /\ OpenTmp(p, v)
    /\ GoTo(p, "stream")

Written(p, form) ==
    /\ count[p] < Blocks
    /\ count' = [count EXCEPT ![p] = @ + 1]
    /\ data' = [data EXCEPT ![out[p]][count[p] + 1] = <<got[p], form>>]
    /\ UNCHANGED <<kind, tmp, final, at, pin, out, got, try, overlapped>>

Stream(p) == at[p] = "stream" /\ Written(p, "download")

StreamFails(p, transient) ==
    /\ at[p] = "stream"
    /\ tmp' = None
    /\ Throw(p, transient)

(* The hash of the bytes as they were received.                            *)
Verified_Unchecked(p) == TRUE
Verified(p) == got[p] = pin[p]

Verify(p) ==
    /\ at[p] = "stream" /\ count[p] = Blocks
    /\ IF Verified(p)
       THEN /\ GoTo(p, IF kind = "archive" THEN "unpack" ELSE "rename")
            /\ out' = [out EXCEPT ![p] = None]
            /\ UNCHANGED <<kind, fileVars, pin, count, got, try, overlapped>>
       ELSE tmp' = None /\ Throw(p, FALSE)

(* extractFromTarGz reads the archive at the temporary path ...            *)
Archived ==
    IF tmp = None THEN {} ELSE {v \in Version : data[tmp] = Whole(v, "download")}

Unpack(p) ==
    /\ at[p] = "unpack"
    /\ \/ \E v \in Archived :
             /\ got' = [got EXCEPT ![p] = v]
             /\ GoTo(p, "replace")
             /\ UNCHANGED <<kind, fileVars, pin, out, count, try, overlapped>>
       \/ Archived = {} /\ Throw(p, FALSE) /\ UNCHANGED tmp

(* ... and writes the binary over it. *)
Replace(p) ==
    /\ at[p] = "replace"
    /\ OpenTmp(p, got[p])
    /\ GoTo(p, "extract")

Extract(p) == at[p] = "extract" /\ Written(p, "binary")

(* chmod and rename, whatever is at the temporary path by now.             *)
ReadyToRename_Early(p) == at[p] \in {"rename", "replace", "extract"}
ReadyToRename(p) == at[p] = "rename" \/ (at[p] = "extract" /\ count[p] = Blocks)

Rename(p) ==
    /\ ReadyToRename(p)
    /\ \/ /\ tmp # None
          /\ final' = tmp /\ tmp' = None
          /\ out' = [out EXCEPT ![p] = None]
          /\ GoTo(p, "installed")
          /\ UNCHANGED <<kind, data, pin, count, got, try, overlapped>>
       \/ tmp = None /\ Throw(p, FALSE) /\ UNCHANGED tmp

(* A file operation after the hash check fails; what is at the temporary    *)
(* path stays. (While the body is streamed an error of the file's own has   *)
(* no listener: the process dies of it.)                                   *)
FileFails(p) ==
    /\ at[p] \in {"unpack", "replace", "extract", "rename"}
    /\ Throw(p, FALSE)
    /\ UNCHANGED tmp

Gone(p) ==
    /\ GoTo(p, "idle")
    /\ pin' = [pin EXCEPT ![p] = None]
    /\ out' = [out EXCEPT ![p] = None]
    /\ count' = [count EXCEPT ![p] = 0]
    /\ got' = [got EXCEPT ![p] = None]
    /\ try' = [try EXCEPT ![p] = 0]
    /\ UNCHANGED <<kind, fileVars, overlapped>>

Leave(p) == at[p] \in {"installed", "failed"} /\ Gone(p)

(* The process is killed; what it wrote stays. *)
Die(p) == (Downloading(p) \/ at[p] = "unlink") /\ Gone(p)

DownNext ==
    \E p \in Setup :
        \/ \E v \in Version, force \in BOOLEAN : BeginSetup(p, v, force)
        \/ Unlink(p)
        \/ \E v \in Version \cup {None} : Fetched(p, v)
        \/ \E transient \in BOOLEAN : FetchFails(p, transient) \/ StreamFails(p, transient)
        \/ Stream(p)
        \/ Verify(p)
        \/ Unpack(p)
        \/ Replace(p)
        \/ Extract(p)
        \/ Rename(p)
        \/ FileFails(p)
        \/ Leave(p)
        \/ Die(p)

DownSpec == DownInit /\ [][DownNext]_downVars

-----------------------------------------------------------------------------
(* The inductive invariant. While downloads do not overlap, the one that is *)
(* under way owns the temporary path, which has what it wrote or verified,  *)
(* and the final path is another file.                                      *)
Alone == \A p, q \in Setup : Downloading(p) /\ Downloading(q) => p = q

FinalGood == final # None => final # tmp /\ \E v \in Version : data[final] = Goods(v)

Writing(p, form) ==
    /\ tmp # None /\ out[p] = tmp
    /\ \A i \in 1 .. count[p] : data[tmp][i] = <<got[p], form>>

Progress(p) ==
    /\ at[p] # "idle" => pin[p] \in Version
    /\ at[p] = "stream" => Writing(p, "download")
    /\ at[p] \in {"unpack", "rename"} => tmp # None /\ data[tmp] = Whole(pin[p], "download")
    /\ at[p] = "rename" => kind # "archive"
    /\ at[p] \in {"unpack", "replace", "extract"} => kind = "archive"
    /\ at[p] \in {"replace", "extract"} => got[p] = pin[p]
    /\ at[p] = "extract" => Writing(p, "binary")

DownInv ==
    /\ DownTypeOK
    /\ ~overlapped => Alone /\ FinalGood /\ \A p \in Setup : Progress(p)

(* Wherever setups fail or die, the final path has nothing or the whole     *)
(* file of some release, unless two downloads were under way at once.       *)
FinalIsWhole ==
    ~overlapped => final = None \/ \E v \in Version : data[final] = Goods(v)

(* A setup that reports success leaves the version it pins, even when an    *)
(* older release or a dead process was there before; but of an archive that *)
(* it skips only that it is the whole binary of some release.               *)
ReportIsTrue ==
    [][\A p \in Setup :
          at[p] # "installed" /\ at'[p] = "installed" /\ ~overlapped =>
              \E v \in Version :
                  /\ data'[final'] = Goods(v)
                  /\ v = pin'[p] \/ (kind = "archive" /\ at[p] = "idle")]_downVars
=============================================================================

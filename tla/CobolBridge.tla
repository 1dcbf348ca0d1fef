----------------------------- MODULE CobolBridge -----------------------------
(***************************************************************************)
(* Deep COBOL parsing: parseCobolDeep (packages/cobol-proleap/src/parse.ts) *)
(* hands batches of files to a JVM, superviseProcess (subprocess.ts)       *)
(* collects the lines it prints under a timeout, and what the JVM did not  *)
(* do is parsed again with regular expressions.                            *)
(* The JVM (java/cobol_to_scip.java) prints a line per record of a file,   *)
(* or a diagnostic line when it gives a file up. A line is two halves, so  *)
(* that the pipe can be cut inside it.                                     *)
(***************************************************************************)
EXTENDS Integers, Sequences, FiniteSets

CONSTANTS
    Batches,        \* the batches, each a list of distinct files
    Records         \* how many records the JVM has for a file, if it gets through

CobolFile == DOMAIN Records

ASSUME CobolAssumption ==
    /\ Batches \in Seq(Seq(CobolFile))
    /\ Records \in [CobolFile -> Nat]

VARIABLES
    batch,          \* number of the batch under way
    jvm,            \* none, running, exited
    wedged,         \* it neither goes on nor obeys SIGTERM
    code,           \* of its exit: 0 or 1
    lines,          \* what it has printed: (file, record), record 0 for a diagnostic
    torn,           \* the last line lacks its second half
    heard,          \* halves in the buffer of the supervisor
    timer,          \* of the supervisor: idle, timeout, grace
    asg, regex,     \* elements from the JVM by file; files parsed by regular expression
    overtook, died  \* batches whose exit overtook their output, or that crashed (history)

jvmVars == <<jvm, wedged, code, lines, torn>>
cobolVars == <<batch, jvmVars, heard, timer, asg, regex, overtook, died>>

Line == CobolFile \X Nat

CobolTypeOK ==
    /\ batch \in 1 .. Len(Batches) + 1
    /\ jvm \in {"none", "running", "exited"}
    /\ wedged \in BOOLEAN
    /\ code \in {0, 1}
    /\ lines \in Seq(Line)
    /\ torn \in BOOLEAN
    /\ heard \in 0 .. 2 * Len(lines)
    /\ timer \in {"idle", "timeout", "grace"}
    /\ asg \in [CobolFile -> SUBSET Nat]
    /\ regex \subseteq CobolFile
    /\ overtook \subseteq DOMAIN Batches
    /\ died \subseteq DOMAIN Batches

CobolInit ==
    /\ batch = 1
    /\ jvm = "none" /\ wedged = FALSE /\ code = 0 /\ lines = <<>> /\ torn = FALSE
    /\ heard = 0
    /\ timer = "idle"
    /\ asg = [f \in CobolFile |-> {}]
    /\ regex = {}
    /\ overtook = {} /\ died = {}

-----------------------------------------------------------------------------
(* The JVM.                                                                *)

Printed(f) == {lines[i][2] : i \in {j \in DOMAIN lines : lines[j][1] = f}}

Through(f) == 0 \in Printed(f) \/ Cardinality(Printed(f)) = Records[f]

(* The places in the batch of the files it is not through with; the first   *)
(* of them is the file it is at.                                           *)
Left == {i \in DOMAIN Batches[batch] : ~Through(Batches[batch][i])}

CurrentFile == Batches[batch][CHOOSE i \in Left : \A j \in Left : i <= j]

NextLine == <<CurrentFile, Cardinality(Printed(CurrentFile)) + 1>>

Working == jvm = "running" /\ ~wedged

PrintRecord ==
    /\ Working
    /\ Left # {}
    /\ lines' = Append(lines, NextLine)
    /\ UNCHANGED <<batch, jvm, wedged, code, torn, heard, timer, asg, regex, overtook, died>>

(* The places of the files it may be at: it has gone through those before,   *)
(* has not given this one up, and has printed nothing of a later one.        *)
Current ==
    {i \in DOMAIN Batches[batch] :
        /\ 0 \notin Printed(Batches[batch][i])
        /\ \A j \in DOMAIN Batches[batch] :
              /\ j < i => Through(Batches[batch][j])
              /\ j > i => Printed(Batches[batch][j]) = {}}

(* The parser throws on a file, before, between or after its records.      *)
GiveUp ==
    /\ Working
    /\ \E i \in Current : lines' = Append(lines, <<Batches[batch][i], 0>>)
    /\ UNCHANGED <<batch, jvm, wedged, code, torn, heard, timer, asg, regex, overtook, died>>

(* The end of the list of paths: exit 0.                                   *)
Complete ==
    /\ Working
    /\ Left = {}
    /\ jvm' = "exited" /\ code' = 0
    /\ UNCHANGED <<batch, wedged, lines, torn, heard, timer, asg, regex, overtook, died>>

(* It crashes, or obeys SIGTERM, perhaps in the middle of a line.          *)
Crash ==
    /\ Working
    /\ jvm' = "exited" /\ code' = 1
    /\ \/ UNCHANGED <<lines, torn>>
       \/ Left # {} /\ lines' = Append(lines, NextLine) /\ torn' = TRUE
    /\ UNCHANGED <<batch, wedged, heard, timer, asg, regex, overtook, died>>

Wedge ==
    /\ Working
    /\ wedged' = TRUE
    /\ UNCHANGED <<batch, jvm, code, lines, torn, heard, timer, asg, regex, overtook, died>>

-----------------------------------------------------------------------------
(* superviseProcess.                                                       *)

Halves == 2 * Len(lines) - IF torn THEN 1 ELSE 0

(* spawn, which may fail, with the timer of the whole run.                 *)
Spawn ==
    /\ batch <= Len(Batches) /\ timer = "idle"
    /\ jvm' \in {"running", "none"}
    /\ wedged' = FALSE /\ lines' = <<>> /\ torn' = FALSE
    /\ heard' = 0
    /\ timer' = "timeout"
    /\ UNCHANGED <<batch, code, asg, regex, overtook, died>>

(* A chunk of stdout.                                                      *)
Data ==
    /\ timer # "idle"
    /\ heard' \in heard + 1 .. Halves
    /\ UNCHANGED <<batch, jvmVars, timer, asg, regex, overtook, died>>

(* parseRecords: the whole lines of the buffer; half a line is malformed.  *)
Parsed == SubSeq(lines, 1, heard \div 2)
Malformed == heard % 2 = 1

Elements(f) == {Parsed[i][2] : i \in {j \in DOMAIN Parsed : Parsed[j][1] = f}} \ {0}
Flagged(f) == <<f, 0>> \in {Parsed[i] : i \in DOMAIN Parsed}

FilesOf(b) == {Batches[b][i] : i \in DOMAIN Batches[b]}

(* Which files are parsed again: after a crash those without an element,    *)
(* otherwise those with a diagnostic.                                      *)
Reparsed_FlaggedOnly(crashed) == {f \in FilesOf(batch) : Flagged(f)}

Reparsed(crashed) ==
    {f \in FilesOf(batch) : IF crashed THEN Elements(f) = {} ELSE Flagged(f)}

(* The promise settles and parseCobolDeep deals with the outcome.          *)
Settle(crashed) ==
    /\ asg' = [f \in CobolFile |->
                 IF f \in FilesOf(batch) THEN asg[f] \cup Elements(f) ELSE asg[f]]
    /\ regex' = regex \cup Reparsed(crashed)
    /\ batch' = batch + 1
    /\ timer' = "idle"
    /\ died' = IF crashed THEN died \cup {batch} ELSE died
    /\ UNCHANGED <<lines, torn, heard, wedged, code>>

(* exit: the clean case needs no timeout, code 0 and whole lines.          *)
Clean_IgnoresCode == timer = "timeout" /\ ~Malformed
Clean == timer = "timeout" /\ code = 0 /\ ~Malformed

OnExit ==
    /\ timer # "idle" /\ jvm = "exited"
    /\ Settle(~Clean)
    /\ overtook' = IF Clean /\ heard < Halves THEN overtook \cup {batch} ELSE overtook
    /\ UNCHANGED jvm

(* error: the JVM could not be started.                                    *)
OnError ==
    /\ timer # "idle" /\ jvm = "none"
    /\ Settle(TRUE)
    /\ UNCHANGED <<jvm, overtook>>

(* The timeout sends SIGTERM and grants a grace period.                    *)
Timeout ==
    /\ timer = "timeout"
    /\ timer' = "grace"
    /\ UNCHANGED <<batch, jvmVars, heard, asg, regex, overtook, died>>

(* After it SIGKILL, and no waiting for the exit.                          *)
Grace_AwaitsExit ==
    /\ timer = "grace" /\ jvm = "exited"
    /\ UNCHANGED jvm
    /\ Settle(TRUE)
    /\ UNCHANGED overtook

Grace ==
    /\ timer = "grace"
    /\ jvm' = "exited"
    /\ Settle(TRUE)
    /\ UNCHANGED overtook

CobolNext ==
    \/ PrintRecord
    \/ GiveUp
    \/ Complete
    \/ Crash
    \/ Wedge
    \/ Spawn
    \/ Data
    \/ OnExit
    \/ OnError
    \/ Timeout
    \/ Grace

(* Once parsing has begun the bridge goes on to the next batch, and timers  *)
(* fire. Nothing is assumed of the JVM.                                    *)
CobolFairness ==
    /\ WF_cobolVars(batch > 1 /\ Spawn)
    /\ WF_cobolVars(Timeout)
    /\ WF_cobolVars(Grace)

CobolSpec == CobolInit /\ [][CobolNext]_cobolVars /\ CobolFairness

-----------------------------------------------------------------------------
(* Whatever the JVM does, a file of a settled batch has all of its records  *)
(* or was parsed again, but for two cases: the exit event overtook output  *)
(* that ended with a whole line, or the batch crashed after the file's     *)
(* first record.                                                           *)
FilesAccounted ==
    \A b \in 1 .. batch - 1 : \A f \in FilesOf(b) :
        \/ asg[f] = 1 .. Records[f]
        \/ f \in regex
        \/ b \in overtook
        \/ b \in died /\ asg[f] # {}

(* A batch settles even if the JVM hangs and ignores SIGTERM.              *)
BatchesSettle == timer # "idle" ~> batch > Len(Batches)

-----------------------------------------------------------------------------
(* The inductive invariant.  What the JVM has printed of a file is a         *)
(* diagnostic or not, and the first of its records.                         *)
PrintInv ==
    \A f \in CobolFile : \E k \in 0 .. Records[f] : Printed(f) \ {0} = 1 .. k

(* An exit with code 0 comes after the last file and a whole line; the code  *)
(* is that of an earlier batch as long as the JVM runs.                     *)
JvmInv ==
    /\ heard <= Halves
    /\ timer # "idle" => batch \in DOMAIN Batches
    /\ jvm = "running" => timer # "idle" /\ ~torn
    /\ timer # "idle" /\ jvm = "exited" /\ code = 0 => Left = {} /\ ~torn

(* The JVM is believed no record that a file does not have.                 *)
AsgInv == \A f \in CobolFile : asg[f] \subseteq 1 .. Records[f]

CobolInv == CobolTypeOK /\ PrintInv /\ JvmInv /\ AsgInv /\ FilesAccounted
=============================================================================

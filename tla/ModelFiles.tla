----------------------------- MODULE ModelFiles -----------------------------
(* A model artifact on its way into the model directory: a fetch downloads it *)
(* into the partial file, resuming what is there, verifies size and hash, and *)
(* renames it into place.  No lease guards the two paths: commands and        *)
(* terminals may fetch the same artifact at once, cleanup-failed removes the  *)
(* partial file at any time, and each write goes to the file its handle was   *)
(* opened on, wherever that file is by then.                                  *)
EXTENDS Naturals, Sequences, FiniteSets

CONSTANTS
    Fetcher,      \* the processes that fetch the artifact
    Faithful,     \* the one that tries again for ever
    Size,         \* the artifact's size in the manifest
    NoFile,
    TryBudget,    \* fetches by all the others
    FetchFaultBudget, \* bad bytes, short bodies and refused requests
    FetchStopBudget, \* processes killed
    CleanBudget   \* cleanups nobody asked for

ASSUME ModelFilesAssumption ==
    /\ IsFiniteSet(Fetcher) /\ Faithful \in Fetcher /\ Size \in Nat \ {0}
    /\ TryBudget \in Nat /\ FetchFaultBudget \in Nat /\ FetchStopBudget \in Nat /\ CleanBudget \in Nat

File == Fetcher \X {1, 2}
ASSUME NoFileAssumption == NoFile \notin File

VARIABLES
    managed,  \* whether the artifact is a projector the app may replace
    bytes,    \* what each file holds: the byte of the artifact at each place, 0 a wrong one
    part,     \* the file at the partial path
    final,    \* the file at the final path
    fetch,    \* where each fetch is
    told,     \* the path the last refusal asked the user to clear
    overlap,  \* whether two fetches were ever under way at once
    spent     \* the budgets used

modelFilesVars == <<managed, bytes, part, final, fetch, told, overlap, spent>>

Artifact == [i \in 1..Size |-> i]
Whole(f) == f # NoFile /\ bytes[f] = Artifact

Asleep == [at |-> "idle", file |-> NoFile, start |-> 0, copied |-> 0]
FetchAt(p, step) == fetch[p].at = step
FetchGo(p, step) == fetch' = [fetch EXCEPT ![p].at = step]
FetchEnds(p) == fetch' = [fetch EXCEPT ![p] = Asleep]
Refused(p, path) == FetchEnds(p) /\ told' = path
Spend(what, budget) == spent[what] < budget /\ spent' = [spent EXCEPT ![what] = @ + 1]
Before == {"idle", "inspect", "check"}

(* A fetch is asked for: by setup, by an image request, by fetch-candidate. *)
BeginFetch(p) ==
    /\ FetchAt(p, "idle")
    /\ FetchGo(p, IF managed THEN "inspect" ELSE "check")
    /\ IF p = Faithful THEN UNCHANGED spent ELSE Spend("tries", TryBudget)
    /\ UNCHANGED <<managed, bytes, part, final, told, overlap>>

Inspect_Always(p) ==
    /\ FetchAt(p, "inspect")
    /\ FetchGo(p, IF final # NoFile THEN "discard" ELSE "check")
    /\ UNCHANGED <<managed, bytes, part, final, told, overlap, spent>>

(* remove_invalid_managed_projector: a projector in place that does not match ... *)
Inspect(p) ==
    /\ FetchAt(p, "inspect")
    /\ FetchGo(p, IF final # NoFile /\ ~Whole(final) THEN "discard" ELSE "check")
    /\ UNCHANGED <<managed, bytes, part, final, told, overlap, spent>>

(* ... is removed, whatever is at the path by then; a path already empty is an error. *)
Discard(p) ==
    /\ FetchAt(p, "discard")
    /\ IF final = NoFile THEN FetchEnds(p) ELSE FetchGo(p, "check")
    /\ final' = NoFile
    /\ UNCHANGED <<managed, bytes, part, told, overlap, spent>>

CheckFinal_Exists(p) ==
    /\ FetchAt(p, "check")
    /\ \/ final # NoFile /\ FetchEnds(p) /\ UNCHANGED <<told, overlap>>
       \/ /\ final = NoFile /\ FetchGo(p, "size") /\ UNCHANGED told
          /\ overlap' = (overlap \/ \E q \in Fetcher : fetch[q].at \notin Before)
    /\ UNCHANGED <<managed, bytes, part, final, spent>>

(* A file in place is a cache hit or, if it does not match, a refusal. *)
CheckFinal(p) ==
    /\ FetchAt(p, "check")
    /\ \/ Whole(final) /\ FetchEnds(p) /\ UNCHANGED <<told, overlap>>
       \/ final # NoFile /\ ~Whole(final) /\ Refused(p, "final") /\ UNCHANGED overlap
       \/ /\ final = NoFile /\ FetchGo(p, "size") /\ UNCHANGED told
          /\ overlap' = (overlap \/ \E q \in Fetcher : fetch[q].at \notin Before)
    /\ UNCHANGED <<managed, bytes, part, final, spent>>

SizePart_Trusted(p) ==
    LET length == IF part = NoFile THEN 0 ELSE Len(bytes[part]) IN
    /\ FetchAt(p, "size")
    /\ \/ length > Size /\ Refused(p, "part")
       \/ length = Size /\ FetchGo(p, "place") /\ UNCHANGED told
       \/ length < Size /\ UNCHANGED told
          /\ fetch' = [fetch EXCEPT ![p].at = "request", ![p].start = length]
    /\ UNCHANGED <<managed, bytes, part, final, overlap, spent>>

(* partial_artifact_size: too much is refused, all of it is verified at once, and the
   rest is asked for. *)
SizePart(p) ==
    LET length == IF part = NoFile THEN 0 ELSE Len(bytes[part]) IN
    /\ FetchAt(p, "size")
    /\ \/ length > Size /\ Refused(p, "part")
       \/ length = Size /\ FetchGo(p, "verify") /\ UNCHANGED told
       \/ length < Size /\ UNCHANGED told
          /\ fetch' = [fetch EXCEPT ![p].at = "request", ![p].start = length]
    /\ UNCHANGED <<managed, bytes, part, final, overlap, spent>>

(* A file no path and no handle is about: what a create makes. *)
Unused == File \ ({part, final} \cup {fetch[q].file : q \in Fetcher})

(* The server answers with the whole artifact: the partial file is created, or emptied
   under the feet of whoever else writes it. *)
OpenCreated(p) ==
    /\ FetchAt(p, "request")
    /\ \E f \in IF part = NoFile THEN {CHOOSE u \in Unused : TRUE} ELSE {part} :
           /\ part' = f
           /\ bytes' = [bytes EXCEPT ![f] = <<>>]
           /\ fetch' = [fetch EXCEPT ![p] = [at |-> "copy", file |-> f, start |-> 0, copied |-> 0]]
    /\ UNCHANGED <<managed, final, told, overlap, spent>>

(* It answers with the rest only: the partial file is opened to append. *)
OpenAppended(p) ==
    /\ FetchAt(p, "request") /\ fetch[p].start > 0
    /\ IF part = NoFile THEN FetchEnds(p)
       ELSE fetch' = [fetch EXCEPT ![p].at = "copy", ![p].file = part]
    /\ UNCHANGED <<managed, bytes, part, final, told, overlap, spent>>

(* The request fails, or the body breaks off with an error. *)
TransferFails(p) ==
    /\ fetch[p].at \in {"request", "copy"}
    /\ Spend("faults", FetchFaultBudget)
    /\ FetchEnds(p)
    /\ UNCHANGED <<managed, bytes, part, final, told, overlap>>

(* Where a byte of fetch p goes: a file created for it is written at its own offset, over
   a hole if the file is shorter by then, one opened to append at the end. *)
Written(p, b) ==
    LET old == bytes[fetch[p].file]
        at == IF fetch[p].start = 0 THEN fetch[p].copied + 1 ELSE Len(old) + 1
        length == IF at > Len(old) THEN at ELSE Len(old)
    IN  [i \in 1..length |-> IF i = at THEN b ELSE IF i <= Len(old) THEN old[i] ELSE 0]

Copied(p) == fetch[p].start + fetch[p].copied

(* copy_model_reader_with_limit: a byte of the body is written, the right one or not. *)
CopyByte(p) ==
    /\ FetchAt(p, "copy") /\ Copied(p) < Size
    /\ \/ bytes' = [bytes EXCEPT ![fetch[p].file] = Written(p, Copied(p) + 1)] /\ UNCHANGED spent
       \/ bytes' = [bytes EXCEPT ![fetch[p].file] = Written(p, 0)] /\ Spend("faults", FetchFaultBudget)
    /\ fetch' = [fetch EXCEPT ![p].copied = @ + 1]
    /\ UNCHANGED <<managed, part, final, told, overlap>>

(* The body ends: in full, or too early; one that goes on is an error and writes nothing. *)
BodyEnds(p) ==
    /\ FetchAt(p, "copy")
    /\ \/ Copied(p) = Size /\ FetchGo(p, "measure") /\ UNCHANGED spent
       \/ Copied(p) < Size /\ FetchGo(p, "measure") /\ Spend("faults", FetchFaultBudget)
    /\ UNCHANGED <<managed, bytes, part, final, told, overlap>>

(* verify_partial_size looks at the path: a partial file of another size stays for the
   next fetch. *)
Measure(p) ==
    /\ FetchAt(p, "measure")
    /\ IF part # NoFile /\ Len(bytes[part]) = Size THEN FetchGo(p, "verify") ELSE FetchEnds(p)
    /\ UNCHANGED <<managed, bytes, part, final, told, overlap, spent>>

(* verify_model_artifact_file: a partial file that does not match stays and is refused. *)
Verify(p) ==
    /\ FetchAt(p, "verify")
    /\ \/ part = NoFile /\ FetchEnds(p) /\ UNCHANGED told
       \/ Whole(part) /\ FetchGo(p, "place") /\ UNCHANGED told
       \/ part # NoFile /\ ~Whole(part) /\ Refused(p, "part")
    /\ UNCHANGED <<managed, bytes, part, final, overlap, spent>>

(* place_verified_artifact: nothing may be in place ... *)
Place(p) ==
    /\ FetchAt(p, "place")
    /\ IF final = NoFile THEN FetchGo(p, "rename") ELSE FetchEnds(p)
    /\ UNCHANGED <<managed, bytes, part, final, told, overlap, spent>>

(* ... and what is at the partial path is renamed, over whatever came in between. *)
Rename(p) ==
    /\ FetchAt(p, "rename")
    /\ IF part = NoFile THEN UNCHANGED <<part, final>> ELSE final' = part /\ part' = NoFile
    /\ FetchEnds(p)
    /\ UNCHANGED <<managed, bytes, told, overlap, spent>>

(* The process is killed; what it wrote stays. *)
FetchStops(p) ==
    /\ fetch[p].at \notin Before
    /\ Spend("stops", FetchStopBudget)
    /\ FetchEnds(p)
    /\ UNCHANGED <<managed, bytes, part, final, told, overlap>>

(* cleanup-failed --delete removes the partial file, because a refusal said so or because
   the user wants to. *)
CleanupFailed ==
    /\ \/ told = "part" /\ UNCHANGED spent
       \/ part # NoFile /\ Spend("cleans", CleanBudget)
    /\ part' = NoFile /\ told' = "nothing"
    /\ UNCHANGED <<managed, bytes, final, fetch, overlap>>

(* The user moves a file in place that does not match out of the way, as told. *)
MoveAway ==
    /\ told = "final"
    /\ final' = NoFile /\ told' = "nothing"
    /\ UNCHANGED <<managed, bytes, part, fetch, overlap, spent>>

ModelFilesInit ==
    /\ managed \in BOOLEAN
    /\ bytes = [f \in File |-> <<>>]
    /\ part = NoFile /\ final = NoFile
    /\ fetch = [p \in Fetcher |-> Asleep]
    /\ told = "nothing" /\ overlap = FALSE
    /\ spent = [what \in {"tries", "faults", "stops", "cleans"} |-> 0]

Transfer(p) == OpenCreated(p) \/ OpenAppended(p) \/ CopyByte(p) \/ BodyEnds(p)
FetchStep(p) ==
    \/ BeginFetch(p) \/ Inspect(p) \/ Discard(p) \/ CheckFinal(p) \/ SizePart(p)
    \/ Transfer(p) \/ Measure(p) \/ Verify(p) \/ Place(p) \/ Rename(p)

ModelFilesNext ==
    \/ \E p \in Fetcher : FetchStep(p) \/ TransferFails(p) \/ FetchStops(p)
    \/ CleanupFailed \/ MoveAway

ModelFilesFairness ==
    /\ \A p \in Fetcher : WF_modelFilesVars(FetchStep(p))
    /\ WF_modelFilesVars(CleanupFailed /\ told = "part") /\ WF_modelFilesVars(MoveAway)

ModelFilesSpec == ModelFilesInit /\ [][ModelFilesNext]_modelFilesVars /\ ModelFilesFairness

FetchSteps == Before \cup {"discard", "size", "request", "copy", "measure", "verify", "place", "rename"}

(* Every variable has its shape, a file is at one path at most, and a handle is open only *)
(* while a body is copied or what it wrote is checked.                                     *)
ModelFilesTypeOK ==
    /\ managed \in BOOLEAN /\ overlap \in BOOLEAN
    /\ bytes \in [File -> Seq(0..Size)]
    /\ part \in File \cup {NoFile} /\ final \in File \cup {NoFile}
    /\ part = final => part = NoFile
    /\ told \in {"nothing", "part", "final"}
    /\ fetch \in [Fetcher -> [at : FetchSteps, file : File \cup {NoFile},
                              start : 0..Size, copied : 0..Size]]
    /\ \A p \in Fetcher : fetch[p].at \in Before => fetch[p] = [Asleep EXCEPT !.at = fetch[p].at]

(* As long as no two fetches of the artifact were under way at once, what is in place is    *)
(* the artifact, whole: whatever the server sent, wherever a fetch was killed, whenever the *)
(* partial file was removed.  Code: verify_partial_size, verify_model_artifact_file and     *)
(* place_verified_artifact.                                                                  *)
PlacedWhole == final = NoFile \/ Whole(final) \/ overlap

(* A whole artifact in place, with no fetch past its first look, is never touched again by  *)
(* a fetch: only the user moves it away.  Code: remove_invalid_managed_projector and the     *)
(* first look of fetch_evaluation_artifact.                                                  *)
SettledWhole == Whole(final) /\ \A p \in Fetcher : fetch[p].at \in Before
StaysSettled == [][SettledWhole => SettledWhole' \/ MoveAway]_modelFilesVars

ModelWhole == ModelFilesTypeOK /\ PlacedWhole

(* Once a process asks for the artifact and keeps asking, and the user does what the        *)
(* refusals tell, it is in place for good in the end: overlapping fetches, bad bodies and    *)
(* kills are all got over.  A file that overlapping fetches damaged is removed (a projector) *)
(* or refused until the user moves it (a model).  Code: fetch_managed_projector_artifact,    *)
(* fetch_evaluation_artifact, cleanup_failed_artifacts.                                       *)
ModelPrepared == ~[]FetchAt(Faithful, "idle") => <>[]Whole(final)
=============================================================================

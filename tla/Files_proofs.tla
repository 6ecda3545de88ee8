---------------------------- MODULE Files_proofs ----------------------------
(* Model artifacts, the installation and the search of a file, for any artifact *)
(* and any number of fetches, commands, faults and kills, and any bytes: what   *)
(* is in place is whole as long as fetches do not overlap, and is not touched   *)
(* again once no fetch works on it; no clean takes the data of a recorded       *)
(* backend, and a recorded binary can be found; a search reports the lines that *)
(* hold its literal, however the reader cuts the file.                          *)
EXTENDS ModelFiles, SystemInstall, LineScan, FiniteSetTheorems, NaturalsInduction,
        WellFoundedInduction, SequenceTheorems, TLAPS

Files == File \cup {NoFile}
FetchRecord == [at : FetchSteps, file : Files, start : Nat, copied : Nat]

FilesTyped ==
    /\ bytes \in [File -> Seq(Nat)]
    /\ part \in Files /\ final \in Files
    /\ fetch \in [Fetcher -> FetchRecord]

(* One fetch at most is past its first look. *)
Single ==
    \A p, q \in Fetcher : fetch[p].at \notin Before /\ fetch[q].at \notin Before => p = q

(* The file a step may write: none before the body is opened, never the one in place. *)
MayWrite(record) ==
    /\ record.at = "copy" => record.file # NoFile /\ record.file # final
    /\ record.at \in Before \cup {"size", "request"} => record.file = NoFile

(* No path and no open handle shares the file in place, which nobody discards. *)
Apart ==
    /\ final # NoFile => part # final
    /\ \A p \in Fetcher : MayWrite(fetch[p]) /\ fetch[p].at # "discard"

(* What is about to be renamed has been verified, or is gone. *)
Verified ==
    \A p \in Fetcher : fetch[p].at \in {"place", "rename"} => part = NoFile \/ Whole(part)

InPlace == final = NoFile \/ Whole(final)

FilesInv == overlap \/ (FilesTyped /\ Single /\ Apart /\ Verified /\ InPlace)

LEMMA FilesStart == ModelFilesInit => FilesInv
<1> SUFFICES ASSUME ModelFilesInit PROVE FilesInv
  OBVIOUS
<1>1. FilesTyped
  BY DEF ModelFilesInit, FilesTyped, Files, FetchRecord, Asleep, FetchSteps, Before
<1>2. \A p \in Fetcher : fetch[p].at = "idle" /\ fetch[p].file = NoFile
  BY DEF ModelFilesInit, Asleep
<1>3. Single /\ Apart /\ Verified /\ InPlace
  BY <1>2 DEF ModelFilesInit, Single, Apart, MayWrite, Verified, InPlace, Before
<1>4. QED
  BY <1>1, <1>3 DEF FilesInv

(* A byte that is written keeps a file a sequence of bytes. *)
LEMMA WrittenTyped ==
  ASSUME NEW S \in SUBSET Nat, 0 \in S, bytes \in [File -> Seq(S)], NEW p \in Fetcher,
         fetch[p].file \in File, fetch[p].copied \in Nat, NEW b \in S
  PROVE  Written(p, b) \in Seq(S)
<1> DEFINE old == bytes[fetch[p].file]
           at == IF fetch[p].start = 0 THEN fetch[p].copied + 1 ELSE Len(old) + 1
           length == IF at > Len(old) THEN at ELSE Len(old)
<1>1. old \in Seq(S) /\ Len(old) \in Nat
  OBVIOUS
<1>2. at \in Nat /\ length \in Nat
  BY <1>1
<1>3. \A i \in 1..length : (IF i = at THEN b ELSE IF i <= Len(old) THEN old[i] ELSE 0) \in S
  BY <1>1, <1>2
<1> HIDE DEF old, at, length
<1>4. [i \in 1..length |-> IF i = at THEN b ELSE IF i <= Len(old) THEN old[i] ELSE 0] \in Seq(S)
  BY <1>2, <1>3
<1>5. QED
  BY <1>4 DEF Written, old, at, length

(* A fetch that is past its first look has the artifact for itself. *)
LEMMA Quiet ==
  ASSUME Single, NEW p \in Fetcher, fetch[p].at \notin Before, NEW q \in Fetcher, q # p
  PROVE  fetch[q].at \in Before
  BY DEF Single

(* What a step of one fetch leaves of the others. *)
LEMMA Moved ==
  ASSUME FilesTyped, NEW p \in Fetcher, NEW record \in FetchRecord,
         fetch' = [fetch EXCEPT ![p] = record]
  PROVE  /\ fetch' \in [Fetcher -> FetchRecord] /\ fetch'[p] = record
         /\ \A q \in Fetcher : q # p => fetch'[q] = fetch[q]
  BY DEF FilesTyped

(* A step that touches no file keeps the invariant, if the fetch is alone past its first   *)
(* look and has verified what it is about to rename.                                        *)
LEMMA Small ==
  ASSUME FilesTyped, Single, Apart, Verified, InPlace, NEW p \in Fetcher,
         NEW record \in FetchRecord, fetch' = [fetch EXCEPT ![p] = record],
         UNCHANGED <<bytes, part, final>>,
         record.at \in Before \/ \A q \in Fetcher : q # p => fetch[q].at \in Before,
         MayWrite(record), record.at # "discard",
         record.at \in {"place", "rename"} => part = NoFile \/ Whole(part)
  PROVE  FilesInv'
<1>1. /\ fetch' \in [Fetcher -> FetchRecord] /\ fetch'[p] = record
      /\ \A q \in Fetcher : q # p => fetch'[q] = fetch[q]
  BY Moved
<1>2. FilesTyped'
  BY <1>1 DEF FilesTyped
<1>3. Single'
  BY <1>1 DEF Single
<1>4. Apart'
  BY <1>1 DEF Apart, MayWrite
<1>5. Verified' /\ InPlace'
  BY <1>1 DEF Verified, InPlace, Whole
<1>6. QED
  BY <1>2, <1>3, <1>4, <1>5 DEF FilesInv

(* A create finds a file that is not the one in place. *)
LEMMA FreshFile ==
  ASSUME FilesTyped, Single, Apart, NEW p \in Fetcher, fetch[p].at = "request", part = NoFile
  PROVE  (CHOOSE u \in Unused : TRUE) \in File \ {final}
<1>1. \A q \in Fetcher : fetch[q].file = NoFile
  <2>1. fetch[p].file = NoFile
    BY DEF Apart, MayWrite
  <2>2. \A q \in Fetcher : q # p => fetch[q].at \in Before
    BY Quiet DEF Before
  <2>3. QED
    BY <2>1, <2>2 DEF Apart, MayWrite
<1>2. PICK f \in File : f # final
  <2>1. <<p, 1>> \in File /\ <<p, 2>> \in File /\ <<p, 1>> # <<p, 2>>
    BY DEF File
  <2>2. QED
    BY <2>1
<1>3. f \in Unused
  BY <1>1, <1>2, NoFileAssumption DEF Unused
<1>4. QED
  BY <1>3 DEF Unused

(* Every step of a fetch keeps the invariant. *)
LEMMA FetchKeeps ==
  ASSUME FilesInv, ~overlap, ~overlap', NEW p \in Fetcher,
         FetchStep(p) \/ TransferFails(p) \/ FetchStops(p)
  PROVE  FilesInv'
<1>0. FilesTyped /\ Single /\ Apart /\ Verified /\ InPlace
  BY DEF FilesInv
<1> DEFINE Ends == fetch' = [fetch EXCEPT ![p] = Asleep]
           Goes(step) == fetch' = [fetch EXCEPT ![p] = [fetch[p] EXCEPT !.at = step]]
           Still == UNCHANGED <<bytes, part, final>>
<1>a. ASSUME Ends, Still PROVE FilesInv'
  <2>1. Asleep \in FetchRecord
    BY DEF Asleep, FetchRecord, Files, FetchSteps, Before
  <2>2. Asleep.at = "idle" /\ MayWrite(Asleep)
    BY DEF Asleep, MayWrite
  <2>3. QED
    BY <1>0, <1>a, <2>1, <2>2, Small DEF Before
<1>b. ASSUME NEW step \in FetchSteps, Goes(step), Still, step # "discard",
             step \in Before \/ fetch[p].at \notin Before
                \/ \A q \in Fetcher : q # p => fetch[q].at \in Before,
             step \in Before \cup {"size", "request"} => fetch[p].file = NoFile,
             step # "copy",
             step \in {"place", "rename"} => part = NoFile \/ Whole(part)
      PROVE  FilesInv'
  <2> DEFINE record == [fetch[p] EXCEPT !.at = step]
  <2>1. record \in FetchRecord /\ record.at = step /\ record.file = fetch[p].file
    BY <1>0, <1>b DEF FilesTyped, FetchRecord
  <2>2. MayWrite(record)
    BY <1>b, <2>1 DEF MayWrite
  <2>3. step \in Before \/ \A q \in Fetcher : q # p => fetch[q].at \in Before
    BY <1>0, <1>b, Quiet
  <2>4. QED
    BY <1>0, <1>b, <2>1, <2>2, <2>3, Small
<1>c. fetch[p].at \in Before \cup {"size", "request"} => fetch[p].file = NoFile
  BY <1>0 DEF Apart, MayWrite
<1> USE DEF FetchAt, FetchGo, FetchEnds, Refused, Before, FetchSteps
<1>1. CASE BeginFetch(p)
  BY <1>1, <1>b, <1>c DEF BeginFetch
<1>2. CASE Inspect(p)
  BY <1>0, <1>2, <1>b, <1>c DEF Inspect, InPlace
<1>3. CASE Discard(p)
  BY <1>0, <1>3 DEF Discard, Apart
<1>4. CASE CheckFinal(p)
  <2>1. CASE Ends
    BY <1>4, <1>a, <2>1 DEF CheckFinal
  <2>2. CASE Goes("size")
    <3>1. \A q \in Fetcher : q # p => fetch[q].at \in Before
      BY <1>4, <2>2, <1>0, ZenonT(30) DEF CheckFinal, Asleep, FilesTyped, FetchRecord
    <3>2. QED
      BY <1>4, <2>2, <3>1, <1>b, <1>c DEF CheckFinal
  <2>3. QED
    BY <1>4, <2>1, <2>2 DEF CheckFinal
<1>5. CASE SizePart(p)
  <2>1. CASE Ends
    BY <1>5, <1>a, <2>1 DEF SizePart
  <2>2. CASE Goes("verify")
    BY <1>5, <2>2, <1>b DEF SizePart
  <2>3. ASSUME NEW length \in Nat,
               fetch' = [fetch EXCEPT ![p].at = "request", ![p].start = length]
        PROVE  FilesInv'
    <3> DEFINE record == [fetch[p] EXCEPT !.at = "request", !.start = length]
    <3>1. fetch' = [fetch EXCEPT ![p] = record]
      BY <1>0, <2>3 DEF FilesTyped
    <3>2. record \in FetchRecord /\ record.at = "request" /\ record.file = NoFile
      BY <1>0, <1>c, <1>5 DEF SizePart, FilesTyped, FetchRecord
    <3>3. \A q \in Fetcher : q # p => fetch[q].at \in Before
      BY <1>0, <1>5, Quiet DEF SizePart
    <3>4. MayWrite(record) /\ Still
      BY <1>5, <3>2 DEF SizePart, MayWrite
    <3>5. QED
      BY <1>0, <3>1, <3>2, <3>3, <3>4, Small
  <2>4. part # NoFile => Len(bytes[part]) \in Nat
    BY <1>0 DEF FilesTyped, Files
  <2>5. QED
    BY <1>5, <2>1, <2>2, <2>3, <2>4 DEF SizePart
<1>6. CASE OpenCreated(p)
  <2>1. PICK f \in File : /\ f # final /\ part' = f
                          /\ bytes' = [bytes EXCEPT ![f] = <<>>]
                          /\ fetch' = [fetch EXCEPT ![p] =
                                 [at |-> "copy", file |-> f, start |-> 0, copied |-> 0]]
    <3>1. part # NoFile => part \in File /\ part # final
      BY <1>0 DEF FilesTyped, Files, Apart
    <3>2. part = NoFile => (CHOOSE u \in Unused : TRUE) \in File \ {final}
      BY <1>0, <1>6, FreshFile DEF OpenCreated
    <3>3. QED
      BY <1>6, <3>1, <3>2 DEF OpenCreated
  <2> DEFINE record == [at |-> "copy", file |-> f, start |-> 0, copied |-> 0]
  <2>2. record \in FetchRecord
    BY DEF FetchRecord, Files
  <2>3. /\ fetch' \in [Fetcher -> FetchRecord] /\ fetch'[p] = record
        /\ \A q \in Fetcher : q # p => fetch'[q] = fetch[q]
    BY <1>0, <2>1, <2>2, Moved
  <2>4. \A q \in Fetcher : q # p => fetch[q].at \in {"idle", "inspect", "check"}
    BY <1>0, <1>6, Quiet DEF OpenCreated
  <2>5. FilesTyped'
    BY <1>0, <1>6, <2>1, <2>3 DEF OpenCreated, FilesTyped, Files
  <2>6. Single'
    BY <2>3, <2>4 DEF Single
  <2>7. Apart'
    BY <1>0, <1>6, <2>1, <2>3, NoFileAssumption DEF OpenCreated, Apart, MayWrite
  <2>8. Verified'
    BY <2>3, <2>4 DEF Verified
  <2>9. InPlace'
    BY <1>0, <1>6, <2>1 DEF OpenCreated, FilesTyped, Files, InPlace, Whole
  <2>10. QED
    BY <2>5, <2>6, <2>7, <2>8, <2>9 DEF FilesInv
<1>7. CASE OpenAppended(p)
  <2>1. CASE part = NoFile
    BY <1>7, <1>a, <2>1 DEF OpenAppended
  <2>2. CASE part # NoFile
    <3> DEFINE record == [fetch[p] EXCEPT !.at = "copy", !.file = part]
    <3>1. fetch' = [fetch EXCEPT ![p] = record]
      BY <1>0, <1>7, <2>2 DEF OpenAppended, FilesTyped
    <3>2. record \in FetchRecord /\ record.at = "copy" /\ record.file = part
      BY <1>0 DEF FilesTyped, FetchRecord
    <3>3. MayWrite(record) /\ Still
      BY <1>0, <1>7, <2>2, <3>2 DEF OpenAppended, MayWrite, Apart
    <3>4. \A q \in Fetcher : q # p => fetch[q].at \in Before
      BY <1>0, <1>7, Quiet DEF OpenAppended
    <3>5. QED
      BY <1>0, <3>1, <3>2, <3>3, <3>4, Small
  <2>3. QED
    BY <2>1, <2>2
<1>8. CASE CopyByte(p)
  <2>1. /\ fetch[p].file \in File /\ fetch[p].file # final
        /\ \A q \in Fetcher : q # p => fetch[q].at \in {"idle", "inspect", "check"}
    BY <1>0, <1>8, Quiet DEF CopyByte, FilesTyped, FetchRecord, Files, Apart, MayWrite
  <2>2. PICK b \in Nat : bytes' = [bytes EXCEPT ![fetch[p].file] = Written(p, b)]
    <3>1. Copied(p) + 1 \in Nat /\ 0 \in Nat
      BY <1>0 DEF Copied, FilesTyped, FetchRecord
    <3>2. QED
      BY <1>8, <3>1 DEF CopyByte
  <2> DEFINE record == [fetch[p] EXCEPT !.copied = @ + 1]
  <2>3. record \in FetchRecord /\ record.at = "copy" /\ record.file = fetch[p].file
    <3>1. fetch[p] \in FetchRecord /\ fetch[p].copied + 1 \in Nat /\ fetch[p].at = "copy"
      BY <1>0, <1>8 DEF CopyByte, FilesTyped, FetchRecord
    <3>2. QED
      BY <3>1 DEF FetchRecord
  <2>4. /\ fetch' \in [Fetcher -> FetchRecord] /\ fetch'[p] = record
        /\ \A q \in Fetcher : q # p => fetch'[q] = fetch[q]
    BY <1>0, <1>8, <2>3, Moved DEF CopyByte
  <2>5. FilesTyped'
    <3>1. Written(p, b) \in Seq(Nat)
      BY <1>0, <2>1, WrittenTyped DEF FilesTyped, FetchRecord
    <3>2. QED
      BY <1>0, <1>8, <2>1, <2>2, <2>4, <3>1 DEF CopyByte, FilesTyped
  <2>6. Single' /\ Verified'
    BY <2>1, <2>3, <2>4 DEF Single, Verified
  <2>7. Apart'
    BY <1>0, <1>8, <2>1, <2>3, <2>4, NoFileAssumption DEF CopyByte, Apart, MayWrite
  <2>8. InPlace'
    BY <1>0, <1>8, <2>1, <2>2 DEF CopyByte, FilesTyped, Files, InPlace, Whole
  <2>9. QED
    BY <2>5, <2>6, <2>7, <2>8 DEF FilesInv
<1>9. CASE BodyEnds(p)
  BY <1>9, <1>b DEF BodyEnds
<1>10. CASE Measure(p)
  <2>1. CASE Ends
    BY <1>10, <1>a, <2>1 DEF Measure
  <2>2. CASE Goes("verify")
    BY <1>10, <2>2, <1>b DEF Measure
  <2>3. QED
    BY <1>10, <2>1, <2>2 DEF Measure
<1>11. CASE Verify(p)
  <2>1. CASE Ends
    BY <1>11, <1>a, <2>1 DEF Verify
  <2>2. CASE Goes("place") /\ Whole(part)
    BY <1>11, <2>2, <1>b DEF Verify
  <2>3. QED
    BY <1>11, <2>1, <2>2 DEF Verify
<1>12. CASE Place(p)
  <2>1. CASE Ends
    BY <1>12, <1>a, <2>1 DEF Place
  <2>2. CASE Goes("rename")
    BY <1>0, <1>12, <2>2, <1>b DEF Place, Verified
  <2>3. QED
    BY <1>12, <2>1, <2>2 DEF Place
<1>13. CASE Rename(p)
  <2>1. CASE part = NoFile
    BY <1>13, <1>a, <2>1 DEF Rename
  <2>2. CASE part # NoFile
    <3>1. Asleep \in FetchRecord /\ Asleep.at = "idle" /\ Asleep.file = NoFile
      BY DEF Asleep, FetchRecord, Files
    <3>2. /\ fetch' \in [Fetcher -> FetchRecord] /\ fetch'[p] = Asleep
          /\ \A q \in Fetcher : q # p => fetch'[q] = fetch[q]
      BY <1>0, <1>13, <3>1, Moved DEF Rename
    <3>3. \A q \in Fetcher : q # p => fetch[q].at \in {"idle", "inspect", "check"}
      BY <1>0, <1>13, Quiet DEF Rename
    <3>4. FilesTyped'
      BY <1>0, <1>13, <2>2, <3>2 DEF Rename, FilesTyped, Files
    <3>5. Single' /\ Verified'
      BY <3>1, <3>2, <3>3 DEF Single, Verified
    <3>6. Apart'
      BY <1>0, <1>13, <2>2, <3>1, <3>2, <3>3 DEF Rename, Apart, MayWrite
    <3>7. InPlace'
      BY <1>0, <1>13, <2>2 DEF Rename, Verified, InPlace, Whole
    <3>8. QED
      BY <3>4, <3>5, <3>6, <3>7 DEF FilesInv
  <2>3. QED
    BY <2>1, <2>2
<1>14. CASE TransferFails(p)
  BY <1>14, <1>a DEF TransferFails
<1>15. CASE FetchStops(p)
  BY <1>15, <1>a DEF FetchStops
<1>16. QED
  BY <1>1, <1>2, <1>3, <1>4, <1>5, <1>6, <1>7, <1>8, <1>9, <1>10, <1>11, <1>12, <1>13, <1>14,
     <1>15 DEF FetchStep, Transfer

(* Two fetches that have overlapped have overlapped for good. *)
LEMMA OverlapStays == overlap /\ [ModelFilesNext]_modelFilesVars => overlap'
  BY DEF ModelFilesNext, modelFilesVars, FetchStep, Transfer, BeginFetch, Inspect, Discard,
         CheckFinal, SizePart, OpenCreated, OpenAppended, CopyByte, BodyEnds, Measure, Verify,
         Place, Rename, TransferFails, FetchStops, CleanupFailed, MoveAway

(* For any artifact and any number of fetches, faults, kills and cleanups: as long as no two *)
(* fetches were under way at once, what is in place is whole (verify_model_artifact_file,     *)
(* place_verified_artifact).                                                                   *)
THEOREM AlwaysWhole == ModelFilesSpec => []PlacedWhole
<1>1. ModelFilesInit => FilesInv
  BY FilesStart
<1>2. FilesInv /\ [ModelFilesNext]_modelFilesVars => FilesInv'
  <2> SUFFICES ASSUME FilesInv, [ModelFilesNext]_modelFilesVars, ~overlap' PROVE FilesInv'
    BY DEF FilesInv
  <2>1. ~overlap
    BY OverlapStays
  <2>2. CASE CleanupFailed \/ MoveAway
    BY <2>1, <2>2 DEF CleanupFailed, MoveAway, FilesInv, FilesTyped, Files, Single, Apart,
       MayWrite, Verified, InPlace, Whole
  <2>3. CASE UNCHANGED modelFilesVars
    BY <2>1, <2>3 DEF modelFilesVars, FilesInv, FilesTyped, Single, Apart, MayWrite, Verified,
       InPlace, Whole
  <2>4. QED
    BY <2>1, <2>2, <2>3, FetchKeeps DEF ModelFilesNext
<1>3. FilesInv => PlacedWhole
  BY DEF FilesInv, InPlace, PlacedWhole
<1>4. QED
  BY <1>1, <1>2, <1>3, PTL DEF ModelFilesSpec

(* A fetch is always described by the four fields of a record. *)
Shaped == fetch = [p \in Fetcher |-> [at |-> fetch[p].at, file |-> fetch[p].file,
                                       start |-> fetch[p].start, copied |-> fetch[p].copied]]

LEMMA ShapeKept == Shaped /\ [ModelFilesNext]_modelFilesVars => Shaped'
<1> SUFFICES ASSUME Shaped, [ModelFilesNext]_modelFilesVars PROVE Shaped'
  OBVIOUS
<1> USE DEF FetchGo, FetchEnds, Refused, Asleep
<1>1. ASSUME NEW p \in Fetcher, FetchStep(p) \/ TransferFails(p) \/ FetchStops(p)
      PROVE  Shaped'
  <2>1. CASE BeginFetch(p) \/ Inspect(p) \/ Discard(p) \/ CheckFinal(p)
    BY <2>1 DEF Shaped, BeginFetch, Inspect, Discard, CheckFinal
  <2>2. CASE SizePart(p) \/ Measure(p) \/ Verify(p) \/ Place(p)
    BY <2>2 DEF Shaped, SizePart, Measure, Verify, Place
  <2>3. CASE OpenCreated(p) \/ OpenAppended(p)
    BY <2>3 DEF Shaped, OpenCreated, OpenAppended
  <2>4. CASE CopyByte(p) \/ BodyEnds(p)
    BY <2>4 DEF Shaped, CopyByte, BodyEnds
  <2>5. CASE Rename(p) \/ TransferFails(p) \/ FetchStops(p)
    BY <2>5 DEF Shaped, Rename, TransferFails, FetchStops
  <2>6. QED
    BY <1>1, <2>1, <2>2, <2>3, <2>4, <2>5 DEF FetchStep, Transfer
<1>2. CASE CleanupFailed \/ MoveAway \/ UNCHANGED modelFilesVars
  BY <1>2 DEF Shaped, CleanupFailed, MoveAway, modelFilesVars
<1>3. QED
  BY <1>1, <1>2 DEF ModelFilesNext

(* For any artifact and any number of fetches: a whole artifact that no fetch works on stays  *)
(* in place until the user moves it (remove_invalid_managed_projector and the first look of    *)
(* fetch_evaluation_artifact).                                                                  *)
THEOREM Stays == ModelFilesSpec => StaysSettled
<1>1. ModelFilesInit => Shaped
  BY DEF ModelFilesInit, Shaped, Asleep
<1>2. ASSUME Shaped, [ModelFilesNext]_modelFilesVars PROVE SettledWhole => SettledWhole' \/ MoveAway
  <2> SUFFICES ASSUME SettledWhole PROVE SettledWhole' \/ MoveAway
    OBVIOUS
  <2> USE <1>2 DEF SettledWhole, Whole
  <2>1. ASSUME NEW p \in Fetcher, BeginFetch(p) \/ Inspect(p) \/ CheckFinal(p)
        PROVE  SettledWhole'
    BY <2>1 DEF BeginFetch, Inspect, CheckFinal, FetchAt, FetchGo, FetchEnds, Refused, Before,
       Asleep, Shaped
  <2>2. ASSUME NEW p \in Fetcher, FetchStep(p) \/ TransferFails(p) \/ FetchStops(p)
        PROVE  BeginFetch(p) \/ Inspect(p) \/ CheckFinal(p)
    BY <2>2 DEF FetchStep, Transfer, Discard, SizePart, OpenCreated, OpenAppended, CopyByte,
       BodyEnds, Measure, Verify, Place, Rename, TransferFails, FetchStops, FetchAt, Before
  <2>3. CASE CleanupFailed \/ UNCHANGED modelFilesVars
    BY <2>3 DEF CleanupFailed, modelFilesVars
  <2>4. QED
    BY <2>1, <2>2, <2>3 DEF ModelFilesNext
<1>3. QED
  BY <1>1, <1>2, ShapeKept, PTL DEF ModelFilesSpec, StaysSettled

-----------------------------------------------------------------------------
(* The shapes hold however fetches overlap.  The one that is not a matter of   *)
(* course: a file that is created is none that a path or a handle is about,    *)
(* and there always is one, since each file has its creator and a second of    *)
(* the same creator.                                                           *)

LEMMA FileLeft ==
  ASSUME NEW p \in Fetcher, part = NoFile, fetch[p].file = NoFile
  PROVE  Unused # {}
<1> SUFFICES ASSUME Unused = {} PROVE FALSE
  OBVIOUS
<1> DEFINE used == [q \in Fetcher |->
                       IF q = p THEN IF final \in File THEN final ELSE <<p, 1>>
                       ELSE IF fetch[q].file \in File THEN fetch[q].file ELSE <<p, 1>>]
           first == [q \in Fetcher |-> <<q, 1>>]
<1>1. IsFiniteSet(Fetcher)
  BY ModelFilesAssumption
<1>2. used \in Surjection(Fetcher, File)
  <2>1. used \in [Fetcher -> File]
    BY DEF File
  <2>2. ASSUME NEW f \in File PROVE \E q \in Fetcher : used[q] = f
    <3>1. f # NoFile
      BY NoFileAssumption
    <3>2. f = final \/ \E q \in Fetcher : q # p /\ fetch[q].file = f
      BY <3>1 DEF Unused
    <3>3. QED
      BY <3>2
  <2> HIDE DEF used
  <2>3. QED
    BY <2>1, <2>2 DEF Surjection
<1>3. IsFiniteSet(File) /\ Cardinality(File) <= Cardinality(Fetcher)
  BY <1>1, <1>2, FS_Surjection
<1>4. first \in Injection(Fetcher, File) /\ first \notin Surjection(Fetcher, File)
  <2>1. first \in [Fetcher -> File]
    BY DEF File
  <2>2. \A a, b \in Fetcher : first[a] = first[b] => a = b
    OBVIOUS
  <2>3. <<p, 2>> \in File /\ ~\E q \in Fetcher : first[q] = <<p, 2>>
    <3>1. \A q \in Fetcher : <<q, 1>> # <<p, 2>>
      OBVIOUS
    <3>2. QED
      BY <3>1 DEF File
  <2> HIDE DEF first
  <2>4. DOMAIN first = Fetcher
    BY <2>1
  <2>5. first \in Injection(Fetcher, File)
    BY <2>1, <2>2, <2>4 DEF Injection, IsInjective
  <2>6. first \notin Surjection(Fetcher, File)
    BY <2>3 DEF Surjection
  <2>7. QED
    BY <2>5, <2>6
<1>5. Cardinality(Fetcher) <= Cardinality(File) /\ Cardinality(Fetcher) # Cardinality(File)
  BY <1>3, <1>4, FS_Injection
<1>6. Cardinality(Fetcher) \in Nat /\ Cardinality(File) \in Nat
  BY <1>1, <1>3, FS_CardinalityType
<1>7. QED
  BY <1>3, <1>5, <1>6

Fetching == [at : FetchSteps, file : Files, start : 0..Size, copied : 0..Size]

(* Before it asks for bytes a fetch keeps nothing, before it opens the body no file. *)
Looking == Before \cup {"discard", "size"}
Fits(record) ==
    /\ record \in Fetching
    /\ record.at \in Looking => record = [Asleep EXCEPT !.at = record.at]
    /\ record.at = "request" => record.file = NoFile
    /\ record.at = "copy" => record.file \in File

FilesFit ==
    /\ managed \in BOOLEAN /\ overlap \in BOOLEAN
    /\ bytes \in [File -> Seq(0..Size)]
    /\ part \in Files /\ final \in Files
    /\ part = final => part = NoFile
    /\ told \in {"nothing", "part", "final"}
FetchesFit == fetch \in [Fetcher -> Fetching] /\ \A p \in Fetcher : Fits(fetch[p])

LEMMA SomeSize == 0 \in 0..Size /\ Size \in Nat /\ 0..Size \in SUBSET Nat /\ <<>> \in Seq(0..Size)
BY ModelFilesAssumption

(* A fetch that goes to sleep, or on to a step with the fields it has. *)
LEMMA OneFits ==
  ASSUME FetchesFit, NEW p \in Fetcher, NEW record, Fits(record),
         fetch' = [fetch EXCEPT ![p] = record]
  PROVE  FetchesFit'
<1>1. fetch' \in [Fetcher -> Fetching]
  BY DEF FetchesFit, Fits
<1>2. \A q \in Fetcher : fetch'[q] = fetch[q] \/ fetch'[q] = record
  BY DEF FetchesFit
<1>3. QED
  BY <1>1, <1>2 DEF FetchesFit

LEMMA EndsFit ==
  ASSUME FetchesFit, NEW p \in Fetcher, FetchEnds(p) PROVE FetchesFit'
<1>1. Fits(Asleep)
  BY SomeSize DEF Fits, Fetching, Asleep, FetchSteps, Looking, Before, Files
<1>2. QED
  BY <1>1, OneFits DEF FetchEnds

LEMMA GoFits ==
  ASSUME FetchesFit, NEW p \in Fetcher, NEW step \in FetchSteps, FetchGo(p, step),
         \/ fetch[p].at \in Looking /\ step # "copy"
         \/ step \notin Looking \cup {"request", "copy"}
  PROVE  FetchesFit'
<1> DEFINE record == [fetch[p] EXCEPT !.at = step]
<1>1. Fits(fetch[p]) /\ fetch[p] \in Fetching
  BY DEF FetchesFit
<1>2. record \in Fetching /\ record.at = step /\ record.file = fetch[p].file
  BY <1>1 DEF Fetching
<1>3. fetch[p].at \in Looking => fetch[p].file = NoFile /\ fetch[p].start = 0 /\ fetch[p].copied = 0
  BY <1>1 DEF Fits, Asleep
<1>4. Fits(record)
  <2>1. step \in Looking => record = [Asleep EXCEPT !.at = step]
    BY <1>1, <1>3 DEF Asleep, Looking, Fetching
  <2>2. QED
    BY <1>1, <1>2, <1>3, <2>1 DEF Fits, Asleep
<1>5. fetch' = [fetch EXCEPT ![p] = record]
  BY DEF FetchGo, FetchesFit
<1>6. QED
  BY <1>4, <1>5, OneFits

(* Every step of a fetch leaves its own shape well. *)
LEMMA FetchFits ==
  ASSUME FilesFit, FetchesFit, NEW p \in Fetcher, FetchStep(p) \/ TransferFails(p) \/ FetchStops(p)
  PROVE  FetchesFit' /\ FilesFit'
<1>0. fetch[p] \in Fetching /\ Fits(fetch[p])
  BY DEF FetchesFit
<1> USE DEF FetchAt, Refused
<1> DEFINE Still == UNCHANGED <<managed, bytes, part, final, overlap>>
<1>a. Still /\ told' \in {told, "part", "final"} => FilesFit'
  BY DEF FilesFit
<1>b. ASSUME NEW step \in {"inspect", "check", "discard", "size", "measure", "verify", "place", "rename"},
             FetchGo(p, step), step \in {"inspect", "check", "discard", "size"} => fetch[p].at \in Looking
      PROVE  FetchesFit'
  <2>1. step \in FetchSteps /\ step # "copy" /\ (fetch[p].at \in Looking \/ step \notin Looking \cup {"request", "copy"})
    BY <1>b DEF FetchSteps, Looking, Before
  <2>2. QED
    BY <1>b, <2>1, GoFits
<1>1. CASE BeginFetch(p) \/ Inspect(p)
  BY <1>1, <1>a, <1>b DEF BeginFetch, Inspect, Looking, Before
<1>2. CASE Discard(p)
  <2>1. FilesFit'
    BY <1>2 DEF Discard, FilesFit, Files
  <2>2. QED
    BY <1>2, <1>b, <2>1, EndsFit DEF Discard, Looking
<1>3. CASE CheckFinal(p)
  <2>1. FilesFit'
    BY <1>3 DEF CheckFinal, FilesFit
  <2>2. QED
    BY <1>3, <1>b, <2>1, EndsFit DEF CheckFinal, Looking, Before
<1>4. CASE SizePart(p)
  <2>1. FilesFit'
    BY <1>4, <1>a DEF SizePart
  <2>2. ASSUME NEW length \in 0..Size,
               fetch' = [fetch EXCEPT ![p].at = "request", ![p].start = length]
        PROVE  FetchesFit'
    <3> DEFINE record == [fetch[p] EXCEPT !.at = "request", !.start = length]
    <3>1. fetch' = [fetch EXCEPT ![p] = record]
      BY <2>2 DEF FetchesFit
    <3>2. record \in Fetching /\ record.at = "request" /\ record.file = fetch[p].file
      BY <1>0 DEF Fetching, FetchSteps
    <3>3. fetch[p].file = NoFile
      BY <1>0, <1>4 DEF SizePart, Fits, Looking, Asleep
    <3>4. Fits(record)
      BY <3>2, <3>3 DEF Fits, Looking, Before
    <3>5. QED
      BY <3>1, <3>4, OneFits
  <2>3. part # NoFile => Len(bytes[part]) \in Nat
    BY DEF FilesFit, Files
  <2>4. QED
    BY <1>4, <1>b, <2>1, <2>2, <2>3, EndsFit, SomeSize DEF SizePart
<1>5. CASE OpenCreated(p)
  <2>1. PICK f \in File : /\ f # final /\ part' = f
                          /\ bytes' = [bytes EXCEPT ![f] = <<>>]
                          /\ fetch' = [fetch EXCEPT ![p] =
                                 [at |-> "copy", file |-> f, start |-> 0, copied |-> 0]]
    <3>1. part # NoFile => part \in File /\ part # final
      BY DEF FilesFit, Files
    <3>2. ASSUME part = NoFile PROVE (CHOOSE u \in Unused : TRUE) \in File \ {final}
      <4>1. fetch[p].file = NoFile
        BY <1>0, <1>5 DEF OpenCreated, Fits
      <4>2. QED
        BY <3>2, <4>1, FileLeft DEF Unused
    <3>3. QED
      BY <1>5, <3>1, <3>2 DEF OpenCreated
  <2>2. FilesFit'
    BY <1>5, <2>1, SomeSize, NoFileAssumption DEF OpenCreated, FilesFit, Files
  <2>3. Fits([at |-> "copy", file |-> f, start |-> 0, copied |-> 0])
    BY SomeSize DEF Fits, Fetching, Files, FetchSteps, Looking, Before
  <2>4. QED
    BY <2>1, <2>2, <2>3, OneFits
<1>6. CASE OpenAppended(p)
  <2>1. FilesFit'
    BY <1>6, <1>a DEF OpenAppended
  <2>2. CASE part # NoFile
    <3> DEFINE record == [fetch[p] EXCEPT !.at = "copy", !.file = part]
    <3>1. fetch' = [fetch EXCEPT ![p] = record]
      BY <1>6, <2>2 DEF OpenAppended, FetchesFit
    <3>2. record \in Fetching /\ record.at = "copy" /\ record.file = part /\ part \in File
      BY <1>0, <2>2 DEF Fetching, FetchSteps, FilesFit, Files
    <3>3. Fits(record)
      BY <3>2 DEF Fits, Looking, Before
    <3>4. QED
      BY <2>1, <3>1, <3>3, OneFits
  <2>3. QED
    BY <1>6, <2>1, <2>2, EndsFit DEF OpenAppended
<1>7. CASE CopyByte(p)
  <2>1. fetch[p].file \in File /\ fetch[p].start \in 0..Size /\ fetch[p].copied \in 0..Size
        /\ fetch[p].start + fetch[p].copied < Size
    BY <1>0, <1>7 DEF CopyByte, Fits, Fetching, Copied
  <2>2. PICK b \in 0..Size : bytes' = [bytes EXCEPT ![fetch[p].file] = Written(p, b)]
    BY <1>7, <2>1, SomeSize DEF CopyByte, Copied
  <2>3. Written(p, b) \in Seq(0..Size)
    BY <2>1, SomeSize, WrittenTyped DEF FilesFit
  <2>4. FilesFit'
    BY <1>7, <2>1, <2>2, <2>3 DEF CopyByte, FilesFit
  <2> DEFINE record == [fetch[p] EXCEPT !.copied = @ + 1]
  <2>5. fetch[p].copied + 1 \in 0..Size
    BY <2>1, SomeSize
  <2>6. record \in Fetching /\ record.at = "copy" /\ record.file = fetch[p].file
    BY <1>0, <1>7, <2>5 DEF CopyByte, Fetching
  <2>7. Fits(record)
    BY <2>1, <2>6 DEF Fits, Looking, Before
  <2>8. fetch' = [fetch EXCEPT ![p] = record]
    BY <1>7 DEF CopyByte, FetchesFit
  <2>9. QED
    BY <2>4, <2>7, <2>8, OneFits
<1>8. CASE BodyEnds(p) \/ Measure(p)
  BY <1>8, <1>a, <1>b, EndsFit DEF BodyEnds, Measure
<1>9. CASE Verify(p) \/ Place(p)
  BY <1>9, <1>a, <1>b, EndsFit DEF Verify, Place
<1>10. CASE Rename(p)
  <2>1. FilesFit'
    BY <1>10 DEF Rename, FilesFit, Files
  <2>2. QED
    BY <1>10, <2>1, EndsFit DEF Rename
<1>11. CASE TransferFails(p) \/ FetchStops(p)
  BY <1>11, <1>a, EndsFit DEF TransferFails, FetchStops
<1>12. QED
  BY <1>1, <1>2, <1>3, <1>4, <1>5, <1>6, <1>7, <1>8, <1>9, <1>10, <1>11 DEF FetchStep, Transfer

(* For any finite number of fetches, also when they overlap: files, paths and handles keep    *)
(* their shape, no file is at both paths, no create takes a file that is in use; and what is   *)
(* in place is the whole artifact unless fetches overlapped (fetch_evaluation_artifact,        *)
(* download_model_artifact_stream, place_verified_artifact).                                   *)
THEOREM WholeAndTyped == ModelFilesSpec => []ModelWhole
<1>1. ModelFilesInit => FilesFit /\ FetchesFit
  <2> SUFFICES ASSUME ModelFilesInit PROVE FilesFit /\ FetchesFit
    OBVIOUS
  <2>1. Fits(Asleep)
    BY SomeSize DEF Fits, Fetching, Asleep, FetchSteps, Looking, Before, Files
  <2>2. FetchesFit
    BY <2>1 DEF ModelFilesInit, FetchesFit, Fits
  <2>3. FilesFit
    BY SomeSize DEF ModelFilesInit, FilesFit, Files
  <2>4. QED
    BY <2>2, <2>3
<1>2. FilesFit /\ FetchesFit /\ [ModelFilesNext]_modelFilesVars => (FilesFit /\ FetchesFit)'
  <2> SUFFICES ASSUME FilesFit, FetchesFit, [ModelFilesNext]_modelFilesVars
               PROVE  FilesFit' /\ FetchesFit'
    OBVIOUS
  <2>1. CASE CleanupFailed \/ MoveAway \/ UNCHANGED modelFilesVars
    BY <2>1 DEF CleanupFailed, MoveAway, modelFilesVars, FilesFit, Files, FetchesFit
  <2>2. QED
    BY <2>1, FetchFits DEF ModelFilesNext
<1>3. FilesFit /\ FetchesFit => ModelFilesTypeOK
  BY DEF FilesFit, Files, FetchesFit, Fetching, Fits, Looking, ModelFilesTypeOK
<1>4. QED
  BY <1>1, <1>2, <1>3, AlwaysWhole, PTL DEF ModelFilesSpec, ModelWhole

-----------------------------------------------------------------------------
(* The installation. *)

Steps == {"rest", "lease", "copy", "inactive", "target", "pending", "spawn", "own", "path",
          "pathown", "unpath", "unpathown", "wipe", "remove", "disown", "apply", "sign",
          "spawnscript", "record", "over"}

CmdTyped ==
    /\ cmd \in [Command -> [kind : Kinds \cup {"none"}, do : Steps, installed : BOOLEAN]]
    /\ \A p \in Command : cmd[p].do # "rest" => cmd[p].kind \in Kinds

(* The command has made sure that no backend is recorded, and not yet wiped the data. *)
PastCheck(p) ==
    \/ cmd[p].do \in {"unpath", "unpathown", "wipe"}
    \/ cmd[p].kind = "clean" /\ cmd[p].do \in {"copy", "own", "path", "pathown"}
Checked == \A p \in Command : PastCheck(p) => backend # "recorded"

(* A backend between its spawn and its record has its data, and its starter holds the lease. *)
Spawned == backend = "spawned" => state /\ \E p \in Command : CmdAt(p, "record")

(* Windows keeps a binary that runs, and its update moves it aside at most. *)
RunsThere == InUse => binary \/ rollback

(* What an install is about to record can be found, or a script is to blame. *)
ToRecord ==
    windows /\ ~binary /\ (\E p \in Command : CmdAt(p, "own")) => rollback \/ swept \/ removed

InstallInv ==
    InstallKept /\ CmdTyped /\ Checked /\ Spawned /\ RunsThere /\ ToRecord

(* The initial states satisfy the invariant. *)
LEMMA InstallStarts == SystemInstallInit => InstallInv
<1> SUFFICES ASSUME SystemInstallInit PROVE InstallInv
  OBVIOUS
<1> USE SystemInstallAssumption DEF SystemInstallInit, Idle
<1>1. \A p \in Command : cmd[p] = Idle
  OBVIOUS
<1>2. SystemInstallTypeOK
  BY <1>1 DEF SystemInstallTypeOK
<1>3. CmdTyped
  BY <1>1 DEF CmdTyped, Kinds, Steps
<1>4. Checked /\ Spawned /\ StateKept /\ OwnedFound
  BY DEF Checked, Spawned, StateKept, OwnedFound
<1>5. RunsThere /\ ToRecord
  BY <1>1 DEF RunsThere, ToRecord, InUse, CmdAt
<1>6. QED
  BY <1>2, <1>3, <1>4, <1>5 DEF InstallInv, InstallKept

USE SystemInstallAssumption
    DEF CmdAt, CmdGo, CmdOver, Charge, Binaries, Paths, Scripts, Kinds, Steps, Idle

(* Every step of a command keeps the invariant. *)
LEMMA CommandKeeps ==
  ASSUME InstallInv, NEW p \in Command, CmdStep(p) \/ CmdDies(p) \/
         \E kind \in Kinds, installed \in BOOLEAN : Invoke(p, kind, installed)
  PROVE  InstallInv'
<1> USE DEF InstallInv, InstallKept, SystemInstallTypeOK, OwnedFound, StateKept, CmdTyped,
            Checked, PastCheck, Spawned, RunsThere, ToRecord, InUse
<1>1. CASE \E kind \in Kinds, installed \in BOOLEAN : Invoke(p, kind, installed)
  BY <1>1 DEF Invoke
<1>2. CASE AcquireTransition(p)
  BY <1>2, SMTT(30) DEF AcquireTransition, FirstStep
<1>3. CASE CopyBinary(p)
  <2>1. SystemInstallTypeOK'
    <3>1. ({windows, binary, rollback, owned, onPath, pathOwned, state, swept, removed}
              \subseteq BOOLEAN)'
      BY <1>3, ZenonT(30) DEF CopyBinary
    <3>2. (transition \in Command \cup {NoCommand} /\ marker \in {"none", "empty", "signed"}
           /\ backend \in {"none", "spawned", "recorded", "lost"} /\ orphan \subseteq {"binary", "path"})'
      BY <1>3 DEF CopyBinary
    <3>3. (\A q \in Command : cmd[q].do \notin {"rest", "lease", "over"} <=> transition = q)'
      BY <1>3 DEF CopyBinary
    <3>4. QED
      BY <3>1, <3>2, <3>3
  <2>2. CmdTyped'
    BY <1>3 DEF CopyBinary
  <2>3. (OwnedFound /\ ToRecord /\ RunsThere)'
    BY <1>3 DEF CopyBinary
  <2>4. (StateKept /\ Checked /\ Spawned)'
    BY <1>3 DEF CopyBinary
  <2>5. QED
    BY <2>1, <2>2, <2>3, <2>4
<1>4. CASE RecordOwnership(p)
  <2>1. SystemInstallTypeOK'
    BY <1>4 DEF RecordOwnership
  <2>2. CmdTyped'
    BY <1>4 DEF RecordOwnership
  <2>3. (OwnedFound /\ ToRecord /\ RunsThere)'
    BY <1>4, ZenonT(30) DEF RecordOwnership
  <2>4. (StateKept /\ Checked /\ Spawned)'
    BY <1>4 DEF RecordOwnership
  <2>5. QED
    BY <2>1, <2>2, <2>3, <2>4
<1>5. CASE EnsurePath(p)
  BY <1>5 DEF EnsurePath, AfterPath
<1>6. CASE RecordPath(p)
  BY <1>6 DEF RecordPath, AfterPath
<1>7. CASE CheckPending(p)
  BY <1>7 DEF CheckPending
<1>8. CASE RequireInactive(p)
  BY <1>8 DEF RequireInactive
<1>9. CASE RemovePath(p)
  BY <1>9 DEF RemovePath
<1>10. CASE RemovePathRecord(p)
  <2>1. SystemInstallTypeOK'
    <3>1. ({windows, binary, rollback, owned, onPath, pathOwned, state, swept, removed}
              \subseteq BOOLEAN)'
      BY <1>10 DEF RemovePathRecord
    <3>2. (transition \in Command \cup {NoCommand} /\ marker \in {"none", "empty", "signed"}
           /\ backend \in {"none", "spawned", "recorded", "lost"} /\ orphan \subseteq {"binary", "path"})'
      BY <1>10 DEF RemovePathRecord
    <3>3. (\A q \in Command : cmd[q].do \notin {"rest", "lease", "over"} <=> transition = q)'
      BY <1>10 DEF RemovePathRecord
    <3>4. QED
      BY <3>1, <3>2, <3>3
  <2>2. CmdTyped'
    BY <1>10 DEF RemovePathRecord
  <2>3. (OwnedFound /\ ToRecord /\ RunsThere)'
    BY <1>10 DEF RemovePathRecord
  <2>4. (StateKept /\ Checked /\ Spawned)'
    BY <1>10 DEF RemovePathRecord
  <2>5. QED
    BY <2>1, <2>2, <2>3, <2>4
<1>11. CASE Wipe(p)
  <2>1. SystemInstallTypeOK'
    <3>1. ({windows, binary, rollback, owned, onPath, pathOwned, state, swept, removed}
              \subseteq BOOLEAN)'
      BY <1>11 DEF Wipe
    <3>2. (transition \in Command \cup {NoCommand} /\ marker \in {"none", "empty", "signed"}
           /\ backend \in {"none", "spawned", "recorded", "lost"} /\ orphan \subseteq {"binary", "path"})'
      BY <1>11 DEF Wipe
    <3>3. (\A q \in Command : cmd[q].do \notin {"rest", "lease", "over"} <=> transition = q)'
      BY <1>11 DEF Wipe
    <3>4. QED
      BY <3>1, <3>2, <3>3
  <2>2. CmdTyped'
    BY <1>11 DEF Wipe
  <2>3. (OwnedFound /\ ToRecord /\ RunsThere)'
    BY <1>11 DEF Wipe
  <2>4. (StateKept /\ Checked /\ Spawned)'
    BY <1>11 DEF Wipe
  <2>5. QED
    BY <2>1, <2>2, <2>3, <2>4
<1>12. CASE RemoveBinary(p)
  <2>1. SystemInstallTypeOK'
    <3>1. ({windows, binary, rollback, owned, onPath, pathOwned, state, swept, removed}
              \subseteq BOOLEAN)'
      BY <1>12, ZenonT(30) DEF RemoveBinary
    <3>2. (transition \in Command \cup {NoCommand} /\ marker \in {"none", "empty", "signed"}
           /\ backend \in {"none", "spawned", "recorded", "lost"} /\ orphan \subseteq {"binary", "path"})'
      BY <1>12 DEF RemoveBinary
    <3>3. (\A q \in Command : cmd[q].do \notin {"rest", "lease", "over"} <=> transition = q)'
      BY <1>12 DEF RemoveBinary
    <3>4. QED
      BY <3>1, <3>2, <3>3
  <2>2. CmdTyped'
    BY <1>12 DEF RemoveBinary
  <2>3. (OwnedFound /\ ToRecord /\ RunsThere)'
    BY <1>12 DEF RemoveBinary
  <2>4. (StateKept /\ Checked /\ Spawned)'
    BY <1>12 DEF RemoveBinary
  <2>5. QED
    BY <2>1, <2>2, <2>3, <2>4
<1>13. CASE Disown(p)
  <2>1. SystemInstallTypeOK'
    <3>1. ({windows, binary, rollback, owned, onPath, pathOwned, state, swept, removed}
              \subseteq BOOLEAN)'
      BY <1>13 DEF Disown
    <3>2. (transition \in Command \cup {NoCommand} /\ marker \in {"none", "empty", "signed"}
           /\ backend \in {"none", "spawned", "recorded", "lost"} /\ orphan \subseteq {"binary", "path"})'
      BY <1>13 DEF Disown
    <3>3. (\A q \in Command : cmd[q].do \notin {"rest", "lease", "over"} <=> transition = q)'
      BY <1>13 DEF Disown
    <3>4. QED
      BY <3>1, <3>2, <3>3
  <2>2. CmdTyped'
    BY <1>13 DEF Disown
  <2>3. (OwnedFound /\ ToRecord /\ RunsThere)'
    BY <1>13 DEF Disown
  <2>4. (StateKept /\ Checked /\ Spawned)'
    BY <1>13 DEF Disown
  <2>5. QED
    BY <2>1, <2>2, <2>3, <2>4
<1>14. CASE CheckTarget(p)
  BY <1>14 DEF CheckTarget
<1>15. CASE Apply(p)
  BY <1>15 DEF Apply
<1>16. CASE Sign(p)
  BY <1>16 DEF Sign
<1>17. CASE SpawnScript(p)
  BY <1>17 DEF SpawnScript
<1>18. CASE SpawnBackend(p)
  <2>1. SystemInstallTypeOK'
    <3>1. ({windows, binary, rollback, owned, onPath, pathOwned, state, swept, removed}
              \subseteq BOOLEAN)'
      BY <1>18 DEF SpawnBackend
    <3>2. (transition \in Command \cup {NoCommand} /\ marker \in {"none", "empty", "signed"}
           /\ backend \in {"none", "spawned", "recorded", "lost"} /\ orphan \subseteq {"binary", "path"})'
      BY <1>18 DEF SpawnBackend
    <3>3. (\A q \in Command : cmd[q].do \notin {"rest", "lease", "over"} <=> transition = q)'
      BY <1>18 DEF SpawnBackend
    <3>4. QED
      BY <3>1, <3>2, <3>3
  <2>2. CmdTyped'
    BY <1>18 DEF SpawnBackend
  <2>3. (OwnedFound /\ ToRecord /\ RunsThere)'
    BY <1>18 DEF SpawnBackend
  <2>4. (StateKept /\ Checked /\ Spawned)'
    BY <1>18 DEF SpawnBackend
  <2>5. QED
    BY <2>1, <2>2, <2>3, <2>4
<1>19. CASE RecordBackend(p)
  BY <1>19 DEF RecordBackend
<1>20. CASE Exit(p)
  BY <1>20 DEF Exit
<1>21. CASE CmdDies(p)
  BY <1>21 DEF CmdDies
<1>22. QED
  BY <1>1, <1>2, <1>3, <1>4, <1>5, <1>6, <1>7, <1>8, <1>9, <1>10, <1>11, <1>12, <1>13, <1>14,
     <1>15, <1>16, <1>17, <1>18, <1>19, <1>20, <1>21
  DEF CmdStep, Install, Uninstall, Update

(* Every step of a script and every end of a backend keeps the invariant. *)
LEMMA ScriptKeeps ==
  ASSUME InstallInv, ScriptStep \/ ScriptDies \/ StopBackend
  PROVE  InstallInv'
<1> USE DEF InstallInv, InstallKept, SystemInstallTypeOK, OwnedFound, StateKept, CmdTyped,
            Checked, PastCheck, Spawned, RunsThere, ToRecord, InUse
<1>1. CASE UpdaterWaits
  BY <1>1 DEF UpdaterWaits, UpdaterAt, UpdaterGo
<1>2. CASE MoveAside
  BY <1>2, ZenonT(30) DEF MoveAside, UpdaterAt, UpdaterGo
<1>3. CASE MoveInPlace
  BY <1>3, ZenonT(60) DEF MoveInPlace, UpdaterAt, UpdaterGo
<1>4. CASE Finish
  BY <1>4 DEF Finish, UpdaterAt
<1>5. CASE Sweep
  BY <1>5 DEF Sweep
<1>6. CASE ScriptDies
  BY <1>6, ZenonT(30) DEF ScriptDies
<1>7. CASE StopBackend
  BY <1>7 DEF StopBackend
<1>8. QED
  BY <1>1, <1>2, <1>3, <1>4, <1>5, <1>6, <1>7 DEF ScriptStep

(* For any number of processes, of commands and of kills: a backend that is recorded keeps   *)
(* its application data, and a binary whose ownership is recorded can be found (the lease of  *)
(* start_sidecar and execute_clean_uninstall; install_binary, the scripts of the updates).    *)
THEOREM Kept == SystemInstallSpec => []InstallKept
<1>1. SystemInstallInit => InstallInv
  BY InstallStarts
<1>2. InstallInv /\ [SystemInstallNext]_systemInstallVars => InstallInv'
  <2>1. CASE UNCHANGED systemInstallVars
    BY <2>1 DEF systemInstallVars, InstallInv, InstallKept, SystemInstallTypeOK, OwnedFound,
       StateKept, CmdTyped, Checked, PastCheck, Spawned, RunsThere, ToRecord, InUse
  <2>2. CASE SystemInstallNext
    BY <2>2, CommandKeeps, ScriptKeeps DEF SystemInstallNext
  <2>3. QED
    BY <2>1, <2>2
<1>3. InstallInv => InstallKept
  BY DEF InstallInv
<1>4. QED
  BY <1>1, <1>2, <1>3, PTL DEF SystemInstallSpec
-----------------------------------------------------------------------------
(* The search of one file.  What the scan has reported and what it keeps of the *)
(* line it is in are what the bytes read so far say, however they were cut.     *)

(* A window on a sequence. *)
LEMMA Window ==
  ASSUME NEW S, NEW s \in Seq(S), NEW a \in 1 .. Len(s) + 1, NEW n \in a - 1 .. Len(s)
  PROVE  /\ SubSeq(s, a, n) \in Seq(S) /\ Len(SubSeq(s, a, n)) = n - a + 1
         /\ \A i \in 1 .. n - a + 1 : SubSeq(s, a, n)[i] = s[a + i - 1]
<1>1. CASE a <= n
  <2>1. /\ a \in 1 .. Len(s) + 1 /\ n \in 0 .. Len(s) /\ Len(s) \in Nat
    BY <1>1
  <2> QED  BY <1>1, <2>1, SubSeqProperties
<1>2. CASE a = n + 1
  <2>1. SubSeq(s, a, n) = <<>>
    BY <1>2, SubSeqEmpty
  <2> QED  BY <1>2, <2>1
<1> QED  BY <1>1, <1>2

LEMMA SameWindow ==
  ASSUME NEW S, NEW s \in Seq(S), NEW t \in Seq(S),
         NEW a \in 1 .. Len(s) + 1, NEW n \in a - 1 .. Len(s), NEW d \in Int,
         a + d \in 1 .. Len(t) + 1, n + d \in a + d - 1 .. Len(t),
         \A j \in a .. n : t[j + d] = s[j]
  PROVE  SubSeq(t, a + d, n + d) = SubSeq(s, a, n)
<1> DEFINE u == SubSeq(s, a, n)
           v == SubSeq(t, a + d, n + d)
<1>1. /\ u \in Seq(S) /\ Len(u) = n - a + 1 /\ \A i \in 1 .. n - a + 1 : u[i] = s[a + i - 1]
  BY Window
<1>2. /\ v \in Seq(S) /\ Len(v) = n - a + 1
      /\ \A i \in 1 .. n - a + 1 : v[i] = t[a + d + i - 1]
  <2> DEFINE a1 == a + d
             n1 == n + d
  <2>1. a1 \in 1 .. Len(t) + 1 /\ n1 \in a1 - 1 .. Len(t) /\ n1 - a1 + 1 = n - a + 1
    OBVIOUS
  <2> HIDE DEF a1, n1
  <2>2. /\ SubSeq(t, a1, n1) \in Seq(S) /\ Len(SubSeq(t, a1, n1)) = n1 - a1 + 1
        /\ \A i \in 1 .. n1 - a1 + 1 : SubSeq(t, a1, n1)[i] = t[a1 + i - 1]
    BY <2>1, Window, ZenonT(60)
  <2> QED  BY <2>1, <2>2 DEF a1, n1
<1> HIDE DEF u, v
<1>3. \A i \in 1 .. Len(u) : u[i] = v[i]
  <2> SUFFICES ASSUME NEW i \in 1 .. n - a + 1 PROVE u[i] = v[i]
    BY <1>1
  <2>1. a + i - 1 \in a .. n /\ (a + i - 1) + d = a + d + i - 1
    BY SMTT(30)
  <2> QED  BY <1>1, <1>2, <2>1
<1>4. u = v
  BY <1>1, <1>2, <1>3, SeqEqual
<1> QED  BY <1>4 DEF u, v

(* A literal stands in a sequence where its bytes do. *)
Stands(s, t, i) == i + Len(t) <= Len(s) /\ \A k \in 1 .. Len(t) : s[i + k] = t[k]

LEMMA HoldsAt ==
  ASSUME NEW s \in Seq(Byte), NEW t \in Seq(Byte)
  PROVE  Holds(s, t) <=> \E i \in Nat : Stands(s, t, i)
<1>1. ASSUME NEW i \in 0 .. Len(s) - Len(t)
      PROVE  SubSeq(s, i + 1, i + Len(t)) = t <=> Stands(s, t, i)
  <2> DEFINE a == i + 1
             n == i + Len(t)
             w == SubSeq(s, a, n)
  <2>1. a \in 1 .. Len(s) + 1 /\ n \in a - 1 .. Len(s) /\ n - a + 1 = Len(t)
    OBVIOUS
  <2> HIDE DEF a, n
  <2>2. w \in Seq(Byte) /\ Len(w) = Len(t) /\ \A k \in 1 .. Len(t) : w[k] = s[a + k - 1]
    BY <2>1, Window
  <2> HIDE DEF w
  <2>3. \A k \in 1 .. Len(t) : w[k] = s[i + k]
    BY <2>2 DEF a
  <2>4. w = t <=> \A k \in 1 .. Len(t) : w[k] = t[k]
    BY <2>2, SeqEqual
  <2>5. w = t <=> Stands(s, t, i)
    BY <2>3, <2>4 DEF Stands
  <2> QED  BY <2>5 DEF w, a, n
<1>2. \A i \in Nat : Stands(s, t, i) => i \in 0 .. Len(s) - Len(t)
  BY DEF Stands
<1>3. \A i \in 0 .. Len(s) - Len(t) : i \in Nat
  OBVIOUS
<1> QED  BY <1>1, <1>2, <1>3 DEF Holds

(* What is kept of a line finds a literal that is cut by the end of what was read. *)
LEMMA CutFound ==
  ASSUME NEW cur \in Seq(Byte), NEW more \in Seq(Byte), NEW t \in Seq(Byte), Len(t) >= 1,
         NEW d \in 0 .. Len(cur), d = 0 \/ Len(cur) - d >= Len(t) - 1,
         NEW all \in Seq(Byte), Len(all) = Len(cur) + Len(more),
         \A k \in 1 .. Len(cur) : all[k] = cur[k],
         NEW w \in Seq(Byte), Len(w) = Len(all) - d,
         \A k \in 1 .. Len(w) : w[k] = all[k + d],
         ~Holds(cur, t)
  PROVE  Holds(w, t) <=> Holds(all, t)
<1>0. Len(cur) \in Nat /\ Len(t) \in Nat /\ Len(all) \in Nat /\ Len(w) \in Nat /\ d \in Nat
  OBVIOUS
<1>1. ASSUME NEW i \in Nat, Stands(w, t, i)
      PROVE  Stands(all, t, i + d)
  <2>1. i + d + Len(t) <= Len(all)
    BY <1>0, <1>1 DEF Stands
  <2>2. ASSUME NEW k \in 1 .. Len(t) PROVE all[i + d + k] = t[k]
    <3>1. i + k \in 1 .. Len(w) /\ (i + k) + d = i + d + k
      BY <1>0, <1>1 DEF Stands
    <3> QED  BY <1>1, <3>1 DEF Stands
  <2> QED  BY <2>1, <2>2 DEF Stands
<1>2. ASSUME NEW i \in Nat, Stands(all, t, i)
      PROVE  i >= d /\ Stands(w, t, i - d)
  <2>1. ~Stands(cur, t, i)
    BY HoldsAt
  <2>2. i + Len(t) > Len(cur)
    <3> SUFFICES ASSUME i + Len(t) <= Len(cur) PROVE FALSE
      BY <1>0
    <3>1. ASSUME NEW k \in 1 .. Len(t) PROVE cur[i + k] = t[k]
      <4>1. i + k \in 1 .. Len(cur)
        BY <1>0, SMTT(30)
      <4> QED  BY <1>2, <4>1 DEF Stands
    <3> QED  BY <2>1, <3>1 DEF Stands
  <2>3. i >= d
    BY <1>0, <2>2
  <2>4. (i - d) + Len(t) <= Len(w)
    BY <1>0, <1>2 DEF Stands
  <2>5. ASSUME NEW k \in 1 .. Len(t) PROVE w[(i - d) + k] = t[k]
    <3>1. (i - d) + k \in 1 .. Len(w) /\ ((i - d) + k) + d = i + k
      BY <1>0, <2>3, <2>4
    <3> QED  BY <1>2, <3>1 DEF Stands
  <2> QED  BY <2>3, <2>4, <2>5 DEF Stands
<1>3. (\E i \in Nat : Stands(w, t, i)) <=> \E i \in Nat : Stands(all, t, i)
  <2>1. \A i \in Nat : Stands(w, t, i) => i + d \in Nat /\ Stands(all, t, i + d)
    BY <1>0, <1>1
  <2>2. \A i \in Nat : Stands(all, t, i) => i - d \in Nat /\ Stands(w, t, i - d)
    BY <1>0, <1>2
  <2> QED  BY <2>1, <2>2
<1> QED  BY <1>3, HoldsAt

(* Lines are numbered by the newlines before them. *)
Newlines(s, a) == {j \in 1 .. a - 1 : s[j] = NL}

LEMMA NewlinesFinite ==
  ASSUME NEW s, NEW a \in Nat
  PROVE  /\ IsFiniteSet(Newlines(s, a)) /\ Cardinality(Newlines(s, a)) \in Nat
         /\ NumberOf(s, a) = Cardinality(Newlines(s, a)) + 1 /\ NumberOf(s, a) \in Nat
<1>1. IsFiniteSet(1 .. a - 1)
  BY FS_Interval
<1>2. IsFiniteSet(Newlines(s, a)) /\ Cardinality(Newlines(s, a)) \in Nat
  <2>1. Newlines(s, a) \in SUBSET (1 .. a - 1)
    BY DEF Newlines
  <2> QED  BY <1>1, <2>1, FS_Subset, FS_CardinalityType
<1> QED  BY <1>2 DEF NumberOf, Newlines

LEMMA NumberGrows ==
  ASSUME NEW s, NEW a \in Nat, NEW b \in Nat, a < b, b >= 2, s[b - 1] = NL
  PROVE  NumberOf(s, a) < NumberOf(s, b)
<1>1. Newlines(s, a) \in SUBSET Newlines(s, b) /\ b - 1 \in Newlines(s, b) \ Newlines(s, a)
  BY DEF Newlines
<1>2. /\ Cardinality(Newlines(s, a)) <= Cardinality(Newlines(s, b))
      /\ Cardinality(Newlines(s, a)) # Cardinality(Newlines(s, b))
  BY <1>1, NewlinesFinite, FS_Subset
<1> QED  BY <1>2, NewlinesFinite

LEMMA NextNumber ==
  ASSUME NEW s, NEW a \in Nat, NEW m \in Nat, a >= 1, a <= m + 1, s[m + 1] = NL, \A j \in a .. m : s[j] # NL
  PROVE  NumberOf(s, m + 2) = NumberOf(s, a) + 1
<1>1. Newlines(s, m + 2) = Newlines(s, a) \cup {m + 1} /\ m + 1 \notin Newlines(s, a)
  BY DEF Newlines
<1>2. Cardinality(Newlines(s, m + 2)) = Cardinality(Newlines(s, a)) + 1
  BY <1>1, NewlinesFinite, FS_AddElement
<1> QED  BY <1>2, NewlinesFinite

LineState == [number : Nat, prefix : Seq(Byte), overlap : Seq(Byte),
              matched : BOOLEAN, nul : BOOLEAN, data : BOOLEAN]
Hit == [number : Nat, shown : Seq(Byte)]

LEMMA FirstWindow ==
  ASSUME NEW S, NEW s \in Seq(S), NEW n \in Nat
  PROVE  /\ FirstOf(s, n) \in Seq(S) /\ Len(FirstOf(s, n)) = Low(n, Len(s))
         /\ Low(n, Len(s)) \in 0 .. Len(s)
         /\ \A i \in 1 .. Low(n, Len(s)) : FirstOf(s, n)[i] = s[i]
<1> DEFINE o == Low(n, Len(s))
<1>1. 1 \in 1 .. Len(s) + 1 /\ o \in 1 - 1 .. Len(s) /\ o - 1 + 1 = o
  BY DEF Low
<1> HIDE DEF o
<1>2. /\ SubSeq(s, 1, o) \in Seq(S) /\ Len(SubSeq(s, 1, o)) = o
      /\ \A i \in 1 .. o : SubSeq(s, 1, o)[i] = s[1 + i - 1]
  BY <1>1, Window
<1>3. \A i \in 1 .. o : 1 + i - 1 = i
  BY <1>1
<1> QED  BY <1>1, <1>2, <1>3 DEF o, FirstOf

LEMMA LastWindow ==
  ASSUME NEW S, NEW s \in Seq(S), NEW n \in 0 .. Len(s)
  PROVE  /\ LastOf(s, n) \in Seq(S) /\ Len(LastOf(s, n)) = n
         /\ \A i \in 1 .. n : LastOf(s, n)[i] = s[Len(s) - n + i]
<1> DEFINE a == Len(s) - n + 1
           e == Len(s)
<1>1. a \in 1 .. Len(s) + 1 /\ e \in a - 1 .. Len(s) /\ e - a + 1 = n
  OBVIOUS
<1>2. \A i \in 1 .. n : a + i - 1 = Len(s) - n + i
  OBVIOUS
<1> HIDE DEF a, e
<1>3. /\ SubSeq(s, a, e) \in Seq(S) /\ Len(SubSeq(s, a, e)) = n
      /\ \A i \in 1 .. n : SubSeq(s, a, e)[i] = s[a + i - 1]
  BY <1>1, Window
<1> QED  BY <1>2, <1>3 DEF a, e, LastOf

(* Three windows on one sequence: one, what follows it, and both. *)
Joined(cur, more, all) ==
  /\ cur \in Seq(Byte) /\ more \in Seq(Byte) /\ all \in Seq(Byte)
  /\ Len(all) = Len(cur) + Len(more)
  /\ \A k \in 1 .. Len(cur) : all[k] = cur[k]
  /\ \A k \in 1 .. Len(more) : all[Len(cur) + k] = more[k]

LEMMA Concatenated ==
  ASSUME NEW S, NEW u \in Seq(S), NEW v \in Seq(S)
  PROVE  /\ u \o v \in Seq(S) /\ Len(u \o v) = Len(u) + Len(v)
         /\ \A k \in 1 .. Len(u) : (u \o v)[k] = u[k]
         /\ \A k \in 1 .. Len(v) : (u \o v)[Len(u) + k] = v[k]
<1>1. \A k \in 1 .. Len(v) : /\ Len(u) + k \in 1 .. Len(u) + Len(v) /\ ~(Len(u) + k <= Len(u))
                             /\ Len(u) + k - Len(u) = k
  OBVIOUS
<1> QED  BY <1>1, ConcatProperties

LEMMA PrefixGrows ==
  ASSUME NEW cur, NEW more, NEW all, Joined(cur, more, all), NEW n \in Nat
  PROVE  /\ n - Len(FirstOf(cur, n)) \in Nat
         /\ FirstOf(cur, n) \o FirstOf(more, n - Len(FirstOf(cur, n))) = FirstOf(all, n)
<1> DEFINE x == FirstOf(cur, n)
           r == n - Len(x)
           y == FirstOf(more, r)
           z == FirstOf(all, n)
<1>0. Len(cur) \in Nat /\ Len(more) \in Nat /\ Len(all) \in Nat
  BY DEF Joined
<1>1. x \in Seq(Byte) /\ Len(x) = Low(n, Len(cur)) /\ \A i \in 1 .. Len(x) : x[i] = cur[i]
  BY FirstWindow DEF Joined
<1>2. r \in Nat
  BY <1>0, <1>1 DEF Low
<1>3. y \in Seq(Byte) /\ Len(y) = Low(r, Len(more)) /\ \A i \in 1 .. Len(y) : y[i] = more[i]
  BY <1>2, FirstWindow, ZenonT(60) DEF Joined
<1>4. z \in Seq(Byte) /\ Len(z) = Low(n, Len(all)) /\ \A i \in 1 .. Len(z) : z[i] = all[i]
  BY FirstWindow DEF Joined
<1>r. r = n - Len(x)
  OBVIOUS
<1> HIDE DEF x, y, z, r
<1>5. /\ x \o y \in Seq(Byte) /\ Len(x \o y) = Len(x) + Len(y)
      /\ \A k \in 1 .. Len(x) : (x \o y)[k] = x[k]
      /\ \A k \in 1 .. Len(y) : (x \o y)[Len(x) + k] = y[k]
  <2>1. x \in Seq(Byte) /\ y \in Seq(Byte)
    BY <1>1, <1>3
  <2> QED  BY <2>1, Concatenated
<1>6. Len(x) \in Nat /\ Len(y) \in Nat /\ Len(z) \in Nat
  BY <1>1, <1>3, <1>4
<1>7. Len(x) + Len(y) = Len(z) /\ Len(x) <= Len(cur) /\ (Len(x) < Len(cur) => Len(y) = 0)
      /\ Len(y) <= Len(more)
  <2>1. /\ Len(x) = IF n <= Len(cur) THEN n ELSE Len(cur)
        /\ Len(y) = IF r <= Len(more) THEN r ELSE Len(more)
        /\ Len(z) = IF n <= Len(all) THEN n ELSE Len(all)
        /\ Len(all) = Len(cur) + Len(more)
    BY <1>1, <1>3, <1>4 DEF Low, Joined
  <2> DEFINE lc == Len(cur)
             lm == Len(more)
             lx == Len(x)
             ly == Len(y)
             lz == Len(z)
  <2>2. /\ lc \in Nat /\ lm \in Nat /\ r = n - lx
        /\ lx = IF n <= lc THEN n ELSE lc
        /\ ly = IF r <= lm THEN r ELSE lm
        /\ lz = IF n <= lc + lm THEN n ELSE lc + lm
    BY <1>0, <1>r, <2>1
  <2> HIDE DEF lc, lm, lx, ly, lz
  <2>3. lx + ly = lz /\ lx <= lc /\ (lx < lc => ly = 0) /\ ly <= lm
    BY <2>2
  <2> QED  BY <2>3 DEF lc, lm, lx, ly, lz
<1>8. ASSUME NEW i \in 1 .. Len(z)
      PROVE  (x \o y)[i] = z[i]
  <2>1. CASE i <= Len(x)
    <3>1. i \in 1 .. Len(x) /\ i \in 1 .. Len(cur)
      BY <1>0, <1>6, <1>7, <2>1
    <3>2. z[i] = all[i] /\ all[i] = cur[i]
      BY <1>4, <3>1 DEF Joined
    <3> QED  BY <1>1, <1>5, <3>1, <3>2
  <2>2. CASE i > Len(x)
    <3> DEFINE k == i - Len(x)
    <3>1. k \in 1 .. Len(y) /\ k \in 1 .. Len(more) /\ Len(x) = Len(cur) /\ i = Len(x) + k
      BY <1>0, <1>6, <1>7, <2>2
    <3> HIDE DEF k
    <3>2. z[i] = all[i] /\ all[i] = more[k]
      BY <1>4, <3>1 DEF Joined
    <3> QED  BY <1>3, <1>5, <3>1, <3>2
  <2>3. i <= Len(x) \/ i > Len(x)
    <3>1. i \in Int /\ Len(x) \in Int
      BY <1>6
    <3> HIDE DEF x
    <3> QED  BY <3>1
  <2> QED  BY <2>1, <2>2, <2>3
<1>9. x \o y = z
  BY <1>4, <1>5, <1>7, <1>8, SeqEqual
<1> QED  BY <1>2, <1>9 DEF x, y, z, r

LEMMA OverlapKept ==
  ASSUME NEW cur, NEW more, NEW all, Joined(cur, more, all), NEW t \in Seq(Byte), Len(t) >= 1,
         NEW kept, kept = LastOf(cur, Low(Len(t) - 1, Len(cur))), ~Holds(cur, t)
  PROVE  LET window == kept \o more
         IN  /\ kept \in Seq(Byte) /\ window \in Seq(Byte)
             /\ Holds(window, t) <=> Holds(all, t)
             /\ LastOf(window, Low(Len(t) - 1, Len(window)))
                  = LastOf(all, Low(Len(t) - 1, Len(all)))
             /\ LastOf(all, Low(Len(t) - 1, Len(all))) \in Seq(Byte)
<1> DEFINE o == Low(Len(t) - 1, Len(cur))
           d == Len(cur) - o
           w == kept \o more
<1>0. Len(cur) \in Nat /\ Len(more) \in Nat /\ Len(all) \in Nat /\ Len(t) \in Nat
      /\ Len(all) = Len(cur) + Len(more)
  BY DEF Joined
<1>1. o \in 0 .. Len(cur) /\ d \in 0 .. Len(cur) /\ (d = 0 \/ Len(cur) - d >= Len(t) - 1)
  BY <1>0 DEF Low
<1>2. kept \in Seq(Byte) /\ Len(kept) = o /\ \A i \in 1 .. o : kept[i] = cur[d + i]
  BY <1>1, LastWindow DEF Joined
<1>d. d = Len(cur) - o
  OBVIOUS
<1>o. o = Low(Len(t) - 1, Len(cur))
  OBVIOUS
<1> HIDE DEF o, d, w
<1>3. /\ w \in Seq(Byte) /\ Len(w) = Len(kept) + Len(more)
      /\ \A k \in 1 .. Len(kept) : w[k] = kept[k]
      /\ \A k \in 1 .. Len(more) : w[Len(kept) + k] = more[k]
  BY <1>2, Concatenated DEF w, Joined
<1>4. Len(w) = Len(all) - d /\ Len(w) \in Nat
  BY <1>0, <1>1, <1>2, <1>3, <1>d
<1>5. ASSUME NEW k \in 1 .. Len(w)
      PROVE  w[k] = all[k + d]
  <2>1. CASE k <= o
    <3>1. k \in 1 .. o /\ d + k \in 1 .. Len(cur) /\ d + k = k + d
      BY <1>1, <1>4, <1>d, <2>1
    <3> QED  BY <1>2, <1>3, <3>1, ZenonT(60) DEF Joined
  <2>2. CASE k > o
    <3> DEFINE i == k - o
    <3>1. i \in 1 .. Len(more) /\ k = o + i /\ k + d = Len(cur) + i
      BY <1>0, <1>1, <1>2, <1>3, <1>d, <2>2
    <3> HIDE DEF i
    <3> QED  BY <1>2, <1>3, <3>1, SMTT(30) DEF Joined
  <2> QED  BY <1>1, <2>1, <2>2
<1>6. Holds(w, t) <=> Holds(all, t)
  <2>1. /\ cur \in Seq(Byte) /\ more \in Seq(Byte) /\ all \in Seq(Byte)
        /\ \A k \in 1 .. Len(cur) : all[k] = cur[k]
    BY DEF Joined
  <2>2. w \in Seq(Byte) /\ \A k \in 1 .. Len(w) : w[k] = all[k + d]
    BY <1>3, <1>5
  <2>3. d \in 0 .. Len(cur) /\ (d = 0 \/ Len(cur) - d >= Len(t) - 1) /\ Len(w) = Len(all) - d
        /\ Len(all) = Len(cur) + Len(more)
    BY <1>0, <1>1, <1>4
  <2> QED  BY <2>1, <2>2, <2>3, CutFound
<1>7. LastOf(w, Low(Len(t) - 1, Len(w))) = LastOf(all, Low(Len(t) - 1, Len(all)))
      /\ LastOf(all, Low(Len(t) - 1, Len(all))) \in Seq(Byte)
  <2> DEFINE q == Low(Len(t) - 1, Len(all))
             u == LastOf(w, q)
             v == LastOf(all, q)
  <2>1. Low(Len(t) - 1, Len(w)) = q /\ q \in 0 .. Len(w) /\ q \in 0 .. Len(all)
    BY <1>0, <1>1, <1>2, <1>3, <1>4, <1>o, <1>d, SMTT(30) DEF Low
  <2> HIDE DEF q
  <2>2. u \in Seq(Byte) /\ Len(u) = q /\ \A i \in 1 .. q : u[i] = w[Len(w) - q + i]
    <3>1. w \in Seq(Byte) /\ q \in 0 .. Len(w)
      BY <1>3, <2>1
    <3> QED  BY <3>1, LastWindow
  <2>3. v \in Seq(Byte) /\ Len(v) = q /\ \A i \in 1 .. q : v[i] = all[Len(all) - q + i]
    <3>1. all \in Seq(Byte) /\ q \in 0 .. Len(all)
      BY <2>1 DEF Joined
    <3> QED  BY <3>1, LastWindow
  <2> HIDE DEF u, v
  <2>4. ASSUME NEW i \in 1 .. q PROVE u[i] = v[i]
    <3> DEFINE k == Len(w) - q + i
    <3>1. k \in 1 .. Len(w) /\ k + d = Len(all) - q + i
      BY <1>0, <1>1, <1>4, <2>1, SMTT(30)
    <3> HIDE DEF k
    <3>2. u[i] = w[k]
      BY <2>2 DEF k
    <3> QED  BY <1>5, <2>3, <3>1, <3>2
  <2>5. u = v
    BY <2>2, <2>3, <2>4, SeqEqual
  <2> QED  BY <2>1, <2>3, <2>5 DEF u, v, q
<1> QED  BY <1>2, <1>3, <1>6, <1>7 DEF w

(* The line that the byte after the first n of s belongs to starts at a. *)
StartsAt(s, n, a) ==
  /\ a \in 1 .. n + 1 /\ (a = 1 \/ s[a - 1] = NL)
  /\ \A j \in a .. n : s[j] # NL

(* LineScanState tells of the line begun at a what its first bytes, up to n, say. *)
Knows(s, a, n, l) ==
  LET cur == SubSeq(s, a, n)
  IN  /\ l \in LineState
      /\ l.number = NumberOf(s, a)
      /\ l.prefix = FirstOf(cur, MaxPrefix)
      /\ l.data <=> a <= n
      /\ l.nul <=> NUL \in ToSet(cur)
      /\ l.matched <=> Holds(cur, literal)
      /\ ~l.matched => l.overlap = LastOf(cur, Low(Len(literal) - 1, Len(cur)))

LiteralOK == literal \in Seq(Byte) /\ Len(literal) >= 1

LEMMA JoinedSet ==
  ASSUME NEW cur, NEW more, NEW all, Joined(cur, more, all)
  PROVE  ToSet(all) = ToSet(cur) \cup ToSet(more)
<1>0. /\ Len(cur) \in Nat /\ Len(more) \in Nat /\ Len(all) = Len(cur) + Len(more)
      /\ DOMAIN cur = 1 .. Len(cur) /\ DOMAIN more = 1 .. Len(more) /\ DOMAIN all = 1 .. Len(all)
  BY DEF Joined
<1>1. ASSUME NEW k \in 1 .. Len(all) PROVE all[k] \in ToSet(cur) \cup ToSet(more)
  <2>1. CASE k <= Len(cur)
    <3>1. k \in DOMAIN cur /\ all[k] = cur[k]
      BY <1>0, <2>1 DEF Joined
    <3> QED  BY <3>1 DEF ToSet
  <2>2. CASE k > Len(cur)
    <3> DEFINE i == k - Len(cur)
    <3>1. i \in DOMAIN more /\ k = Len(cur) + i
      BY <1>0, <2>2
    <3> HIDE DEF i
    <3>2. all[k] = more[i]
      BY <1>0, <3>1 DEF Joined
    <3> QED  BY <3>1, <3>2 DEF ToSet
  <2>3. k <= Len(cur) \/ k > Len(cur)
    BY <1>0
  <2> QED  BY <2>1, <2>2, <2>3
<1>2. ASSUME NEW k \in 1 .. Len(cur) PROVE cur[k] \in ToSet(all)
  <2>1. k \in DOMAIN all /\ all[k] = cur[k]
    BY <1>0 DEF Joined
  <2> QED  BY <2>1 DEF ToSet
<1>3. ASSUME NEW k \in 1 .. Len(more) PROVE more[k] \in ToSet(all)
  <2>1. Len(cur) + k \in DOMAIN all /\ all[Len(cur) + k] = more[k]
    BY <1>0 DEF Joined
  <2> QED  BY <2>1 DEF ToSet
<1>4. ToSet(all) \subseteq ToSet(cur) \cup ToSet(more)
  BY <1>0, <1>1 DEF ToSet
<1>5. ToSet(cur) \subseteq ToSet(all) /\ ToSet(more) \subseteq ToSet(all)
  BY <1>0, <1>2, <1>3 DEF ToSet
<1> QED  BY <1>4, <1>5

LEMMA WindowsJoin ==
  ASSUME NEW s \in Seq(Byte), NEW a \in 1 .. Len(s) + 1, NEW n \in a - 1 .. Len(s),
         NEW m \in n .. Len(s)
  PROVE  Joined(SubSeq(s, a, n), SubSeq(s, n + 1, m), SubSeq(s, a, m))
<1> DEFINE cur == SubSeq(s, a, n)
           more == SubSeq(s, n + 1, m)
           all == SubSeq(s, a, m)
<1>0. a \in Nat /\ n \in Nat /\ m \in Nat
  OBVIOUS
<1>1. cur \in Seq(Byte) /\ Len(cur) = n - a + 1 /\ \A i \in 1 .. n - a + 1 : cur[i] = s[a + i - 1]
  BY Window
<1>2. all \in Seq(Byte) /\ Len(all) = m - a + 1 /\ \A i \in 1 .. m - a + 1 : all[i] = s[a + i - 1]
  <2>1. m \in a - 1 .. Len(s)
    OBVIOUS
  <2> QED  BY <2>1, Window
<1>3. more \in Seq(Byte) /\ Len(more) = m - n /\ \A i \in 1 .. m - n : more[i] = s[n + i]
  <2> DEFINE b == n + 1
  <2>1. b \in 1 .. Len(s) + 1 /\ m \in b - 1 .. Len(s) /\ m - b + 1 = m - n
    OBVIOUS
  <2>2. \A i \in 1 .. m - n : b + i - 1 = n + i
    OBVIOUS
  <2> HIDE DEF b
  <2>3. /\ SubSeq(s, b, m) \in Seq(Byte) /\ Len(SubSeq(s, b, m)) = m - n
        /\ \A i \in 1 .. m - n : SubSeq(s, b, m)[i] = s[b + i - 1]
    BY <2>1, Window
  <2> QED  BY <2>2, <2>3 DEF b
<1> HIDE DEF cur, more, all
<1>4. Len(all) = Len(cur) + Len(more)
  BY <1>0, <1>1, <1>2, <1>3
<1>5. ASSUME NEW k \in 1 .. Len(cur) PROVE all[k] = cur[k]
  <2>1. k \in 1 .. n - a + 1 /\ k \in 1 .. m - a + 1
    BY <1>0, <1>1, SMTT(30)
  <2> QED  BY <1>1, <1>2, <2>1
<1>6. ASSUME NEW k \in 1 .. Len(more) PROVE all[Len(cur) + k] = more[k]
  <2> DEFINE i == Len(cur) + k
  <2>1. i \in 1 .. m - a + 1 /\ a + i - 1 = n + k /\ k \in 1 .. m - n
    BY <1>0, <1>1, <1>3
  <2> HIDE DEF i
  <2>2. all[i] = s[n + k] /\ more[k] = s[n + k]
    BY <1>2, <1>3, <2>1
  <2> QED  BY <2>2 DEF i
<1>7. Joined(cur, more, all)
  BY <1>1, <1>2, <1>3, <1>4, <1>5, <1>6 DEF Joined
<1> QED  BY <1>7 DEF cur, more, all

(* LineScanState::push keeps the line's state true of the line. *)
LEMMA PushKnows ==
  ASSUME LiteralOK, NEW s \in Seq(Byte), NEW a \in 1 .. Len(s) + 1, NEW n \in a - 1 .. Len(s),
         NEW m \in n .. Len(s), NEW l, Knows(s, a, n, l)
  PROVE  Knows(s, a, m, Push(l, SubSeq(s, n + 1, m)))
<1> DEFINE cur == SubSeq(s, a, n)
           more == SubSeq(s, n + 1, m)
           all == SubSeq(s, a, m)
           new == Push(l, more)
           window == l.overlap \o more
<1>1. Joined(cur, more, all)
  BY WindowsJoin
<1>2. Len(more) = m - n /\ Len(cur) = n - a + 1 /\ Len(all) = m - a + 1
  <2>1. n + 1 \in 1 .. Len(s) + 1 /\ m \in (n + 1) - 1 .. Len(s) /\ m \in a - 1 .. Len(s)
    OBVIOUS
  <2> QED  BY <2>1, Window, SMTT(30)
<1>3. MaxPrefix \in Nat
  BY LineScanAssumption
<1>k. /\ l \in LineState /\ l.number = NumberOf(s, a) /\ l.prefix = FirstOf(cur, MaxPrefix)
      /\ l.data <=> a <= n
      /\ l.nul <=> NUL \in ToSet(cur)
      /\ l.matched <=> Holds(cur, literal)
      /\ ~l.matched => l.overlap = LastOf(cur, Low(Len(literal) - 1, Len(cur)))
  BY DEF Knows
<1>g. SUFFICES /\ new \in LineState /\ new.number = NumberOf(s, a)
               /\ new.prefix = FirstOf(all, MaxPrefix)
               /\ new.data <=> a <= m
               /\ new.nul <=> NUL \in ToSet(all)
               /\ new.matched <=> Holds(all, literal)
               /\ ~new.matched => new.overlap = LastOf(all, Low(Len(literal) - 1, Len(all)))
  BY DEF Knows
<1> HIDE DEF cur, more, all
<1>4. l.prefix \o FirstOf(more, MaxPrefix - Len(l.prefix)) = FirstOf(all, MaxPrefix)
      /\ FirstOf(all, MaxPrefix) \in Seq(Byte)
  <2>1. all \in Seq(Byte)
    BY <1>1 DEF Joined
  <2>2. FirstOf(cur, MaxPrefix) \o FirstOf(more, MaxPrefix - Len(FirstOf(cur, MaxPrefix)))
          = FirstOf(all, MaxPrefix)
    BY <1>1, <1>3, PrefixGrows
  <2>3. FirstOf(all, MaxPrefix) \in Seq(Byte)
    BY <1>3, <2>1, FirstWindow
  <2> QED  BY <1>k, <2>2, <2>3
<1>5. l.data \/ more # <<>> <=> a <= m
  <2>1. more # <<>> <=> m > n
    BY <1>1, <1>2, SMTT(30) DEF Joined
  <2> QED  BY <1>k, <2>1
<1>6. l.nul \/ NUL \in ToSet(more) <=> NUL \in ToSet(all)
  BY <1>1, <1>k, JoinedSet
<1>7. ~l.matched =>
        /\ l.overlap \in Seq(Byte) /\ window \in Seq(Byte)
        /\ Holds(window, literal) <=> Holds(all, literal)
        /\ LastOf(window, Low(Len(literal) - 1, Len(window)))
             = LastOf(all, Low(Len(literal) - 1, Len(all)))
        /\ LastOf(all, Low(Len(literal) - 1, Len(all))) \in Seq(Byte)
  <2> SUFFICES ASSUME ~l.matched PROVE
        /\ l.overlap \in Seq(Byte) /\ window \in Seq(Byte)
        /\ Holds(window, literal) <=> Holds(all, literal)
        /\ LastOf(window, Low(Len(literal) - 1, Len(window)))
             = LastOf(all, Low(Len(literal) - 1, Len(all)))
        /\ LastOf(all, Low(Len(literal) - 1, Len(all))) \in Seq(Byte)
    OBVIOUS
  <2>1. ~Holds(cur, literal) /\ l.overlap = LastOf(cur, Low(Len(literal) - 1, Len(cur)))
    BY <1>k
  <2>2. literal \in Seq(Byte) /\ Len(literal) >= 1
    BY DEF LiteralOK
  <2> QED  BY <1>1, <2>1, <2>2, OverlapKept
<1>8. Holds(cur, literal) => Holds(all, literal)
  <2>1. /\ cur \in Seq(Byte) /\ all \in Seq(Byte) /\ literal \in Seq(Byte)
        /\ Len(cur) \in Nat /\ Len(more) \in Nat /\ Len(all) = Len(cur) + Len(more)
        /\ Len(literal) \in Nat
    BY <1>1 DEF Joined, LiteralOK
  <2>2. ASSUME NEW i \in Nat, Stands(cur, literal, i)
        PROVE  Stands(all, literal, i)
    <3>1. i + Len(literal) <= Len(all)
      BY <2>1, <2>2 DEF Stands
    <3>2. ASSUME NEW k \in 1 .. Len(literal) PROVE all[i + k] = literal[k]
      <4>1. i + k \in 1 .. Len(cur)
        BY <2>1, <2>2 DEF Stands
      <4> QED  BY <1>1, <2>2, <4>1 DEF Stands, Joined
    <3> QED  BY <3>1, <3>2 DEF Stands
  <2> QED  BY <2>1, <2>2, HoldsAt
<1>9. CASE l.matched
  <2>1. new = [l EXCEPT !.data = @ \/ more # <<>>, !.nul = @ \/ NUL \in ToSet(more),
                        !.prefix = @ \o FirstOf(more, MaxPrefix - Len(@))]
    BY <1>9 DEF Push
  <2>2. /\ new.number = l.number /\ new.matched = l.matched /\ new.overlap = l.overlap
        /\ new.prefix = l.prefix \o FirstOf(more, MaxPrefix - Len(l.prefix))
        /\ new.data = (l.data \/ more # <<>>) /\ new.nul = (l.nul \/ NUL \in ToSet(more))
    BY <1>k, <2>1 DEF LineState
  <2>3. new \in LineState
    BY <1>k, <1>4, <2>1, ZenonT(60) DEF LineState
  <2> HIDE DEF new
  <2> QED  BY <1>9, <1>k, <1>4, <1>5, <1>6, <1>8, <2>2, <2>3
<1>10. CASE ~l.matched
  <2>1. new = [[l EXCEPT !.data = @ \/ more # <<>>, !.nul = @ \/ NUL \in ToSet(more),
                         !.prefix = @ \o FirstOf(more, MaxPrefix - Len(@))]
                 EXCEPT !.matched = Holds(window, literal),
                        !.overlap = LastOf(window, Low(Len(literal) - 1, Len(window)))]
    BY <1>10 DEF Push
  <2> HIDE DEF window
  <2>2. /\ new.number = l.number /\ new.matched = Holds(window, literal)
        /\ new.overlap = LastOf(window, Low(Len(literal) - 1, Len(window)))
        /\ new.prefix = l.prefix \o FirstOf(more, MaxPrefix - Len(l.prefix))
        /\ new.data = (l.data \/ more # <<>>) /\ new.nul = (l.nul \/ NUL \in ToSet(more))
    BY <1>k, <2>1 DEF LineState
  <2>3. Holds(window, literal) \in BOOLEAN
    BY DEF Holds
  <2>5. LastOf(window, Low(Len(literal) - 1, Len(window))) \in Seq(Byte)
    BY <1>7, <1>10
  <2>4. new \in LineState
    <3> DEFINE held == Holds(window, literal)
               kept == LastOf(window, Low(Len(literal) - 1, Len(window)))
    <3>1. held \in BOOLEAN /\ kept \in Seq(Byte)
      BY <2>3, <2>5
    <3> HIDE DEF held, kept
    <3>2. new = [[l EXCEPT !.data = @ \/ more # <<>>, !.nul = @ \/ NUL \in ToSet(more),
                         !.prefix = @ \o FirstOf(more, MaxPrefix - Len(@))]
                 EXCEPT !.matched = held, !.overlap = kept]
      BY <2>1 DEF held, kept
    <3> QED  BY <1>k, <1>4, <3>1, <3>2, ZenonT(60) DEF LineState
  <2> HIDE DEF new
  <2> QED  BY <1>10, <1>k, <1>4, <1>5, <1>6, <1>7, <2>2, <2>4
<1> QED  BY <1>9, <1>10

(* A line ends at the first newline after its start, or with the bytes. *)
LEMMA EndIs ==
  ASSUME NEW s \in Seq(Byte), NEW n \in 0 .. Len(s), NEW a, StartsAt(s, n, a),
         n = Len(s) \/ s[n + 1] = NL
  PROVE  LineEnd(s, a) = n /\ LineAt(s, a) = SubSeq(s, a, n)
<1> DEFINE Ends(b) == (b = Len(s) \/ s[b + 1] = NL) /\ \A j \in a .. b : s[j] # NL
<1>1. a \in 1 .. n + 1 /\ n \in a - 1 .. Len(s) /\ Ends(n) /\ a \in Nat /\ n \in Nat /\ Len(s) \in Nat
  BY DEF StartsAt
<1>2. ASSUME NEW b \in a - 1 .. Len(s), Ends(b)
      PROVE  b = n
  <2>1. CASE b < n
    <3>1. b + 1 \in a .. n /\ b # Len(s)
      BY <1>1, <2>1
    <3> QED  BY <1>1, <1>2, <3>1
  <2>2. CASE n < b
    <3>1. n + 1 \in a .. b /\ n # Len(s)
      BY <1>1, <2>2
    <3> QED  BY <1>1, <1>2, <3>1
  <2> QED  BY <1>1, <2>1, <2>2
<1>3. LineEnd(s, a) = CHOOSE b \in a - 1 .. Len(s) : Ends(b)
  BY DEF LineEnd
<1> HIDE DEF Ends
<1>4. LineEnd(s, a) = n
  BY <1>1, <1>2, <1>3
<1> QED  BY <1>4 DEF LineAt

LEMMA FirstNumber ==
  ASSUME NEW T \in SUBSET Nat, T # {} PROVE \E x \in T : \A y \in T : x <= y
<1>1. PICK x \in T : \A y \in T : ~(<<y, x>> \in OpToRel(<, Nat))
  BY NatLessThanWellFounded, WFMin
<1>2. \A y \in T : ~(y < x)
  BY <1>1 DEF OpToRel
<1> QED  BY <1>2

LEMMA LineEnds ==
  ASSUME NEW s \in Seq(Byte), NEW a \in LineStarts(s), NEW c \in a .. Len(s), s[c] = NL
  PROVE  \E e \in 0 .. c - 1 : StartsAt(s, e, a) /\ s[e + 1] = NL
<1> DEFINE T == {j \in a .. c : s[j] = NL}
<1>1. a \in Nat \ {0} /\ c \in Nat /\ (a = 1 \/ s[a - 1] = NL)
  BY DEF LineStarts
<1>2. T \in SUBSET Nat /\ c \in T
  BY <1>1
<1>3. PICK x \in T : \A y \in T : x <= y
  BY <1>2, FirstNumber
<1> DEFINE e == x - 1
<1>4. x \in a .. c /\ s[x] = NL /\ e \in 0 .. c - 1 /\ a \in 1 .. e + 1 /\ e + 1 = x
  BY <1>1
<1>5. \A j \in a .. e : s[j] # NL
  <2>1. ASSUME NEW j \in a .. e, s[j] = NL PROVE FALSE
    <3>1. j \in a .. c /\ ~(x <= j)
      BY <1>1, <1>4
    <3> QED  BY <1>3, <2>1, <3>1
  <2> QED  BY <2>1
<1> HIDE DEF e
<1>6. StartsAt(s, e, a) /\ s[e + 1] = NL
  BY <1>1, <1>4, <1>5 DEF StartsAt
<1> QED  BY <1>4, <1>6

HitsBefore(s, a) == {HitAt(s, b) : b \in {b \in HitLines(s) : b < a}}

(* What is read later changes nothing before it. *)
Begins(s, t) ==
  /\ s \in Seq(Byte) /\ t \in Seq(Byte) /\ Len(s) <= Len(t)
  /\ \A j \in 1 .. Len(s) : t[j] = s[j]

LEMMA SamePart ==
  ASSUME NEW s, NEW t, Begins(s, t), NEW a \in 1 .. Len(s) + 1, NEW n \in a - 1 .. Len(s)
  PROVE  SubSeq(t, a, n) = SubSeq(s, a, n) /\ NumberOf(t, a) = NumberOf(s, a)
<1>1. s \in Seq(Byte) /\ t \in Seq(Byte) /\ Len(s) <= Len(t) /\ Len(s) \in Nat /\ Len(t) \in Nat
      /\ a \in Nat /\ n \in Nat
  BY DEF Begins
<1>2. \A j \in 1 .. Len(s) : t[j] = s[j]
  BY DEF Begins
<1>3. SubSeq(t, a, n) = SubSeq(s, a, n)
  <2> DEFINE d == 0
  <2>1. /\ a + d = a /\ n + d = n /\ d \in Int
        /\ a + d \in 1 .. Len(t) + 1 /\ n + d \in a + d - 1 .. Len(t)
        /\ \A j \in a .. n : t[j + d] = s[j]
    BY <1>1, <1>2
  <2> HIDE DEF d
  <2>2. SubSeq(t, a + d, n + d) = SubSeq(s, a, n)
    BY <1>1, <2>1, SameWindow, SMTT(30)
  <2> QED  BY <2>1, <2>2
<1>4. {j \in 1 .. a - 1 : t[j] = NL} = {j \in 1 .. a - 1 : s[j] = NL}
  <2>1. \A j \in 1 .. a - 1 : j \in 1 .. Len(s)
    BY <1>1
  <2> QED  BY <1>2, <2>1
<1> QED  BY <1>3, <1>4 DEF NumberOf

LEMMA SameKnows ==
  ASSUME NEW s, NEW t, Begins(s, t), NEW a \in 1 .. Len(s) + 1, NEW n \in a - 1 .. Len(s),
         NEW l, Knows(s, a, n, l)
  PROVE  Knows(t, a, n, l)
BY SamePart DEF Knows

LEMMA SameHits ==
  ASSUME NEW s, NEW t, Begins(s, t), NEW a, StartsAt(s, Len(s), a)
  PROVE  HitsBefore(t, a) = HitsBefore(s, a)
<1>1. s \in Seq(Byte) /\ t \in Seq(Byte) /\ Len(s) <= Len(t) /\ Len(s) \in Nat /\ Len(t) \in Nat
      /\ \A j \in 1 .. Len(s) : t[j] = s[j]
  BY DEF Begins
<1>2. a \in 1 .. Len(s) + 1 /\ (a = 1 \/ s[a - 1] = NL)
  BY DEF StartsAt
<1>3. ASSUME NEW b \in Nat, b < a
      PROVE  b \in LineStarts(s) <=> b \in LineStarts(t)
  <2>1. \A j \in 1 .. b - 1 : j \in 1 .. Len(s) /\ j \in 1 .. Len(t)
    BY <1>1, <1>2, <1>3
  <2>2. \A u \in {s, t} : b \in LineStarts(u) <=> b = 1 \/ (b - 1 \in 1 .. Len(u) /\ u[b - 1] = NL)
    <3> SUFFICES ASSUME NEW u \in {s, t}
                 PROVE  b \in LineStarts(u) <=> b = 1 \/ (b - 1 \in 1 .. Len(u) /\ u[b - 1] = NL)
      OBVIOUS
    <3>1. (\E i \in 1 .. Len(u) : b = i + 1 /\ u[i] = NL) <=> b - 1 \in 1 .. Len(u) /\ u[b - 1] = NL
      <4>1. \A i \in 1 .. Len(u) : b = i + 1 <=> i = b - 1
        OBVIOUS
      <4> QED  BY <4>1
    <3> QED  BY <3>1 DEF LineStarts
  <2>3. b - 1 \in 1 .. Len(s) \/ b - 1 \in 1 .. Len(t) => b - 1 \in 1 .. b - 1
    BY <1>1
  <2> QED  BY <1>1, <2>1, <2>2, <2>3
<1>4. ASSUME NEW b \in LineStarts(s), b < a, b \in LineStarts(t)
      PROVE  LineAt(t, b) = LineAt(s, b) /\ NumberOf(t, b) = NumberOf(s, b)
             /\ b <= Len(s) /\ b <= Len(t)
  <2>1. b \in Nat \ {0}
    BY DEF LineStarts
  <2>2. a - 1 \in b .. Len(s) /\ s[a - 1] = NL
    BY <1>1, <1>2, <1>4, <2>1
  <2>3. PICK e \in 0 .. a - 1 - 1 : StartsAt(s, e, b) /\ s[e + 1] = NL
    BY <1>1, <2>2, LineEnds
  <2>4. e \in 0 .. Len(s) /\ e \in 0 .. Len(t) /\ b \in 1 .. Len(s) + 1 /\ e \in b - 1 .. Len(s)
        /\ e + 1 \in 1 .. Len(s) /\ b - 1 \in 0 .. Len(s)
    BY <1>1, <1>2, <2>3 DEF StartsAt
  <2>5. StartsAt(t, e, b) /\ t[e + 1] = NL
    <3>1. \A j \in b .. e : j \in 1 .. Len(s)
      BY <2>1, <2>4
    <3>2. b = 1 \/ b - 1 \in 1 .. Len(s)
      BY <2>1, <2>4
    <3> QED  BY <1>1, <2>3, <2>4, <3>1, <3>2 DEF StartsAt
  <2>6. LineAt(s, b) = SubSeq(s, b, e) /\ LineAt(t, b) = SubSeq(t, b, e)
    BY <1>1, <2>3, <2>4, <2>5, EndIs
  <2>7. SubSeq(t, b, e) = SubSeq(s, b, e) /\ NumberOf(t, b) = NumberOf(s, b)
    BY <2>4, SamePart
  <2> QED  BY <1>1, <2>2, <2>6, <2>7, <2>1
<1>5. \A u : \A b \in HitLines(u) : b \in LineStarts(u)
  BY DEF HitLines
<1>6. \A u \in Seq(Byte) : \A b \in LineStarts(u) : b \in Nat
  BY DEF LineStarts
<1>7. ASSUME NEW b, b < a
      PROVE  /\ b \in HitLines(s) <=> b \in HitLines(t)
             /\ b \in HitLines(s) => HitAt(t, b) = HitAt(s, b)
  <2>1. b \in HitLines(s) \/ b \in HitLines(t) => b \in LineStarts(s) /\ b \in LineStarts(t)
    BY <1>1, <1>3, <1>5, <1>6, <1>7
  <2>2. b \in LineStarts(s) /\ b \in LineStarts(t)
          => /\ b \in HitLines(s) <=> b \in HitLines(t)
             /\ HitAt(t, b) = HitAt(s, b)
    BY <1>4, <1>7 DEF HitLines, HitAt
  <2> QED  BY <2>1, <2>2
<1> QED  BY <1>7 DEF HitsBefore

(* A line that has ended adds what it shows, if it holds the literal. *)
LEMMA LineCounted ==
  ASSUME NEW s \in Seq(Byte), NEW m \in 0 .. Len(s), NEW a, StartsAt(s, m, a), a <= Len(s),
         m = Len(s) \/ s[m + 1] = NL
  PROVE  /\ HitAt(s, a) = [number |-> NumberOf(s, a),
                           shown |-> FirstOf(SubSeq(s, a, m), MaxPrefix)]
         /\ HitsBefore(s, m + 2) =
              IF Holds(SubSeq(s, a, m), literal) /\ NUL \notin ToSet(SubSeq(s, a, m))
              THEN HitsBefore(s, a) \cup {HitAt(s, a)} ELSE HitsBefore(s, a)
<1>1. LineAt(s, a) = SubSeq(s, a, m)
  BY EndIs
<1>2. a \in 1 .. m + 1 /\ (a = 1 \/ s[a - 1] = NL) /\ Len(s) \in Nat /\ a \in Nat
      /\ \A j \in a .. m : s[j] # NL
  BY DEF StartsAt
<1>3. a \in LineStarts(s)
  <2>1. a # 1 => a - 1 \in 1 .. Len(s) /\ a = (a - 1) + 1
    BY <1>2
  <2> QED  BY <1>2, <2>1 DEF LineStarts
<1>4. a \in HitLines(s) <=> Holds(SubSeq(s, a, m), literal) /\ NUL \notin ToSet(SubSeq(s, a, m))
  BY <1>1, <1>3 DEF HitLines
<1>5. ASSUME NEW b \in HitLines(s)
      PROVE  b < m + 2 <=> b < a \/ b = a
  <2>1. b \in Nat \ {0} /\ (b = 1 \/ s[b - 1] = NL)
    BY DEF HitLines, LineStarts
  <2>2. ASSUME a < b, b < m + 2 PROVE FALSE
    <3>1. b - 1 \in a .. m /\ b # 1
      BY <1>2, <2>1, <2>2
    <3> QED  BY <1>2, <2>1, <3>1
  <2>3. a < m + 2
    BY <1>2
  <2> QED  BY <1>2, <2>1, <2>2, <2>3
<1>6. {b \in HitLines(s) : b < m + 2} = {b \in HitLines(s) : b < a} \cup {b \in HitLines(s) : b = a}
  BY <1>5
<1>7. HitAt(s, a) = [number |-> NumberOf(s, a), shown |-> FirstOf(SubSeq(s, a, m), MaxPrefix)]
  BY <1>1 DEF HitAt
<1>8. HitsBefore(s, m + 2) = IF a \in HitLines(s) THEN HitsBefore(s, a) \cup {HitAt(s, a)}
                             ELSE HitsBefore(s, a)
  BY <1>6 DEF HitsBefore
<1> QED  BY <1>4, <1>7, <1>8

(* The records put out are those of the lines that start before b, in order. *)
Reported(s, b, out) ==
  /\ out \in Seq(Hit) /\ ToSet(out) = HitsBefore(s, b)
  /\ \A i \in 1 .. Len(out) - 1 : out[i].number < out[i + 1].number

(* LineScanState::finish reports a line that ended once, after those before it, or stops. *)
LEMMA EmitReports ==
  ASSUME NEW s \in Seq(Byte), NEW m \in 0 .. Len(s), NEW a, StartsAt(s, m, a), a <= Len(s),
         m = Len(s) \/ s[m + 1] = NL,
         NEW l, Knows(s, a, m, l), NEW out, Reported(s, a, out)
  PROVE  LET put == Emit(l, out)
         IN  /\ put.stop \in BOOLEAN
             /\ ~put.stop => Reported(s, m + 2, put.found)
             /\ put.stop => \E b \in Nat : Reported(s, b, put.found)
<1> DEFINE cur == SubSeq(s, a, m)
           record == [number |-> l.number, shown |-> l.prefix]
           longer == Append(out, record)
           put == Emit(l, out)
<1>1. a \in 1 .. m + 1 /\ (a = 1 \/ s[a - 1] = NL) /\ Len(s) \in Nat /\ a \in Nat /\ m \in Nat
  BY DEF StartsAt
<1>2. l \in LineState /\ l.number = NumberOf(s, a) /\ l.prefix = FirstOf(cur, MaxPrefix)
      /\ (l.matched <=> Holds(cur, literal)) /\ (l.nul <=> NUL \in ToSet(cur))
  BY DEF Knows
<1>3. record = HitAt(s, a) /\ record \in Hit
  BY <1>2, LineCounted DEF Hit, LineState
<1>4. HitsBefore(s, m + 2) =
        IF l.matched /\ ~l.nul THEN HitsBefore(s, a) \cup {record} ELSE HitsBefore(s, a)
  BY <1>2, <1>3, LineCounted
<1>5. out \in Seq(Hit) /\ ToSet(out) = HitsBefore(s, a) /\ Len(out) \in Nat
      /\ \A i \in 1 .. Len(out) - 1 : out[i].number < out[i + 1].number
  <2>1. /\ out \in Seq(Hit) /\ ToSet(out) = HitsBefore(s, a)
        /\ \A i \in 1 .. Len(out) - 1 : out[i].number < out[i + 1].number
    BY DEF Reported
  <2> QED  BY <2>1
<1> HIDE DEF record, cur
<1>6. ~(l.matched /\ ~l.nul) => Reported(s, m + 2, out)
  BY <1>4, <1>5 DEF Reported
<1>7. l.matched /\ ~l.nul => Reported(s, m + 2, longer)
  <2> SUFFICES ASSUME l.matched, ~l.nul PROVE Reported(s, m + 2, longer)
    OBVIOUS
  <2>1. /\ longer \in Seq(Hit) /\ Len(longer) = Len(out) + 1
        /\ \A i \in 1 .. Len(out) : longer[i] = out[i]
        /\ longer[Len(out) + 1] = record
    BY <1>3, <1>5
  <2>2. ToSet(longer) = ToSet(out) \cup {record}
    <3>1. /\ DOMAIN longer = 1 .. Len(out) + 1 /\ DOMAIN out = 1 .. Len(out)
          /\ 1 .. Len(out) + 1 = (1 .. Len(out)) \cup {Len(out) + 1}
      BY <1>5, <2>1
    <3> HIDE DEF longer
    <3> QED  BY <2>1, <3>1 DEF ToSet
  <2>3. \A h \in ToSet(out) : h.number < record.number
    <3>1. ASSUME NEW b \in HitLines(s), b < a
          PROVE  HitAt(s, b).number < HitAt(s, a).number
      <4>1. b \in Nat \ {0}
        BY DEF HitLines, LineStarts
      <4>2. a >= 2 /\ s[a - 1] = NL
        BY <1>1, <3>1, <4>1
      <4>3. NumberOf(s, b) < NumberOf(s, a)
        BY <1>1, <3>1, <4>1, <4>2, NumberGrows
      <4> QED  BY <4>3 DEF HitAt
    <3> QED  BY <1>3, <1>5, <3>1 DEF HitsBefore
  <2> HIDE DEF longer
  <2>4. ASSUME NEW i \in 1 .. Len(longer) - 1
        PROVE  longer[i].number < longer[i + 1].number
    <3>1. CASE i = Len(out)
      <4>1. out[i] \in ToSet(out) /\ longer[i] = out[i] /\ longer[i + 1] = record
        BY <1>5, <2>1, <2>4, <3>1 DEF ToSet
      <4> QED  BY <2>3, <4>1
    <3>2. CASE i # Len(out)
      <4>1. i \in 1 .. Len(out) - 1 /\ i \in 1 .. Len(out) /\ i + 1 \in 1 .. Len(out)
        BY <1>5, <2>1, <3>2
      <4> QED  BY <1>5, <2>1, <4>1
    <3> QED  BY <3>1, <3>2
  <2> QED  BY <1>4, <1>5, <2>1, <2>2, <2>4 DEF Reported
<1>8. Reported(s, a, out) /\ a \in Nat /\ m + 2 \in Nat
  BY <1>1
<1>9. CASE ~l.matched \/ l.nul
  <2>1. put = [found |-> out, stop |-> FALSE]
    BY <1>9 DEF Emit
  <2> QED  BY <1>6, <1>9, <2>1
<1>10. CASE l.matched /\ ~l.nul /\ Bytes(longer) > MaxOutput
  <2>1. put = [found |-> out, stop |-> TRUE]
    BY <1>10 DEF Emit, record
  <2> QED  BY <1>8, <2>1
<1>11. CASE l.matched /\ ~l.nul /\ ~(Bytes(longer) > MaxOutput)
  <2>1. put = [found |-> longer, stop |-> Len(out) + 1 >= MaxMatches]
    BY <1>11 DEF Emit, record
  <2>2. put.found = longer /\ put.stop \in BOOLEAN
    BY <2>1
  <2> HIDE DEF longer
  <2> QED  BY <1>7, <1>8, <1>11, <2>2
<1> QED  BY <1>9, <1>10, <1>11

LEMMA FreshKnows ==
  ASSUME LiteralOK, NEW s \in Seq(Byte), NEW n \in 0 .. Len(s)
  PROVE  Knows(s, n + 1, n, Fresh(NumberOf(s, n + 1))) /\ (n = 0 \/ s[n] = NL => StartsAt(s, n, n + 1))
<1>1. SubSeq(s, n + 1, n) = <<>> /\ Len(<<>>) = 0
  BY SubSeqEmpty
<1>2. NumberOf(s, n + 1) \in Nat
  BY NewlinesFinite
<1>3. ~Holds(<<>>, literal)
  <2>1. <<>> \in Seq(Byte) /\ literal \in Seq(Byte) /\ Len(literal) \in Nat /\ Len(literal) >= 1
    BY DEF LiteralOK
  <2>2. \A i \in Nat : ~Stands(<<>>, literal, i)
    BY <1>1, <2>1 DEF Stands
  <2> QED  BY <2>1, <2>2, HoldsAt
<1>4. Low(Len(literal) - 1, 0) = 0
  <2> DEFINE k == Len(literal)
  <2>1. k \in Nat /\ k >= 1
    BY DEF LiteralOK
  <2> HIDE DEF k
  <2>2. Low(k - 1, 0) = 0
    BY <2>1 DEF Low
  <2> QED  BY <2>2 DEF k
<1>5. LastOf(<<>>, 0) = <<>> /\ FirstOf(<<>>, MaxPrefix) = <<>>
  <2>1. MaxPrefix \in Nat \ {0}
    BY LineScanAssumption
  <2>2. Low(MaxPrefix, 0) = 0
    BY <2>1 DEF Low
  <2>3. SubSeq(<<>>, 1, 0) = <<>>
    BY SubSeqEmpty
  <2> QED  BY <2>2, <2>3 DEF LastOf, FirstOf
<1>6. NUL \notin ToSet(<<>>)
  BY DEF ToSet
<1>7. ~(n + 1 <= n)
  OBVIOUS
<1>8. Knows(s, n + 1, n, Fresh(NumberOf(s, n + 1)))
  <2> DEFINE number == NumberOf(s, n + 1)
  <2>1. /\ Fresh(number) \in LineState /\ Fresh(number).number = number
        /\ Fresh(number).prefix = <<>> /\ Fresh(number).overlap = <<>>
        /\ ~Fresh(number).matched /\ ~Fresh(number).nul /\ ~Fresh(number).data
    BY <1>2 DEF Fresh, LineState
  <2> QED  BY <1>1, <1>3, <1>4, <1>5, <1>6, <1>7, <2>1 DEF Knows
<1>9. n = 0 \/ s[n] = NL => StartsAt(s, n, n + 1)
  BY DEF StartsAt
<1> QED  BY <1>8, <1>9

(* The loop over one buffer: what of s is left, and what is known of the rest. *)
Consumed(s, left) == Len(s) - Len(left)
Loop(s, scan) ==
  /\ scan = [left |-> scan.left, line |-> scan.line, found |-> scan.found, stop |-> scan.stop]
  /\ scan.left \in Seq(Byte) /\ Len(scan.left) <= Len(s)
  /\ scan.left = SubSeq(s, Consumed(s, scan.left) + 1, Len(s))
  /\ scan.stop \in BOOLEAN
  /\ scan.stop => \E b \in Nat : Reported(s, b, scan.found)
  /\ ~scan.stop => \E a : /\ StartsAt(s, Consumed(s, scan.left), a)
                          /\ Knows(s, a, Consumed(s, scan.left), scan.line)
                          /\ Reported(s, a, scan.found)

LEMMA TurnKept ==
  ASSUME LiteralOK, NEW s \in Seq(Byte), NEW scan, Loop(s, scan), ~scan.stop, scan.left # <<>>
  PROVE  Loop(s, TakeLine(scan)) /\ Len(TakeLine(scan).left) < Len(scan.left)
<1> DEFINE left == scan.left
           n == Consumed(s, left)
           ends == {i \in 1 .. Len(left) : left[i] = NL}
<1>1. /\ left \in Seq(Byte) /\ Len(left) \in Nat \ {0} /\ Len(s) \in Nat /\ n \in 0 .. Len(s)
      /\ Len(left) = Len(s) - n /\ n + 1 \in 1 .. Len(s) + 1
  BY DEF Loop, Consumed
<1>2. left = SubSeq(s, n + 1, Len(s))
  BY DEF Loop
<1>3. \A i \in 1 .. Len(left) : left[i] = s[n + i]
  <2> DEFINE b == n + 1
             e == Len(s)
  <2>1. b \in 1 .. Len(s) + 1 /\ e \in b - 1 .. Len(s) /\ e - b + 1 = Len(left)
    BY <1>1
  <2>2. \A i \in 1 .. Len(left) : b + i - 1 = n + i
    BY <1>1
  <2>3. left = SubSeq(s, b, e)
    BY <1>2
  <2> HIDE DEF b, e, left
  <2>4. \A i \in 1 .. Len(left) : left[i] = s[b + i - 1]
    BY <2>1, <2>3, Window
  <2> QED  BY <2>2, <2>4
<1>4. PICK a : StartsAt(s, n, a) /\ Knows(s, a, n, scan.line) /\ Reported(s, a, scan.found)
  BY DEF Loop
<1>5. a \in 1 .. Len(s) + 1 /\ n \in a - 1 .. Len(s) /\ a \in 1 .. n + 1
  BY <1>1, <1>4 DEF StartsAt
<1>l. left = scan.left
  OBVIOUS
<1> HIDE DEF left, n
<1>6. CASE ends = {}
  <2> DEFINE m == Len(s)
             new == Push(scan.line, left)
  <2>1. TakeLine(scan) = [left |-> <<>>, line |-> new, found |-> scan.found, stop |-> scan.stop]
    <3>1. TakeLine(scan) = [scan EXCEPT !.left = <<>>, !.line = Push(@, scan.left)]
      BY <1>6, <1>l DEF TakeLine
    <3>2. scan = [left |-> scan.left, line |-> scan.line, found |-> scan.found, stop |-> scan.stop]
      BY DEF Loop
    <3> QED  BY <1>l, <3>1, <3>2
  <2>2. Knows(s, a, m, new)
    <3>1. m \in n .. Len(s)
      BY <1>1
    <3> QED  BY <1>2, <1>4, <1>5, <3>1, PushKnows
  <2>3. StartsAt(s, m, a)
    <3>1. ASSUME NEW j \in a .. m PROVE s[j] # NL
      <4>1. CASE j <= n
        <5>1. j \in a .. n
          BY <1>1, <1>5, <4>1
        <5> QED  BY <1>4, <5>1 DEF StartsAt
      <4>2. CASE j > n
        <5> DEFINE i == j - n
        <5>1. i \in 1 .. Len(left) /\ n + i = j
          BY <1>1, <1>5, <4>2
        <5> HIDE DEF i
        <5>2. left[i] # NL
          BY <1>6, <5>1
        <5> QED  BY <1>3, <5>1, <5>2
      <4> QED  BY <1>1, <1>5, <4>1, <4>2
    <3>2. a \in 1 .. m + 1
      BY <1>1, <1>5
    <3> QED  BY <1>4, <3>1, <3>2 DEF StartsAt
  <2>4. Consumed(s, <<>>) = m /\ SubSeq(s, m + 1, Len(s)) = <<>>
    BY <1>1, SubSeqEmpty DEF Consumed
  <2> HIDE DEF m, new
  <2>5. Loop(s, TakeLine(scan))
    <3>1. <<>> \in Seq(Byte) /\ Len(<<>>) <= Len(s) /\ scan.stop \in BOOLEAN
      BY <1>1 DEF Loop
    <3> DEFINE next == [left |-> <<>>, line |-> new, found |-> scan.found, stop |-> scan.stop]
    <3>2. next.left = <<>> /\ next.line = new /\ next.found = scan.found /\ next.stop = scan.stop
      OBVIOUS
    <3>3. next = [left |-> next.left, line |-> next.line, found |-> next.found, stop |-> next.stop]
      OBVIOUS
    <3>4. TakeLine(scan) = next
      BY <2>1
    <3> HIDE DEF next
    <3>5. ~next.stop
      BY <3>2
    <3>6. /\ StartsAt(s, Consumed(s, next.left), a) /\ Knows(s, a, Consumed(s, next.left), next.line)
          /\ Reported(s, a, next.found)
      BY <1>4, <2>2, <2>3, <2>4, <3>2
    <3>7. /\ next.left \in Seq(Byte) /\ Len(next.left) <= Len(s)
          /\ next.left = SubSeq(s, Consumed(s, next.left) + 1, Len(s)) /\ next.stop \in BOOLEAN
      BY <2>4, <3>1, <3>2
    <3> QED  BY <3>3, <3>4, <3>5, <3>6, <3>7 DEF Loop
  <2> QED  BY <1>1, <2>1, <2>5
<1>7. CASE ends # {}
  <2> DEFINE i == CHOOSE i \in ends : \A j \in ends : i <= j
             m == n + i - 1
             full == Push(scan.line, SubSeq(left, 1, i - 1))
             put == Emit(full, scan.found)
             fresh == Fresh(scan.line.number + 1)
             after == SubSeq(left, i + 1, Len(left))
  <2>1. i \in ends /\ \A j \in ends : i <= j
    <3>1. \E x \in ends : \A j \in ends : x <= j
      <4>1. ends \in SUBSET Nat
        OBVIOUS
      <4> HIDE DEF ends
      <4> QED  BY <1>7, <4>1, FirstNumber
    <3> QED  BY <3>1
  <2>2. TakeLine(scan) = [left |-> after, line |-> fresh, found |-> put.found, stop |-> put.stop]
    BY <1>7, <1>l DEF TakeLine
  <2> HIDE DEF i
  <2>3. /\ i \in 1 .. Len(left) /\ left[i] = NL /\ m \in n .. Len(s) - 1 /\ m + 1 = n + i
        /\ m \in 0 .. Len(s)
    BY <1>1, <2>1
  <2>4. s[m + 1] = NL
    BY <1>3, <2>3
  <2>5. SubSeq(left, 1, i - 1) = SubSeq(s, n + 1, m) /\ after = SubSeq(s, m + 2, Len(s))
    <3> DEFINE d == 0 - n
               b1 == n + 1
               b2 == m + 2
               e2 == Len(s)
    <3>1. \A j \in 1 .. Len(s) : j > n => j + d \in 1 .. Len(left) /\ n + (j + d) = j
      BY <1>1
    <3>2. \A j \in 1 .. Len(s) : j > n => left[j + d] = s[j]
      BY <1>3, <3>1
    <3> DEFINE all == Len(s)
               some == Len(left)
    <3>n. n \in Nat /\ m \in Nat /\ i \in Nat /\ m = n + i - 1 /\ d = 0 - n /\ i >= 1 /\ i <= some
          /\ some = all - n /\ all \in Nat /\ b1 = n + 1 /\ b2 = m + 2 /\ e2 = all
      BY <1>1, <2>3
    <3>l. all = Len(s) /\ some = Len(left)
      OBVIOUS
    <3> HIDE DEF d, b1, b2, e2, m, all, some
    <3>v. /\ b1 \in 1 .. all + 1 /\ m \in b1 - 1 .. all /\ d \in Int
          /\ b1 + d = 1 /\ m + d = i - 1
          /\ b1 + d \in 1 .. some + 1 /\ m + d \in b1 + d - 1 .. some
      BY <3>n
    <3>3. /\ b1 \in 1 .. Len(s) + 1 /\ m \in b1 - 1 .. Len(s) /\ d \in Int
          /\ b1 + d = 1 /\ m + d = i - 1
          /\ b1 + d \in 1 .. Len(left) + 1 /\ m + d \in b1 + d - 1 .. Len(left)
      BY <3>v, <3>l
    <3>w. /\ b2 \in 1 .. all + 1 /\ e2 \in b2 - 1 .. all
          /\ b2 + d = i + 1 /\ e2 + d = some
          /\ b2 + d \in 1 .. some + 1 /\ e2 + d \in b2 + d - 1 .. some
      BY <3>n
    <3>4. /\ b2 \in 1 .. Len(s) + 1 /\ e2 \in b2 - 1 .. Len(s)
          /\ b2 + d = i + 1 /\ e2 + d = Len(left)
          /\ b2 + d \in 1 .. Len(left) + 1 /\ e2 + d \in b2 + d - 1 .. Len(left)
      BY <3>w, <3>l
    <3>7. \A j \in b1 .. m : left[j + d] = s[j]
      <4>1. \A j \in b1 .. m : j \in 1 .. Len(s) /\ j > n
        BY <3>n, <3>l
      <4> QED  BY <3>2, <4>1
    <3>8. \A j \in b2 .. e2 : left[j + d] = s[j]
      <4>1. \A j \in b2 .. e2 : j \in 1 .. Len(s) /\ j > n
        BY <3>n, <3>l
      <4> QED  BY <3>2, <4>1
    <3>5. SubSeq(left, b1 + d, m + d) = SubSeq(s, b1, m)
      BY <1>1, <3>3, <3>7, SameWindow
    <3>6. SubSeq(left, b2 + d, e2 + d) = SubSeq(s, b2, e2)
      <4>1. d \in Int /\ left \in Seq(Byte)
        BY <1>1, <3>3
      <4>2. /\ b2 \in 1 .. Len(s) + 1 /\ e2 \in b2 - 1 .. Len(s)
            /\ b2 + d \in 1 .. Len(left) + 1 /\ e2 + d \in b2 + d - 1 .. Len(left)
        BY <3>4
      <4> QED  BY <4>1, <4>2, <3>8, SameWindow, ZenonT(60)
    <3> QED  BY <3>3, <3>4, <3>5, <3>6, <3>n, <3>l
  <2>6. Knows(s, a, m, full)
    <3>1. m \in n .. Len(s)
      BY <2>3
    <3> QED  BY <1>4, <1>5, <2>5, <3>1, PushKnows
  <2>7. StartsAt(s, m, a) /\ a <= Len(s)
    <3>1. ASSUME NEW j \in a .. m PROVE s[j] # NL
      <4>1. CASE j <= n
        <5>1. j \in a .. n
          BY <1>1, <1>5, <4>1
        <5> QED  BY <1>4, <5>1 DEF StartsAt
      <4>2. CASE j > n
        <5> DEFINE k == j - n
        <5>1. k \in 1 .. Len(left) /\ n + k = j /\ ~(i <= k)
          BY <1>1, <1>5, <2>3, <4>2
        <5> HIDE DEF k
        <5>2. left[k] # NL
          BY <2>1, <5>1
        <5> QED  BY <1>3, <5>1, <5>2
      <4> QED  BY <1>1, <1>5, <2>3, <4>1, <4>2
    <3>2. a \in 1 .. m + 1 /\ a <= Len(s)
      BY <1>1, <1>5, <2>3
    <3> QED  BY <1>4, <3>1, <3>2 DEF StartsAt
  <2> HIDE DEF m, full, after
  <2>8. /\ put.stop \in BOOLEAN
        /\ ~put.stop => Reported(s, m + 2, put.found)
        /\ put.stop => \E b \in Nat : Reported(s, b, put.found)
    BY <1>4, <2>3, <2>4, <2>6, <2>7, EmitReports
  <2> HIDE DEF put
  <2>9. after \in Seq(Byte) /\ Len(after) = Len(left) - i /\ Consumed(s, after) = m + 1
    <3> DEFINE b == i + 1
               e == Len(left)
    <3>1. b \in 1 .. Len(left) + 1 /\ e \in b - 1 .. Len(left) /\ e - b + 1 = Len(left) - i
      BY <1>1, <2>3, SMTT(30)
    <3> HIDE DEF b, e
    <3>2. SubSeq(left, b, e) \in Seq(Byte) /\ Len(SubSeq(left, b, e)) = Len(left) - i
      BY <1>1, <3>1, Window
    <3>3. after \in Seq(Byte) /\ Len(after) = Len(left) - i
      BY <3>2 DEF after, b, e
    <3> QED  BY <1>1, <2>3, <3>3, SMTT(30) DEF Consumed
  <2>10. scan.line.number = NumberOf(s, a)
    BY <1>4 DEF Knows
  <2>11. NumberOf(s, m + 2) = NumberOf(s, a) + 1
    <3>1. a \in Nat /\ m \in Nat /\ a >= 1 /\ a <= m + 1 /\ \A j \in a .. m : s[j] # NL
      BY <1>5, <2>3, <2>7 DEF StartsAt
    <3> QED  BY <2>4, <3>1, NextNumber
  <2>12. Knows(s, m + 2, m + 1, fresh) /\ StartsAt(s, m + 1, m + 2)
    <3> DEFINE c == m + 1
    <3>1. c \in 0 .. Len(s) /\ c + 1 = m + 2 /\ s[c] = NL
      BY <1>1, <2>3, <2>4
    <3> HIDE DEF c
    <3>2. Knows(s, c + 1, c, Fresh(NumberOf(s, c + 1))) /\ StartsAt(s, c, c + 1)
      BY <3>1, FreshKnows
    <3>3. fresh = Fresh(NumberOf(s, c + 1))
      BY <2>10, <2>11, <3>1
    <3> QED  BY <3>1, <3>2, <3>3 DEF c
  <2> HIDE DEF fresh
  <2>13. Len(after) < Len(left) /\ Len(after) <= Len(s)
    BY <1>1, <2>3, <2>9
  <2>14. after = SubSeq(s, Consumed(s, after) + 1, Len(s))
    <3>1. (m + 1) + 1 = m + 2
      BY <2>3
    <3> QED  BY <2>5, <2>9, <3>1
  <2>15. Loop(s, TakeLine(scan))
    <3> DEFINE next == [left |-> after, line |-> fresh, found |-> put.found, stop |-> put.stop]
    <3>1. next.left = after /\ next.line = fresh /\ next.found = put.found /\ next.stop = put.stop
      OBVIOUS
    <3>2. next = [left |-> next.left, line |-> next.line, found |-> next.found, stop |-> next.stop]
      OBVIOUS
    <3>3. TakeLine(scan) = next
      BY <2>2
    <3> HIDE DEF next
    <3>4. ~next.stop => \E z : /\ StartsAt(s, Consumed(s, next.left), z)
                               /\ Knows(s, z, Consumed(s, next.left), next.line)
                               /\ Reported(s, z, next.found)
      BY <2>8, <2>9, <2>12, <3>1
    <3>5. next.stop => \E b \in Nat : Reported(s, b, next.found)
      BY <2>8, <3>1
    <3>6. next.stop \in BOOLEAN
      BY <2>8, <3>1
    <3>7. /\ next.left \in Seq(Byte) /\ Len(next.left) <= Len(s)
          /\ next.left = SubSeq(s, Consumed(s, next.left) + 1, Len(s))
      BY <2>9, <2>13, <2>14, <3>1
    <3> QED  BY <3>2, <3>3, <3>4, <3>5, <3>6, <3>7 DEF Loop
  <2> QED  BY <1>l, <2>2, <2>13, <2>15
<1> QED  BY <1>6, <1>7

(* The loop turns once for each entry of the recursion, or is over. *)
TurnedTo(f, chunk, l, out, n) ==
  IF n = 0 THEN [left |-> chunk, line |-> l, found |-> out, stop |-> FALSE]
  ELSE IF f[n - 1].stop \/ f[n - 1].left = <<>> THEN f[n - 1]
  ELSE TakeLine(f[n - 1])
TurnedBy(f, chunk, l, out, n) == f = [i \in 0 .. n |-> TurnedTo(f, chunk, l, out, i)]

LEMMA TurnsExist ==
  ASSUME NEW chunk, NEW l, NEW out, NEW n \in Nat
  PROVE  \E f : TurnedBy(f, chunk, l, out, n)
<1> DEFINE T == {k \in Nat : ~\E f : TurnedBy(f, chunk, l, out, k)}
<1> SUFFICES ASSUME T # {} PROVE FALSE
  OBVIOUS
<1>1. PICK x \in T : \A y \in T : x <= y
  BY FirstNumber
<1>2. x # 0
  <2> DEFINE f == [i \in 0 .. 0 |-> [left |-> chunk, line |-> l, found |-> out, stop |-> FALSE]]
  <2>1. TurnedBy(f, chunk, l, out, 0)
    BY DEF TurnedBy, TurnedTo
  <2> QED  BY <2>1
<1>3. x - 1 \in Nat /\ x - 1 \notin T
  BY <1>1, <1>2
<1>4. PICK f : TurnedBy(f, chunk, l, out, x - 1)
  BY <1>3
<1> DEFINE g == [i \in 0 .. x |-> IF i = x THEN TurnedTo(f, chunk, l, out, x) ELSE f[i]]
<1>5. TurnedBy(g, chunk, l, out, x)
  <2>1. \A i \in 0 .. x : TurnedTo(g, chunk, l, out, i) = TurnedTo(f, chunk, l, out, i)
    <3> SUFFICES ASSUME NEW i \in 0 .. x, i # 0
                 PROVE  g[i - 1] = f[i - 1]
      BY DEF TurnedTo
    <3> QED  BY <1>3
  <2>2. \A i \in 0 .. x : i # x => f[i] = TurnedTo(f, chunk, l, out, i)
    <3> DEFINE h(i) == TurnedTo(f, chunk, l, out, i)
    <3>1. f = [i \in 0 .. x - 1 |-> h(i)]
      BY <1>4 DEF TurnedBy
    <3> HIDE DEF h
    <3>2. \A i \in 0 .. x : i # x => f[i] = h(i)
      BY <1>3, <3>1
    <3> QED  BY <3>2 DEF h
  <2>3. \A i \in 0 .. x : g[i] = TurnedTo(g, chunk, l, out, i)
    BY <2>1, <2>2
  <2> HIDE DEF g
  <2>4. g = [i \in 0 .. x |-> g[i]]
    BY DEF g
  <2> QED  BY <2>3, <2>4 DEF TurnedBy
<1> QED  BY <1>5

LEMMA ScanLoops ==
  ASSUME LiteralOK, NEW s \in Seq(Byte), NEW chunk \in Seq(Byte), NEW l, NEW out,
         Loop(s, [left |-> chunk, line |-> l, found |-> out, stop |-> FALSE])
  PROVE  LET end == Scan(chunk, l, out)
         IN  Loop(s, end) /\ (end.stop \/ end.left = <<>>)
<1> DEFINE n == Len(chunk)
           f == CHOOSE g : TurnedBy(g, chunk, l, out, n)
<1>1. n \in Nat
  OBVIOUS
<1>2. Scan(chunk, l, out) = f[n]
  BY DEF Scan, TurnedBy, TurnedTo
<1>3. TurnedBy(f, chunk, l, out, n)
  <2> HIDE DEF n
  <2>1. \E g : TurnedBy(g, chunk, l, out, n)
    BY <1>1, TurnsExist
  <2> QED  BY <2>1
<1>n. n = Len(chunk)
  OBVIOUS
<1> HIDE DEF f, n
<1>4. \A i \in 0 .. n : f[i] = TurnedTo(f, chunk, l, out, i)
  <2> DEFINE h(i) == TurnedTo(f, chunk, l, out, i)
  <2>1. f = [i \in 0 .. n |-> h(i)]
    BY <1>3 DEF TurnedBy
  <2> HIDE DEF h
  <2>2. \A i \in 0 .. n : f[i] = h(i)
    BY <2>1
  <2> QED  BY <2>2 DEF h
<1> DEFINE Fine(i) == /\ Loop(s, f[i])
                      /\ f[i].stop \/ f[i].left = <<>> \/ Len(f[i].left) <= n - i
<1>5. Fine(0)
  <2>1. f[0] = [left |-> chunk, line |-> l, found |-> out, stop |-> FALSE]
    <3>1. f[0] = TurnedTo(f, chunk, l, out, 0)
      <4>1. 0 \in 0 .. n
        BY <1>1
      <4> QED  BY <1>4, <4>1
    <3> QED  BY <3>1 DEF TurnedTo
  <2> QED  BY <1>1, <1>n, <2>1
<1>6. ASSUME NEW i \in 1 .. n, Fine(i - 1)
      PROVE  Fine(i)
  <2>1. f[i] = IF f[i - 1].stop \/ f[i - 1].left = <<>> THEN f[i - 1] ELSE TakeLine(f[i - 1])
    <3>1. i \in 0 .. n /\ i # 0
      BY <1>1
    <3> QED  BY <1>4, <3>1 DEF TurnedTo
  <2>2. CASE f[i - 1].stop \/ f[i - 1].left = <<>>
    BY <1>6, <2>1, <2>2
  <2>3. CASE ~f[i - 1].stop /\ f[i - 1].left # <<>>
    <3>1. Loop(s, f[i]) /\ Len(f[i].left) < Len(f[i - 1].left)
      BY <1>6, <2>1, <2>3, TurnKept
    <3>2. f[i].left \in Seq(Byte) /\ f[i - 1].left \in Seq(Byte) /\ Len(f[i - 1].left) <= n - (i - 1)
      BY <1>6, <2>3, <3>1 DEF Loop
    <3>3. Len(f[i].left) \in Nat /\ Len(f[i - 1].left) \in Nat
      BY <3>2
    <3> QED  BY <1>1, <3>1, <3>2, <3>3, SMTT(30)
  <2> QED  BY <2>2, <2>3
<1>7. \A i \in 0 .. n : Fine(i)
  <2> DEFINE T == {i \in 0 .. n : ~Fine(i)}
  <2> SUFFICES ASSUME T # {} PROVE FALSE
    OBVIOUS
  <2>1. T \in SUBSET Nat
    OBVIOUS
  <2>2. PICK x \in T : \A y \in T : x <= y
    <3> HIDE DEF T
    <3> QED  BY <2>1, FirstNumber
  <2>3. x \in 0 .. n /\ ~Fine(x)
    OBVIOUS
  <2> HIDE DEF Fine
  <2>4. x # 0
    BY <1>5, <2>3
  <2>5. x \in 1 .. n /\ x - 1 \in 0 .. n /\ ~(x <= x - 1)
    BY <1>1, <2>3, <2>4
  <2>6. Fine(x - 1)
    BY <2>2, <2>5
  <2> QED  BY <1>6, <2>3, <2>5, <2>6
<1>8. Fine(n)
  BY <1>1, <1>7
<1>9. f[n].stop \/ f[n].left = <<>>
  <2>1. f[n].left \in Seq(Byte)
    BY <1>8 DEF Loop
  <2>2. Len(f[n].left) <= n - n => f[n].left = <<>>
    BY <1>1, <2>1
  <2> QED  BY <1>8, <2>2
<1> QED  BY <1>2, <1>8, <1>9

(* While a file is scanned, the scan knows its line and has reported the lines before it. *)
ScanInv ==
  /\ literal \in Seq(Byte) /\ rest \in Seq(Byte) /\ read \in Seq(Byte)
  /\ verdict # "idle" => Len(literal) >= 1
  /\ verdict = "idle" => read = <<>> /\ line = Fresh(1) /\ found = <<>>
  /\ verdict = "scanning" => \E a : /\ StartsAt(read, Len(read), a)
                                    /\ Knows(read, a, Len(read), line)
                                    /\ Reported(read, a, found)
  /\ verdict = "completed" => found \in Seq(Hit) /\ ToSet(found) = Hits(read)
  /\ verdict = "limit" => \E b \in Nat : Reported(read, b, found)
  /\ \A i \in 1 .. Len(found) - 1 : found[i].number < found[i + 1].number

(* An array of bytes is a sequence of them. *)
LEMMA ArrayIsSeq ==
  ASSUME NEW S, NEW n \in Nat, NEW f \in [1 .. n -> S]
  PROVE  f \in Seq(S) /\ Len(f) = n
OBVIOUS

(* Before the first byte. *)
LEMMA NothingRead ==
  LiteralOK => /\ Knows(<<>>, 1, 0, Fresh(1)) /\ StartsAt(<<>>, 0, 1)
               /\ Reported(<<>>, 1, <<>>)
<1> SUFFICES ASSUME LiteralOK
             PROVE  /\ Knows(<<>>, 1, 0, Fresh(1)) /\ StartsAt(<<>>, 0, 1)
                    /\ Reported(<<>>, 1, <<>>)
  OBVIOUS
<1>1. NumberOf(<<>>, 1) = 1
  <2>1. Newlines(<<>>, 1) = {}
    BY DEF Newlines
  <2> QED  BY <2>1, NewlinesFinite, FS_EmptySet
<1>2. /\ Knows(<<>>, 0 + 1, 0, Fresh(NumberOf(<<>>, 0 + 1)))
      /\ 0 = 0 \/ <<>>[0] = NL => StartsAt(<<>>, 0, 0 + 1)
  <2> DEFINE s == <<>>
             n == 0
  <2>1. s \in Seq(Byte) /\ n \in 0 .. Len(s)
    OBVIOUS
  <2> HIDE DEF s, n
  <2>2. Knows(s, n + 1, n, Fresh(NumberOf(s, n + 1))) /\ (n = 0 \/ s[n] = NL => StartsAt(s, n, n + 1))
    BY <2>1, FreshKnows
  <2> QED  BY <2>2 DEF s, n
<1>3. HitsBefore(<<>>, 1) = {}
  BY DEF HitsBefore, HitLines, LineStarts
<1>4. ToSet(<<>>) = {}
  BY DEF ToSet
<1>5. Reported(<<>>, 1, <<>>)
  <2>1. <<>> \in Seq(Hit) /\ \A i \in 1 .. Len(<<>>) - 1 : FALSE
    OBVIOUS
  <2> QED  BY <1>3, <1>4, <2>1 DEF Reported
<1> QED  BY <1>1, <1>2, <1>5

LEMMA OpenScans == ScanInv /\ Open => ScanInv'
<1> SUFFICES ASSUME ScanInv, Open PROVE ScanInv'
  OBVIOUS
<1>1. literal' \in Seq(Byte) /\ Len(literal') >= 1
  <2>1. PICK n \in 1 .. MaxLiteral : literal' \in [1 .. n -> Byte \ {NL, NUL}]
    BY DEF Open
  <2>2. n \in Nat /\ n >= 1 /\ literal' \in [1 .. n -> Byte]
    BY <2>1, LineScanAssumption
  <2> QED  BY <2>2, ArrayIsSeq
<1>2. rest' \in Seq(Byte)
  <2>1. PICK n \in 0 .. MaxFile : rest' \in [1 .. n -> Byte]
    BY DEF Open
  <2>2. n \in Nat
    BY <2>1, LineScanAssumption
  <2> QED  BY <2>1, <2>2, ArrayIsSeq
<1>3. read' = <<>> /\ line' = Fresh(1) /\ found' = <<>> /\ verdict' = "scanning" /\ <<>> \in Seq(Byte)
  BY DEF Open, ScanInv
<1>4. LiteralOK'
  BY <1>1 DEF LiteralOK
<1>5. (/\ Knows(<<>>, 1, 0, Fresh(1)) /\ StartsAt(<<>>, 0, 1)
       /\ Reported(<<>>, 1, <<>>))'
  BY <1>4, NothingRead, PTL
<1>6. /\ StartsAt(read, Len(read), 1)' /\ Knows(read, 1, Len(read), line)'
      /\ Reported(read, 1, found)' /\ Len(found') = 0
  BY <1>3, <1>5
<1> QED  BY <1>1, <1>2, <1>3, <1>6 DEF ScanInv

LEMMA ChunkScans == ScanInv /\ Chunk => ScanInv'
<1> SUFFICES ASSUME ScanInv, Chunk PROVE ScanInv'
  OBVIOUS
<1>1. PICK n \in 1 .. Len(rest) :
        LET chunk == SubSeq(rest, 1, n)
            after == Scan(chunk, line, found)
        IN  /\ read' = read \o chunk /\ rest' = SubSeq(rest, n + 1, Len(rest))
            /\ line' = after.line /\ found' = after.found
            /\ verdict' = IF after.stop THEN "limit" ELSE verdict
  BY DEF Chunk
<1> DEFINE chunk == SubSeq(rest, 1, n)
           after == Scan(chunk, line, found)
<1>2. PICK s : s = read \o chunk
  OBVIOUS
<1>3. /\ read' = s /\ rest' = SubSeq(rest, n + 1, Len(rest))
      /\ line' = after.line /\ found' = after.found
      /\ verdict' = IF after.stop THEN "limit" ELSE "scanning"
  BY <1>1, <1>2 DEF Chunk
<1>4. literal' = literal /\ verdict = "scanning" /\ literal \in Seq(Byte) /\ Len(literal) >= 1
      /\ read \in Seq(Byte) /\ rest \in Seq(Byte)
  BY DEF Chunk, ScanInv
<1>5. /\ chunk \in Seq(Byte) /\ Len(chunk) = n /\ rest' \in Seq(Byte)
  <2> DEFINE b == n + 1
             e == Len(rest)
  <2>1. /\ 1 \in 1 .. Len(rest) + 1 /\ n \in 1 - 1 .. Len(rest) /\ n - 1 + 1 = n
        /\ b \in 1 .. Len(rest) + 1 /\ e \in b - 1 .. Len(rest)
    BY <1>4
  <2> HIDE DEF b, e
  <2>2. chunk \in Seq(Byte) /\ Len(chunk) = n /\ SubSeq(rest, b, e) \in Seq(Byte)
    BY <1>4, <2>1, Window
  <2> QED  BY <1>3, <2>2 DEF b, e
<1> HIDE DEF chunk
<1>6. /\ s \in Seq(Byte) /\ Len(s) = Len(read) + Len(chunk)
      /\ \A k \in 1 .. Len(read) : s[k] = read[k]
      /\ \A k \in 1 .. Len(chunk) : s[Len(read) + k] = chunk[k]
  <2> DEFINE w == read \o chunk
  <2>1. read \in Seq(Byte) /\ chunk \in Seq(Byte)
    BY <1>4, <1>5
  <2>2. /\ w \in Seq(Byte) /\ Len(w) = Len(read) + Len(chunk)
        /\ \A k \in 1 .. Len(read) : w[k] = read[k]
        /\ \A k \in 1 .. Len(chunk) : w[Len(read) + k] = chunk[k]
    BY <2>1, Concatenated
  <2> HIDE DEF w
  <2>3. s = w
    BY <1>2 DEF w
  <2> QED  BY <2>2, <2>3
<1>7. Len(read) \in Nat /\ Len(chunk) \in Nat /\ Len(s) \in Nat /\ Begins(read, s)
  BY <1>4, <1>5, <1>6 DEF Begins
<1>8. PICK a : StartsAt(read, Len(read), a) /\ Knows(read, a, Len(read), line) /\ Reported(read, a, found)
  BY <1>4 DEF ScanInv
<1>9. a \in 1 .. Len(read) + 1 /\ Len(read) \in a - 1 .. Len(read)
  BY <1>7, <1>8 DEF StartsAt
<1>10. StartsAt(s, Len(read), a)
  <2>1. \A j \in a .. Len(read) : j \in 1 .. Len(read)
    BY <1>7, <1>9
  <2>2. a = 1 \/ a - 1 \in 1 .. Len(read)
    BY <1>7, <1>9
  <2> QED  BY <1>6, <1>8, <1>9, <2>1, <2>2 DEF StartsAt
<1>11. Knows(s, a, Len(read), line) /\ Reported(s, a, found)
  <2>1. Knows(s, a, Len(read), line)
    BY <1>7, <1>8, <1>9, SameKnows
  <2>2. HitsBefore(s, a) = HitsBefore(read, a)
    BY <1>7, <1>8, SameHits
  <2> QED  BY <1>8, <2>1, <2>2 DEF Reported
<1>12. chunk = SubSeq(s, Len(read) + 1, Len(s)) /\ Consumed(s, chunk) = Len(read)
  <2> DEFINE b == Len(read) + 1
             e == Len(s)
             w == SubSeq(s, b, e)
  <2>1. b \in 1 .. Len(s) + 1 /\ e \in b - 1 .. Len(s) /\ e - b + 1 = Len(chunk)
    BY <1>6, <1>7
  <2>2. \A i \in 1 .. Len(chunk) : b + i - 1 = Len(read) + i
    BY <1>7
  <2> HIDE DEF b, e
  <2>3. w \in Seq(Byte) /\ Len(w) = Len(chunk) /\ \A i \in 1 .. Len(chunk) : w[i] = s[b + i - 1]
    BY <1>6, <2>1, Window
  <2> HIDE DEF w
  <2>4. w = chunk
    BY <1>5, <1>6, <2>2, <2>3, SeqEqual
  <2>5. Consumed(s, chunk) = Len(read)
    BY <1>6, <1>7 DEF Consumed
  <2> QED  BY <2>4, <2>5 DEF w, b, e
<1>13. Loop(s, [left |-> chunk, line |-> line, found |-> found, stop |-> FALSE])
  <2> DEFINE begin == [left |-> chunk, line |-> line, found |-> found, stop |-> FALSE]
  <2>1. /\ begin = [left |-> begin.left, line |-> begin.line, found |-> begin.found,
                    stop |-> begin.stop]
        /\ begin.left = chunk /\ begin.line = line /\ begin.found = found /\ begin.stop = FALSE
    OBVIOUS
  <2> HIDE DEF begin
  <2>2. Len(chunk) <= Len(s)
    BY <1>6, <1>7
  <2>3. Loop(s, begin)
    BY <1>5, <1>10, <1>11, <1>12, <2>1, <2>2 DEF Loop
  <2> QED  BY <2>3 DEF begin
<1>14. Loop(s, after) /\ (after.stop \/ after.left = <<>>)
  <2>1. LiteralOK
    BY <1>4 DEF LiteralOK
  <2> QED  BY <1>5, <1>6, <1>13, <2>1, ScanLoops
<1> HIDE DEF after
<1>h. \A b : HitsBefore(s, b)' = HitsBefore(s, b)
  BY <1>4 DEF HitsBefore, HitLines, HitAt, LineAt, LineEnd, LineStarts, NumberOf, Holds, FirstOf, Low
<1>15. CASE after.stop
  <2>1. PICK b \in Nat : Reported(s, b, after.found)
    BY <1>14, <1>15 DEF Loop
  <2>2. Reported(read, b, found)'
    BY <1>3, <1>h, <2>1 DEF Reported
  <2>3. verdict' = "limit"
    BY <1>3, <1>15
  <2> QED  BY <1>3, <1>4, <1>5, <1>6, <2>2, <2>3 DEF ScanInv, Reported
<1>16. CASE ~after.stop
  <2>1. Consumed(s, after.left) = Len(s)
    BY <1>7, <1>14, <1>16 DEF Consumed
  <2>2. PICK c : StartsAt(s, Len(s), c) /\ Knows(s, c, Len(s), after.line) /\ Reported(s, c, after.found)
    BY <1>14, <1>16, <2>1 DEF Loop
  <2>3. Reported(read, c, found)'
    BY <1>3, <1>h, <2>2 DEF Reported
  <2>4. StartsAt(read, Len(read), c)'
    BY <1>3, <2>2 DEF StartsAt
  <2>5. Knows(read, c, Len(read), line)'
    BY <1>3, <1>4, <2>2 DEF Knows, NumberOf, Holds, FirstOf, LastOf, Low, LineState
  <2>6. verdict' = "scanning"
    BY <1>3, <1>16
  <2> QED  BY <1>3, <1>4, <1>5, <1>6, <2>3, <2>4, <2>5, <2>6 DEF ScanInv, Reported
<1> QED  BY <1>15, <1>16

(* Every line with a literal starts in the file. *)
LEMMA AllBefore ==
  ASSUME NEW s \in Seq(Byte), NEW b \in Nat, b > Len(s)
  PROVE  HitsBefore(s, b) = Hits(s)
<1>1. \A c \in HitLines(s) : c < b
  BY DEF HitLines, LineStarts
<1> QED  BY <1>1 DEF HitsBefore, Hits

LEMMA EofScans == ScanInv /\ Eof => ScanInv'
<1> SUFFICES ASSUME ScanInv, Eof PROVE ScanInv'
  OBVIOUS
<1> DEFINE put == IF line.data THEN Emit(line, found) ELSE [found |-> found, stop |-> FALSE]
           n == Len(read)
<1>1. /\ found' = put.found /\ verdict' = IF put.stop THEN "limit" ELSE "completed"
      /\ literal' = literal /\ rest' = rest /\ read' = read /\ verdict = "scanning"
  BY DEF Eof
<1>2. /\ literal \in Seq(Byte) /\ rest \in Seq(Byte) /\ read \in Seq(Byte) /\ Len(literal) >= 1
      /\ n \in Nat
  BY <1>1 DEF ScanInv
<1>3. PICK a : StartsAt(read, n, a) /\ Knows(read, a, n, line) /\ Reported(read, a, found)
  BY <1>1 DEF ScanInv
<1>4. /\ put.stop \in BOOLEAN
      /\ ~put.stop => \E b \in Nat : b > n /\ Reported(read, b, put.found)
      /\ put.stop => \E b \in Nat : Reported(read, b, put.found)
  <2>1. a \in 1 .. n + 1
    BY <1>3 DEF StartsAt
  <2>2. CASE line.data
    <3>1. a <= n /\ n \in 0 .. Len(read)
      BY <1>2, <1>3, <2>2 DEF Knows
    <3>2. put = Emit(line, found)
      BY <2>2
    <3> HIDE DEF put
    <3>3. /\ put.stop \in BOOLEAN
          /\ ~put.stop => Reported(read, n + 2, put.found)
          /\ put.stop => \E b \in Nat : Reported(read, b, put.found)
      BY <1>2, <1>3, <3>1, <3>2, EmitReports
    <3>4. n + 2 \in Nat /\ n + 2 > n
      BY <1>2
    <3> QED  BY <3>3, <3>4
  <2>3. CASE ~line.data
    <3>1. a \in Nat /\ a > n
      BY <1>2, <1>3, <2>1, <2>3 DEF Knows
    <3>2. put.found = found /\ put.stop = FALSE
      BY <2>3
    <3> HIDE DEF put
    <3> QED  BY <1>3, <3>1, <3>2
  <2> QED  BY <2>2, <2>3
<1> HIDE DEF put
<1>h. (\A b : HitsBefore(read, b)' = HitsBefore(read, b)) /\ Hits(read)' = Hits(read)
  BY <1>1 DEF Hits, HitsBefore, HitLines, HitAt, LineAt, LineEnd, LineStarts, NumberOf, Holds,
              FirstOf, Low
<1>5. CASE put.stop
  <2>1. PICK b \in Nat : Reported(read, b, put.found)
    BY <1>4, <1>5
  <2>2. Reported(read, b, found)'
    BY <1>1, <1>h, <2>1 DEF Reported
  <2>3. verdict' = "limit"
    BY <1>1, <1>5
  <2> QED  BY <1>1, <1>2, <2>2, <2>3 DEF ScanInv, Reported
<1>6. CASE ~put.stop
  <2>1. PICK b \in Nat : b > n /\ Reported(read, b, put.found)
    BY <1>4, <1>6
  <2>2. HitsBefore(read, b) = Hits(read)
    BY <1>2, <2>1, AllBefore
  <2>3. verdict' = "completed"
    BY <1>1, <1>6
  <2>4. /\ found' \in Seq(Hit) /\ ToSet(found') = Hits(read)'
        /\ \A i \in 1 .. Len(found') - 1 : found'[i].number < found'[i + 1].number
    BY <1>1, <1>h, <2>1, <2>2 DEF Reported
  <2> QED  BY <1>1, <1>2, <2>3, <2>4 DEF ScanInv, Hit
<1> QED  BY <1>5, <1>6

LEMMA ScanStart == LineScanInit => ScanInv
BY DEF LineScanInit, ScanInv, Fresh

LEMMA ScanSteps == ScanInv /\ [LineScanNext]_lineScanVars => ScanInv'
<1> SUFFICES ASSUME ScanInv, [LineScanNext]_lineScanVars PROVE ScanInv'
  OBVIOUS
<1>1. CASE UNCHANGED lineScanVars
  <2>1. /\ literal' = literal /\ rest' = rest /\ read' = read /\ line' = line /\ found' = found
        /\ verdict' = verdict
    BY <1>1 DEF lineScanVars
  <2>2. /\ \A b : HitsBefore(read, b)' = HitsBefore(read, b)
        /\ Hits(read)' = Hits(read)
    BY <2>1 DEF Hits, HitsBefore, HitLines, HitAt, LineAt, LineEnd, LineStarts, NumberOf, Holds,
                FirstOf, Low
  <2>3. \A b : Reported(read, b, found) => Reported(read, b, found)'
    BY <2>1, <2>2 DEF Reported
  <2>4. \A a : Knows(read, a, Len(read), line) => Knows(read, a, Len(read), line)'
    BY <2>1 DEF Knows, NumberOf, Holds, FirstOf, LastOf, Low, LineState
  <2>5. \A a : StartsAt(read, Len(read), a) => StartsAt(read, Len(read), a)'
    BY <2>1 DEF StartsAt
  <2>6. (verdict = "scanning" => \E a : /\ StartsAt(read, Len(read), a)
                                       /\ Knows(read, a, Len(read), line)
                                       /\ Reported(read, a, found))'
    BY <2>1, <2>3, <2>4, <2>5 DEF ScanInv
  <2>7. (verdict = "limit" => \E b \in Nat : Reported(read, b, found))'
    BY <2>1, <2>3 DEF ScanInv
  <2> QED  BY <2>1, <2>2, <2>6, <2>7 DEF ScanInv
<1> QED  BY <1>1, OpenScans, ChunkScans, EofScans DEF LineScanNext

LEMMA Increasing ==
  ASSUME NEW out \in Seq(Hit), \A i \in 1 .. Len(out) - 1 : out[i].number < out[i + 1].number
  PROVE  \A j \in 1 .. Len(out) : \A i \in 1 .. j - 1 : out[i].number < out[j].number
<1> DEFINE T == {j \in 1 .. Len(out) : ~\A i \in 1 .. j - 1 : out[i].number < out[j].number}
<1> SUFFICES ASSUME T # {} PROVE FALSE
  OBVIOUS
<1>1. T \in SUBSET Nat
  OBVIOUS
<1>2. PICK x \in T : \A y \in T : x <= y
  <2> HIDE DEF T
  <2> QED  BY <1>1, FirstNumber
<1>3. PICK i \in 1 .. x - 1 : ~(out[i].number < out[x].number)
  OBVIOUS
<1>4. x \in 1 .. Len(out) /\ i \in Nat /\ i >= 1 /\ i < x /\ Len(out) \in Nat
  BY <1>3
<1>5. \A k \in 1 .. Len(out) : out[k].number \in Nat
  <2>1. \A k \in 1 .. Len(out) : out[k] \in Hit
    OBVIOUS
  <2> QED  BY <2>1 DEF Hit
<1>6. CASE i = x - 1
  <2>1. i \in 1 .. Len(out) - 1 /\ i + 1 = x
    BY <1>4, <1>6
  <2> QED  BY <1>3, <2>1
<1>7. CASE i # x - 1
  <2>1. x - 1 \in 1 .. Len(out) /\ i \in 1 .. (x - 1) - 1 /\ ~(x <= x - 1)
        /\ x - 1 \in 1 .. Len(out) - 1 /\ (x - 1) + 1 = x /\ i \in 1 .. Len(out)
    BY <1>4, <1>7
  <2>2. out[i].number < out[x - 1].number
    BY <1>2, <2>1
  <2>3. out[x - 1].number < out[x].number
    BY <2>1
  <2>4. out[i].number \in Nat /\ out[x - 1].number \in Nat /\ out[x].number \in Nat
    BY <1>4, <1>5, <2>1
  <2>5. out[i].number < out[x].number
    <3> DEFINE u == out[i].number
               v == out[x - 1].number
               w == out[x].number
    <3>1. u \in Nat /\ v \in Nat /\ w \in Nat /\ u < v /\ v < w
      BY <2>2, <2>3, <2>4
    <3> HIDE DEF u, v, w
    <3>2. u < w
      BY <3>1
    <3> QED  BY <3>2 DEF u, w
  <2> QED  BY <1>3, <2>5
<1> QED  BY <1>6, <1>7

LEMMA ReportIsExact == ScanInv => ScanExact
<1> SUFFICES ASSUME ScanInv PROVE ScanExact
  OBVIOUS
<1>1. verdict = "completed" => ToSet(found) = Hits(read) /\ Len(found) = Cardinality(Hits(read))
  <2> SUFFICES ASSUME verdict = "completed"
               PROVE  ToSet(found) = Hits(read) /\ Len(found) = Cardinality(Hits(read))
    OBVIOUS
  <2>1. /\ found \in Seq(Hit) /\ ToSet(found) = Hits(read) /\ Len(found) \in Nat
        /\ \A i \in 1 .. Len(found) - 1 : found[i].number < found[i + 1].number
    <3>1. /\ found \in Seq(Hit) /\ ToSet(found) = Hits(read)
          /\ \A i \in 1 .. Len(found) - 1 : found[i].number < found[i + 1].number
      BY DEF ScanInv
    <3> QED  BY <3>1
  <2>2. DOMAIN found = 1 .. Len(found) /\ \A i \in 1 .. Len(found) : found[i].number \in Nat
    <3>1. \A i \in 1 .. Len(found) : found[i] \in Hit
      BY <2>1
    <3> QED  BY <2>1, <3>1 DEF Hit
  <2>3. \A j \in 1 .. Len(found) : \A i \in 1 .. j - 1 : found[i].number < found[j].number
    BY <2>1, Increasing
  <2>4. ASSUME NEW i \in 1 .. Len(found), NEW j \in 1 .. Len(found), found[i] = found[j]
        PROVE  i = j
    <3>1. CASE i < j
      <4>1. i \in 1 .. j - 1
        BY <2>1, <3>1
      <4> QED  BY <2>2, <2>3, <2>4, <4>1
    <3>2. CASE j < i
      <4>1. j \in 1 .. i - 1
        BY <2>1, <3>2
      <4> QED  BY <2>2, <2>3, <2>4, <4>1
    <3> QED  BY <2>1, <3>1, <3>2
  <2>5. found \in Bijection(1 .. Len(found), Hits(read))
    <3>1. found \in [1 .. Len(found) -> Hits(read)]
      BY <2>1, <2>2 DEF ToSet
    <3>2. \A h \in Hits(read) : \E i \in 1 .. Len(found) : found[i] = h
      BY <2>1, <2>2 DEF ToSet
    <3> QED  BY <2>4, <3>1, <3>2 DEF Bijection, Injection, IsInjective, Surjection
  <2>6. ExistsBijection(1 .. Len(found), Hits(read))
    BY <2>5 DEF ExistsBijection
  <2> QED  BY <2>1, <2>6, FS_CountingElements
<1>2. verdict = "limit" =>
        /\ ToSet(found) \subseteq Hits(read)
        /\ \A h \in Hits(read) \ ToSet(found) : \A f \in ToSet(found) : f.number < h.number
  <2> SUFFICES ASSUME verdict = "limit"
               PROVE  /\ ToSet(found) \subseteq Hits(read)
                      /\ \A h \in Hits(read) \ ToSet(found) :
                           \A f \in ToSet(found) : f.number < h.number
    OBVIOUS
  <2>1. PICK b \in Nat : Reported(read, b, found)
    BY DEF ScanInv
  <2>2. ToSet(found) = HitsBefore(read, b) /\ read \in Seq(Byte)
    BY <2>1 DEF Reported, ScanInv
  <2>3. HitsBefore(read, b) \subseteq Hits(read)
    BY DEF HitsBefore, Hits
  <2>4. ASSUME NEW h \in Hits(read) \ ToSet(found), NEW f \in ToSet(found)
        PROVE  f.number < h.number
    <3>1. PICK c \in HitLines(read) : h = HitAt(read, c)
      BY DEF Hits
    <3>2. PICK d \in HitLines(read) : d < b /\ f = HitAt(read, d)
      BY <2>2 DEF HitsBefore
    <3>3. ~(c < b)
      BY <2>2, <2>4, <3>1 DEF HitsBefore
    <3>4. d \in Nat \ {0} /\ c \in Nat \ {0} /\ (c = 1 \/ read[c - 1] = NL)
      BY <2>2 DEF HitLines, LineStarts
    <3>5. d < c /\ c >= 2 /\ read[c - 1] = NL
      BY <3>2, <3>3, <3>4
    <3>6. NumberOf(read, d) < NumberOf(read, c)
      BY <3>4, <3>5, NumberGrows
    <3> QED  BY <3>1, <3>2, <3>6 DEF HitAt
  <2> QED  BY <2>2, <2>3, <2>4
<1> QED  BY <1>1, <1>2 DEF ScanExact, ScanInv

(* Whatever the chunks, a finished scan reports exactly the lines that hold the literal, in *)
(* order and once, and a scan stopped at a limit the first of them.                         *)
(* Code: LineScanState::push, LineScanState::finish and scan_file.                          *)
THEOREM ScanIsExact == LineScanSpec => []ScanExact
BY ScanStart, ScanSteps, ReportIsExact, PTL DEF LineScanSpec
=============================================================================

---------------------------- MODULE MCUsbUpload ------------------------------
(***************************************************************************)
(* UsbUpload with what an upload owes to its file: the packets that were   *)
(* in the log when the file was opened.  What the log gets or gives up     *)
(* while the upload goes on may be in the file or not.                     *)
(***************************************************************************)
EXTENDS UsbUpload

ASSUME GroupsFillPages == PAGE_USED % (GROUP * SHORT_PACKET) = 0

VARIABLES
    newest,     \* the last packet that was in the log when the file was opened
    overtaken   \* the log has started over before the upload turned to its front end

mcUpVars == <<upVars, newest, overtaken>>

\* The cells of the log the two addresses tell of.
InLog == {c \in Readable : c < address \/ LeftByWrap(c)}

Opens == appState = "OPEN" /\ appState' = "COPY"

MCUpInit == UpInit /\ newest = 0 /\ overtaken = FALSE

MCUpNext ==
    /\ UpNext
    /\ newest' = IF Opens THEN Max({0} \cup {flash[c] : c \in InLog})
                 ELSE IF fileState' = "none" THEN 0 ELSE newest
    /\ overtaken' = (~Opens /\ (overtaken \/ (GetFrontEnd /\ address' < address)))

MCUpSpec == MCUpInit /\ [][MCUpNext]_mcUpVars /\ UpFairness

-----------------------------------------------------------------------------

\* A packet in the flash or in the file that was there when it was opened.
Old(p) == p \in 1 .. newest

\* The file has these packets in the order the recorder sent them, each once,
\* while the log is written and erased under the upload and sticks are pulled
\* out in the middle of another.  A newer packet may come between: where the
\* upload begins is where a wrapped log goes on.  Not so after a restart,
\* which may leave the log at its end.
FileInOrder ==
    "power" \notin faults =>
        \A j, k \in 1 .. Len(file) :
            j < k /\ Old(file[j]) /\ Old(file[k]) => file[j] < file[k]

Saved == appState = "DONE" /\ fileState = "closed" /\ stick = "empty"

NothingLeft == \A c \in Readable : Old(flash[c]) => flash[c] \in ToSet(file)

\* With packets of 104 bytes, and a log that did not go off the grid of its
\* pages in a restart, nothing is left out: an upload that says "done" has
\* every packet that was in the log when it began and was not erased since.
\* Only a log that starts over before the upload turns to the front end gets
\* away from it: the front end is then read up to the start of the flash.
NothingLeftOut ==
    Saved /\ recorder = SHORT_PACKET /\ "power" \notin faults /\ ~overtaken
        => NothingLeft

\* readme.txt:51 "Write remaining data to USB memory stick (packet count <5)":
\* the same of packets of either size.
RemainingDataIsWritten ==
    Saved /\ "power" \notin faults => NothingLeft
=============================================================================

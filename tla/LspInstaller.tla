----------------------------- MODULE LspInstaller -----------------------------
(***************************************************************************)
(* `/lsp`: a batch of language servers is installed by a driver task, one  *)
(* after the other; its progress screen shows a row for each. The stages   *)
(* of an install are told to the rows by tasks of their own, which run     *)
(* whenever they like; the end of an install is written by the driver.     *)
(* Then the servers that are in are merged into lsp.toml. Esc leaves the   *)
(* driver alone: a second batch can run beside the first. The process can  *)
(* end between any two steps.                                              *)
(*                                                                         *)
(* A file is an inode: a write that was begun goes on to the file it has   *)
(* opened, whatever that file is called by then. Its contents are the ids  *)
(* of its entries.                                                         *)
(***************************************************************************)
EXTENDS Naturals, Sequences, FiniteSets

CONSTANTS
    Npm,             \* catalog entries that npm installs
    Downloads,       \* catalog entries that are downloaded
    Selections,      \* what the picker may confirm: sequences of catalog entries
    Others,          \* entries the user has written into lsp.toml
    Broken,          \* a piece of a file that cannot be parsed
    MaxBatches,      \* bound: batches confirmed
    NoFile

VARIABLES
    driver,          \* where the driver of each batch is
    chosen, left,    \* the entries of each batch; those the driver has not finished
    stage,           \* how far the first of them is
    rows,            \* ProgressState::entries
    notices,         \* notifications whose task has not run yet
    config_error,    \* ProgressState::config_error
    content, lsp_toml, tmp,   \* the inodes; the names `lsp.toml` and `.lsp.toml...tmp`
    handle, merged,  \* the file each driver has open; what it will write
    succeeded,       \* entries whose install returned Ok to this batch
    overlapped       \* two merges have been under way at once

fileVars  == <<content, lsp_toml, tmp, handle, merged, overlapped>>
batchVars == <<chosen, left, stage, rows, notices, config_error, succeeded>>
vars == <<driver, batchVars, fileVars>>

Servers == Npm \cup Downloads
Batches == 1 .. MaxBatches
Inodes  == 0 .. MaxBatches
Terminal == {"installed", "failed", "fatal"}
Merging == {"open", "write", "rename"}

TypeOK ==
    /\ driver \in [Batches -> {"none", "installing", "collect", "read", "finished", "killed"}
                                  \cup Merging]
    /\ \A b \in Batches : /\ chosen[b] \in Selections \cup {<< >>}
                          /\ left[b] \in {<< >>} \cup {SubSeq(chosen[b], i, Len(chosen[b])) :
                                                        i \in DOMAIN chosen[b]}
                          /\ notices[b] \subseteq Servers \X {"working", "installed"}
    /\ stage \in [Batches -> {"queued", "fetching", "extracting", "npm", "ok", "failed",
                              "mismatch"}]
    /\ rows \in [Batches -> [Servers -> Terminal \cup {"absent", "queued", "working"}]]
    /\ config_error \in [Batches -> BOOLEAN]
    /\ content \in [Inodes -> SUBSET (Servers \cup Others \cup {Broken})]
    /\ lsp_toml \in Inodes \cup {NoFile} /\ tmp \in Inodes \cup {NoFile}
    /\ handle \in [Batches -> Inodes \cup {NoFile}]
    /\ merged \in [Batches -> SUBSET (Servers \cup Others)]
    /\ succeeded \in [Batches -> SUBSET Servers] /\ overlapped \in BOOLEAN

Init ==
    /\ driver = [b \in Batches |-> "none"] /\ chosen = [b \in Batches |-> << >>]
    /\ left = [b \in Batches |-> << >>] /\ stage = [b \in Batches |-> "queued"]
    /\ rows = [b \in Batches |-> [s \in Servers |-> "absent"]]
    /\ notices = [b \in Batches |-> {}] /\ config_error = [b \in Batches |-> FALSE]
    /\ content = [i \in Inodes |-> IF i = 0 THEN Others ELSE {}]
    /\ lsp_toml = (IF Others = {} THEN NoFile ELSE 0) /\ tmp = NoFile
    /\ handle = [b \in Batches |-> NoFile] /\ merged = [b \in Batches |-> {}]
    /\ succeeded = [b \in Batches |-> {}] /\ overlapped = FALSE

Saved == IF lsp_toml = NoFile THEN {} ELSE content[lsp_toml]

-----------------------------------------------------------------------------
(* The batch.                                                              *)

ChosenBy(b) == {chosen[b][i] : i \in DOMAIN chosen[b]}

Fresh(b) == driver[b] = "none" /\ \A c \in 1 .. b - 1 : driver[c] # "none"

\* LspProgressScreen::new, from the picker.
Confirm(b, selection) ==
    /\ Fresh(b)
    /\ driver' = [driver EXCEPT ![b] = "installing"]
    /\ chosen' = [chosen EXCEPT ![b] = selection]
    /\ left' = [left EXCEPT ![b] = selection]
    /\ rows' = [rows EXCEPT ![b] = [s \in Servers |->
                    IF \E i \in DOMAIN selection : selection[i] = s THEN "queued" ELSE "absent"]]
    /\ UNCHANGED <<stage, notices, config_error, succeeded, fileVars>>

\* No home directory, no HTTP client or no build for this machine: every row fails.
CannotInstall(b, selection) ==
    /\ Fresh(b)
    /\ driver' = [driver EXCEPT ![b] = "finished"]
    /\ chosen' = [chosen EXCEPT ![b] = selection]
    /\ rows' = [rows EXCEPT ![b] = [s \in Servers |->
                    IF \E i \in DOMAIN selection : selection[i] = s THEN "failed" ELSE "absent"]]
    /\ UNCHANGED <<left, stage, notices, config_error, succeeded, fileVars>>

Installing(b, where) ==
    driver[b] = "installing" /\ left[b] # << >> /\ stage[b] = where

Current(b) == Head(left[b])

Go(b, where) == stage' = [stage EXCEPT ![b] = where]

Notify(b, kinds) == notices' = [notices EXCEPT ![b] = @ \cup ({Current(b)} \X kinds)]

installVars == <<driver, chosen, left, rows, config_error, succeeded, fileVars>>

Start(b) ==
    /\ Installing(b, "queued")
    /\ IF Current(b) \in Npm THEN Go(b, "npm") /\ UNCHANGED notices
       ELSE Go(b, "fetching") /\ Notify(b, {"working"})
    /\ UNCHANGED installVars

NpmPrints(b) ==
    /\ Installing(b, "npm")
    /\ Notify(b, {"working"})
    /\ UNCHANGED <<stage, installVars>>

\* `npm i -g` and `npm root -g` have succeeded.
NpmInstalls(b) ==
    /\ Installing(b, "npm")
    /\ Go(b, "ok") /\ Notify(b, {"installed"})
    /\ UNCHANGED installVars

NpmFails(b) ==
    /\ Installing(b, "npm")
    /\ Go(b, "failed")
    /\ UNCHANGED <<notices, installVars>>

FetchFails(b) ==
    /\ Installing(b, "fetching")
    /\ Go(b, "failed")
    /\ UNCHANGED <<notices, installVars>>

\* The download is complete, but its SHA256 is not the one of the catalog.
FetchesAnother(b) ==
    /\ Installing(b, "fetching")
    /\ Go(b, "mismatch") /\ Notify(b, {"working"})
    /\ UNCHANGED installVars

\* The archive is verified. What an earlier install left is removed before it is unpacked.
Fetches(b) ==
    /\ Installing(b, "fetching")
    /\ Go(b, "extracting") /\ Notify(b, {"working"})
    /\ UNCHANGED installVars

Extracts(b) ==
    /\ Installing(b, "extracting")
    /\ Go(b, "ok") /\ Notify(b, {"installed"})
    /\ UNCHANGED installVars

ExtractFails(b) ==
    /\ Installing(b, "extracting")
    /\ Go(b, "failed")
    /\ UNCHANGED <<notices, installVars>>

\* Variant: the last notification wins.
AppliedAlways(row, status) == IF row = "absent" THEN row ELSE status

\* apply_notification: a row that has ended stays as it is.
Applied(row, status) == IF row \in Terminal THEN row ELSE status

\* The task of one notification runs, in any order. (Those of the
\* stages count as one: the row says that it is being worked on.)
Deliver(b) ==
    \E n \in notices[b] :
        /\ notices' = [notices EXCEPT ![b] = @ \ {n}]
        /\ rows' = [rows EXCEPT ![b][n[1]] = Applied(@, n[2])]
        /\ UNCHANGED <<driver, chosen, left, stage, config_error, succeeded, fileVars>>

Advance(b) == left' = [left EXCEPT ![b] = Tail(@)] /\ Go(b, "queued")

\* Variant: the row is left to the notification.
SettleByNotice(b) ==
    /\ Installing(b, "ok")
    /\ succeeded' = [succeeded EXCEPT ![b] = @ \cup {Current(b)}]
    /\ Advance(b)
    /\ UNCHANGED <<driver, chosen, rows, notices, config_error, fileVars>>

\* run_installs writes the end of an install to its row, and goes on.
SettleInstalled(b) ==
    /\ Installing(b, "ok")
    /\ succeeded' = [succeeded EXCEPT ![b] = @ \cup {Current(b)}]
    /\ rows' = [rows EXCEPT ![b][Current(b)] = "installed"]
    /\ Advance(b)
    /\ UNCHANGED <<driver, chosen, notices, config_error, fileVars>>

SettleFailed(b) ==
    /\ Installing(b, "failed")
    /\ rows' = [rows EXCEPT ![b][Current(b)] = "failed"]
    /\ Advance(b)
    /\ UNCHANGED <<driver, chosen, notices, config_error, succeeded, fileVars>>

\* A mismatch ends the installs, and every row that is still queued; what was installed
\* before it is merged all the same.
SettleMismatch(b) ==
    /\ Installing(b, "mismatch")
    /\ rows' = [rows EXCEPT ![b] = [s \in Servers |->
                    IF s = Current(b) \/ @[s] = "queued" THEN "fatal" ELSE @[s]]]
    /\ driver' = [driver EXCEPT ![b] = "collect"]
    /\ left' = [left EXCEPT ![b] = << >>] /\ Go(b, "queued")
    /\ UNCHANGED <<chosen, notices, config_error, succeeded, fileVars>>

InstallsEnd(b) ==
    /\ driver[b] = "installing" /\ left[b] = << >>
    /\ driver' = [driver EXCEPT ![b] = "collect"]
    /\ UNCHANGED <<batchVars, fileVars>>

-----------------------------------------------------------------------------
(* The merge into lsp.toml.                                                *)

\* The rows are asked which servers are installed; if none is, nothing is merged.
Collect(b) ==
    /\ driver[b] = "collect"
    /\ merged' = [merged EXCEPT ![b] = {s \in ChosenBy(b) : rows[b][s] = "installed"}]
    /\ driver' = [driver EXCEPT ![b] = IF merged'[b] = {} THEN "finished" ELSE "read"]
    /\ UNCHANGED <<batchVars, content, lsp_toml, tmp, handle, overlapped>>

\* The entries of the file that are not replaced are kept; a broken file is left alone.
Read(b) ==
    /\ driver[b] = "read"
    /\ IF Broken \in Saved
       THEN /\ driver' = [driver EXCEPT ![b] = "finished"]
            /\ config_error' = [config_error EXCEPT ![b] = TRUE]
            /\ merged' = [merged EXCEPT ![b] = {}] /\ UNCHANGED overlapped
       ELSE /\ driver' = [driver EXCEPT ![b] = "open"]
            /\ merged' = [merged EXCEPT ![b] = @ \cup Saved]
            /\ overlapped' = (overlapped \/ \E c \in Batches : driver[c] \in Merging)
            /\ UNCHANGED config_error
    /\ UNCHANGED <<chosen, left, stage, rows, notices, succeeded, content, lsp_toml, tmp,
                   handle>>

NewInode == CHOOSE i \in Inodes : i # lsp_toml /\ \A c \in Batches : handle[c] # i

\* The temporary file is named after the process: it may be another batch's.
Open(b) ==
    /\ driver[b] = "open"
    /\ tmp' = IF tmp = NoFile THEN NewInode ELSE tmp
    /\ handle' = [handle EXCEPT ![b] = tmp'] /\ content' = [content EXCEPT ![tmp'] = {}]
    /\ driver' = [driver EXCEPT ![b] = "write"]
    /\ UNCHANGED <<batchVars, lsp_toml, merged, overlapped>>

\* Less over more leaves the end of what was there.
Write(b) ==
    /\ driver[b] = "write"
    /\ \/ content' = [content EXCEPT ![handle[b]] = merged[b]]
       \/ /\ ~(content[handle[b]] \subseteq merged[b])
          /\ content' = [content EXCEPT ![handle[b]] = {Broken}]
    /\ driver' = [driver EXCEPT ![b] = "rename"]
    /\ UNCHANGED <<batchVars, lsp_toml, tmp, handle, merged, overlapped>>

\* The temporary file takes the name lsp.toml, if it still has its own; if that fails it
\* is removed.
Rename(b) ==
    /\ driver[b] = "rename"
    /\ driver' = [driver EXCEPT ![b] = "finished"]
    /\ handle' = [handle EXCEPT ![b] = NoFile] /\ merged' = [merged EXCEPT ![b] = {}]
    /\ tmp' = NoFile
    /\ \/ tmp # NoFile /\ lsp_toml' = tmp /\ UNCHANGED config_error
       \/ UNCHANGED lsp_toml /\ config_error' = [config_error EXCEPT ![b] = TRUE]
    /\ UNCHANGED <<chosen, left, stage, rows, notices, succeeded, content, overlapped>>

\* Reading, creating the directory or writing may fail instead.
MergeFails(b) ==
    /\ driver[b] \in {"read", "open", "write"}
    /\ driver' = [driver EXCEPT ![b] = "finished"]
    /\ handle' = [handle EXCEPT ![b] = NoFile] /\ merged' = [merged EXCEPT ![b] = {}]
    /\ config_error' = [config_error EXCEPT ![b] = TRUE]
    /\ UNCHANGED <<chosen, left, stage, rows, notices, succeeded, content, lsp_toml, tmp,
                   overlapped>>

\* The process ends; the next one has another id and another temporary file.
Quit ==
    /\ \E b \in Batches : driver[b] \notin {"none", "finished", "killed"}
    /\ driver' = [b \in Batches |-> IF driver[b] \in {"none", "finished"} THEN driver[b]
                                    ELSE "killed"]
    /\ left' = [b \in Batches |-> << >>] /\ stage' = [b \in Batches |-> "queued"]
    /\ notices' = [b \in Batches |-> {}] /\ merged' = [b \in Batches |-> {}]
    /\ tmp' = NoFile /\ handle' = [b \in Batches |-> NoFile]
    /\ UNCHANGED <<chosen, rows, config_error, succeeded, content, lsp_toml, overlapped>>

Drive(b) ==
    \/ Start(b) \/ NpmPrints(b) \/ NpmInstalls(b) \/ NpmFails(b)
    \/ FetchFails(b) \/ FetchesAnother(b) \/ Fetches(b) \/ Extracts(b) \/ ExtractFails(b)
    \/ SettleInstalled(b) \/ SettleFailed(b) \/ SettleMismatch(b) \/ InstallsEnd(b)
    \/ Collect(b) \/ Read(b) \/ Open(b) \/ Write(b) \/ Rename(b) \/ MergeFails(b)

Next ==
    \/ \E b \in Batches, selection \in Selections :
         Confirm(b, selection) \/ CannotInstall(b, selection)
    \/ \E b \in Batches : Drive(b) \/ Deliver(b)
    \/ Quit

Spec == Init /\ [][Next]_vars

-----------------------------------------------------------------------------
\* When the screen says "All done", each row has ended and says what became of its
\* server, and it stays so while notifications still arrive; nothing that came after a
\* checksum mismatch was installed.
RowsTellTheTruth ==
    \A b \in Batches : driver[b] = "finished" =>
        /\ \A s \in ChosenBy(b) : /\ rows[b][s] \in Terminal
                                  /\ rows[b][s] = "installed" <=> s \in succeeded[b]
        /\ \A i, j \in DOMAIN chosen[b] :
              i < j /\ rows[b][chosen[b][i]] = "fatal" => rows[b][chosen[b][j]] = "fatal"

\* As long as no two merges overlap, the entries the user wrote stay in lsp.toml, and the
\* servers of every batch that ended without a warning are in it: failed merges, ends of
\* the process between any two steps and late notifications lose none.
ConfigIsKept ==
    ~overlapped =>
        /\ Others \subseteq Saved
        /\ \A b \in Batches : driver[b] = "finished" /\ ~config_error[b]
                                => succeeded[b] \subseteq Saved
=============================================================================

------------------------------- MODULE Maint -------------------------------
(***************************************************************************)
(* Maintenance (DESIGN 5 item 7): one firmware image waits at a fixed path *)
(* on tmpfs; concurrent requests upload it, test it and flash it, and the  *)
(* two destructive commands run detached, two seconds after the answer.    *)
(*                                                                         *)
(* A file is a sequence of blocks, each the i-th block of some image, or a *)
(* Hole where a writer went on past a truncation.  Every open upload has   *)
(* its own offset; an upload whose file was removed under it is no longer  *)
(* `linked` and writes where nobody reads.  Flash and factory reset are    *)
(* reached through requireStepUp, whose credit Ceremonies models.          *)
(***************************************************************************)
EXTENDS Integers, Sequences, SequencesExt

CONSTANTS
    Clients,     \* concurrent HTTP requests
    Images,      \* what a client may upload
    Size,        \* blocks of each image
    Valid,       \* the images sysupgrade --test accepts for this device
    MaxBlocks,   \* maint.MaxImageSize, in blocks
    None,        \* nothing: no file at ImagePath, no upload
    Hole         \* a block nobody wrote since the last truncation

Block    == [img : Images, i : 1..MaxBlocks] \cup {Hole}
Whole(m) == [i \in 1..Size[m] |-> [img |-> m, i |-> i]]

ASSUME ImageAssumption == Size \in [Images -> Nat] /\ Valid \subseteq Images
ASSUME BlockAssumption == MaxBlocks \in Nat \ {0}
ASSUME FitAssumption   == \A m \in Valid : Size[m] \in 1..MaxBlocks
ASSUME NoneAssumption ==
    /\ Hole \notin [img : Images, i : 1..MaxBlocks]
    /\ None \notin Seq(Block) \cup [img : Images, off : 0..MaxBlocks]

VARIABLES
    file,   \* what ImagePath holds
    pc,     \* per request: next step
    up,     \* per request: the image it uploads and the blocks written so far
    linked, \* uploads whose descriptor is the file at ImagePath
    jobs,   \* detached commands in their two seconds: "flash", "reset"
    tested, \* history: the file as the last flash request tested it
    alone,  \* history: no upload was under way from that test to now
    killed, \* history: the daemon died while the file was being written
    due     \* history: a factory reset was answered and is outstanding

disk    == <<file, linked>>
ghost   == <<tested, alone, killed, due>>
vars    == <<file, pc, up, linked, jobs, tested, alone, killed, due>>

UploadPCs == {"u_copy", "u_test"}
PCs       == UploadPCs \cup {"idle", "f_size", "f_test", "f_start", "r_start"}

Uploading(c) == pc[c] = "u_copy"
Goto(c, l)   == pc' = [pc EXCEPT ![c] = l]

Init ==
    /\ file = None
    /\ pc = [c \in Clients |-> "idle"]
    /\ up = [c \in Clients |-> None]
    /\ linked = {}
    /\ jobs = {}
    /\ tested = None
    /\ alone = FALSE
    /\ killed = FALSE
    /\ due = FALSE

-----------------------------------------------------------------------------
(* maintFirmwareUpload: SaveImage, then TestImage *)

\* O_CREATE|O_TRUNC: an existing file is emptied under whoever writes it.
OpenImage(c, m) ==
    /\ pc[c] = "idle"
    /\ file' = << >>
    /\ up' = [up EXCEPT ![c] = [img |-> m, off |-> 0]]
    /\ linked' = linked \cup {c}
    /\ killed' = FALSE
    /\ alone' = FALSE
    /\ Goto(c, "u_copy")
    /\ UNCHANGED <<jobs, tested, due>>

NextBlock(c) == [img |-> up[c].img, i |-> up[c].off + 1]

\* A file after block b was written at its own offset.
Put(f, b) == [k \in 1..(IF b.i > Len(f) THEN b.i ELSE Len(f)) |->
                 IF k = b.i THEN b ELSE IF k <= Len(f) THEN f[k] ELSE Hole]

\* Variant: the size of the body is not bounded.
CopyUnbounded(c) ==
    /\ Uploading(c)
    /\ up[c].off < Size[up[c].img]
    /\ up' = [up EXCEPT ![c].off = @ + 1]
    /\ file' = IF c \in linked THEN Put(file, NextBlock(c)) ELSE file
    /\ UNCHANGED <<pc, linked, jobs, ghost>>

\* io.Copy writes the next block of the body, up to MaxBytesReader's limit.
CopyBlock(c) ==
    /\ Uploading(c)
    /\ up[c].off < Size[up[c].img]
    /\ up[c].off < MaxBlocks
    /\ up' = [up EXCEPT ![c].off = @ + 1]
    /\ file' = IF c \in linked THEN Put(file, NextBlock(c)) ELSE file
    /\ UNCHANGED <<pc, linked, jobs, ghost>>

\* The body ends and the file is closed.
CopyDone(c) ==
    /\ Uploading(c)
    /\ up[c].off = Size[up[c].img]
    /\ linked' = linked \ {c}
    /\ up' = [up EXCEPT ![c] = None]
    /\ Goto(c, "u_test")
    /\ UNCHANGED <<file, jobs, ghost>>

\* Variant: a failed upload leaves what it wrote.
CopyFailsLeaves(c) ==
    /\ Uploading(c)
    /\ linked' = linked \ {c}
    /\ up' = [up EXCEPT ![c] = None]
    /\ Goto(c, "idle")
    /\ UNCHANGED <<file, jobs, ghost>>

\* The connection breaks, the limit is reached or the disk is full: whatever
\* is at ImagePath is removed, another upload's file too.
CopyFails(c) ==
    /\ Uploading(c)
    /\ file' = None
    /\ linked' = {}
    /\ killed' = FALSE
    /\ up' = [up EXCEPT ![c] = None]
    /\ Goto(c, "idle")
    /\ UNCHANGED <<jobs, tested, alone, due>>

\* sysupgrade --test accepts exactly the whole images made for this device.
Accepts(f) == \E m \in Valid : f = Whole(m)

\* TestImage after the upload only decides the answer.
UploadTest(c) ==
    /\ pc[c] = "u_test"
    /\ Goto(c, "idle")
    /\ UNCHANGED <<disk, up, jobs, ghost>>

-----------------------------------------------------------------------------
(* maintFirmwareFlash *)

FlashRequest(c) ==
    /\ pc[c] = "idle"
    /\ Goto(c, "f_size")
    /\ UNCHANGED <<disk, up, jobs, ghost>>

\* ImageSize: a missing file and an empty one are both "no image uploaded".
ImageSize(f) == IF f = None THEN 0 ELSE Len(f)

FlashSize(c) ==
    /\ pc[c] = "f_size"
    /\ Goto(c, IF ImageSize(file) = 0 THEN "idle" ELSE "f_test")
    /\ UNCHANGED <<disk, up, jobs, ghost>>

\* Variant: the image is not tested again at flash time.
FlashUntested(c) ==
    /\ pc[c] = "f_test"
    /\ Goto(c, "f_start")
    /\ tested' = file
    /\ alone' = \A d \in Clients : ~Uploading(d)
    /\ UNCHANGED <<disk, up, jobs, killed, due>>

\* The test passes, or it fails or runs out of its minute.
FlashTest(c) ==
    /\ pc[c] = "f_test"
    /\ \/ /\ Accepts(file)
          /\ Goto(c, "f_start")
          /\ tested' = file
          /\ alone' = \A d \in Clients : ~Uploading(d)
       \/ /\ Goto(c, "idle")
          /\ UNCHANGED <<tested, alone>>
    /\ UNCHANGED <<disk, up, jobs, killed, due>>

\* Flash: `sleep 2; exec sysupgrade` is started, or cannot be.
FlashStart(c) ==
    /\ pc[c] = "f_start"
    /\ jobs' \in {jobs, jobs \cup {"flash"}}
    /\ Goto(c, "idle")
    /\ UNCHANGED <<disk, up, ghost>>

-----------------------------------------------------------------------------
(* maintFactoryReset *)

ResetRequest(c) ==
    /\ pc[c] = "idle"
    /\ Goto(c, "r_start")
    /\ UNCHANGED <<disk, up, jobs, ghost>>

\* FactoryReset: `sleep 2; jffs2reset -y; reboot` is started, or cannot be.
ResetStart(c) ==
    /\ pc[c] = "r_start"
    /\ Goto(c, "idle")
    /\ \/ jobs' = jobs \cup {"reset"} /\ due' = TRUE
       \/ UNCHANGED <<jobs, due>>
    /\ UNCHANGED <<disk, up, tested, alone, killed>>

-----------------------------------------------------------------------------
(* The device *)

\* What dies with the daemon.
Killed ==
    /\ pc' = [c \in Clients |-> "idle"]
    /\ up' = [c \in Clients |-> None]
    /\ linked' = {}

\* A reboot, at any time, ends every process and empties tmpfs.
Rebooted ==
    /\ Killed
    /\ file' = None
    /\ jobs' = {}
    /\ killed' = FALSE
    /\ tested' = None
    /\ alone' = FALSE
    /\ due' = FALSE

\* The detached sysupgrade opens the file; without one it only fails.
Sysupgrade ==
    /\ "flash" \in jobs
    /\ \/ file # None /\ Rebooted
       \/ /\ file = None
          /\ jobs' = jobs \ {"flash"}
          /\ UNCHANGED <<disk, pc, up, ghost>>

\* The detached jffs2reset wipes the overlay and the device reboots.
Wipe == "reset" \in jobs /\ Rebooted

\* Variant: the detached commands die with the daemon.
CrashKillsJobs ==
    /\ \E c \in Clients : pc[c] # "idle"
    /\ Killed
    /\ jobs' = {}
    /\ killed' = (killed \/ \E c \in linked : Uploading(c))
    /\ UNCHANGED <<file, tested, alone, due>>

\* The daemon dies; detachExec's children are sessions of their own.
Crash ==
    /\ \E c \in Clients : pc[c] # "idle"
    /\ Killed
    /\ killed' = (killed \/ \E c \in linked : Uploading(c))
    /\ UNCHANGED <<file, jobs, tested, alone, due>>

-----------------------------------------------------------------------------
Step(c) ==
    \/ \E m \in Images : OpenImage(c, m)
    \/ CopyBlock(c) \/ CopyDone(c) \/ CopyFails(c) \/ UploadTest(c)
    \/ FlashRequest(c) \/ FlashSize(c) \/ FlashTest(c) \/ FlashStart(c)
    \/ ResetRequest(c) \/ ResetStart(c)

Detached == Sysupgrade \/ Wipe

Next == (\E c \in Clients : Step(c)) \/ Detached \/ Crash \/ Rebooted

\* A detached command starts after its sleep, whatever mistd does.
Spec == Init /\ [][Next]_vars /\ WF_vars(Sysupgrade) /\ WF_vars(Wipe)

-----------------------------------------------------------------------------
(* Properties *)

TypeOK ==
    /\ file = None \/ (file \in Seq(Block) /\ Len(file) <= MaxBlocks)
    /\ pc \in [Clients -> PCs]
    /\ up \in [Clients -> [img : Images, off : 0..MaxBlocks] \cup {None}]
    /\ linked \subseteq Clients
    /\ jobs \subseteq {"flash", "reset"}
    /\ {alone, killed, due} \subseteq BOOLEAN

\* SaveImage never leaves a truncated image around: once no upload writes, the
\* last block of the file is the last block of its image, however uploads
\* overlapped and failed, unless the daemon died while one was writing.
NoTruncatedLeft ==
    (~killed /\ (\A c \in Clients : ~Uploading(c)) /\ file \notin {None, << >>})
        => Last(file).i = Size[Last(file).img]

\* maintFirmwareFlash tests again before it flashes: what sysupgrade will start
\* on, two seconds later, is a whole image for this device and the one tested,
\* unless an upload was under way since.
FlashesTested ==
    ("flash" \in jobs /\ alone) => (file = tested /\ Accepts(file))

\* An answered factory reset happens although the daemon may die meanwhile;
\* only a reboot within the two seconds forestalls it.
ResetHappens == due ~> ~due
=============================================================================

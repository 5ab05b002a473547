---------------------------- MODULE MaintProofs ----------------------------
(***************************************************************************)
(* Maintenance, for any number of concurrent requests, images of any sizes *)
(* and any limit on an upload: no truncated image stays behind, and what   *)
(* is flashed is what was tested.                                          *)
(***************************************************************************)
EXTENDS Maint, SequenceTheorems, TLAPS

Upload == [img : Images, off : 0..MaxBlocks]

\* Whoever copies holds an upload, descriptors of the file belong to such
\* requests, and while there is one there is a file.
UploadInv ==
    /\ \A c \in Clients : Uploading(c) => up[c] \in Upload
    /\ \A c \in linked : Uploading(c)
    /\ linked # {} => file # None

\* The last block is one that was written, at its own place: it ends its image,
\* or somebody who still writes put it there as his latest.
LastInv ==
    file \notin {None, << >>} =>
        /\ file[Len(file)] # Hole
        /\ file[Len(file)].i = Len(file)
        /\ ~killed => \/ file[Len(file)].i = Size[file[Len(file)].img]
                      \/ \E c \in linked : /\ up[c].img = file[Len(file)].img
                                           /\ up[c].off = Len(file)

\* From the test of a flash request to the next upload the file stays as it is.
AloneInv ==
    alone => /\ \A c \in Clients : ~Uploading(c)
             /\ file = tested
             /\ Accepts(file)

MaintInv == TypeOK /\ UploadInv /\ LastInv /\ AloneInv

-----------------------------------------------------------------------------
(* What Put does to a file *)

LEMMA PutFile ==
    ASSUME NEW f \in Seq(Block), Len(f) <= MaxBlocks,
           NEW b \in [img : Images, i : 1..MaxBlocks]
    PROVE  /\ Put(f, b) \in Seq(Block)
           /\ Len(Put(f, b)) <= MaxBlocks
           /\ Put(f, b) # << >> /\ Put(f, b) # None
           /\ Len(Put(f, b)) = IF b.i > Len(f) THEN b.i ELSE Len(f)
           /\ Put(f, b)[Len(Put(f, b))] = IF b.i >= Len(f) THEN b ELSE f[Len(f)]
<1> DEFINE n == IF b.i > Len(f) THEN b.i ELSE Len(f)
           g == [k \in 1..n |->
                   IF k = b.i THEN b ELSE IF k <= Len(f) THEN f[k] ELSE Hole]
<1>1. n \in Nat /\ n <= MaxBlocks /\ n > 0 /\ b.i \in 1..n
  BY BlockAssumption
<1>2. \A k \in 1..n : (IF k = b.i THEN b ELSE IF k <= Len(f) THEN f[k] ELSE Hole) \in Block
  BY <1>1, Z3 DEF Block
<1>3. g \in [1..n -> Block]
  BY <1>2
<1>4. g \in Seq(Block) /\ Len(g) = n
  BY <1>1, <1>3, SeqDef
<1>5. g[n] = IF b.i >= Len(f) THEN b ELSE f[Len(f)]
  BY <1>1
<1>6. g # << >> /\ g # None
  BY <1>1, <1>4, NoneAssumption
<1>7. Put(f, b) = g
  BY DEF Put
<1>. QED
  BY <1>1, <1>4, <1>5, <1>6, <1>7

-----------------------------------------------------------------------------
(* One lemma per action *)

LEMMA InitMaint == Init => MaintInv
BY BlockAssumption
DEF Init, MaintInv, TypeOK, UploadInv, LastInv, AloneInv, PCs, UploadPCs, Uploading

LEMMA OpenMaint ==
    ASSUME MaintInv, NEW c \in Clients, NEW m \in Images, OpenImage(c, m)
    PROVE  MaintInv'
<1> USE DEF OpenImage, Goto
<1>1. << >> \in Seq(Block) /\ Len(<< >>) = 0 /\ << >> # None
  BY NoneAssumption, EmptySeq, Zenon
<1>2. TypeOK'
  <2>1. file' \in Seq(Block) /\ Len(file') <= MaxBlocks
    BY <1>1, BlockAssumption
  <2>2. [img |-> m, off |-> 0] \in Upload
    BY BlockAssumption DEF Upload
  <2>. QED
    BY <2>1, <2>2 DEF MaintInv, TypeOK, PCs, UploadPCs, Upload
<1>3. UploadInv'
  BY <1>1, BlockAssumption DEF MaintInv, TypeOK, UploadInv, Uploading, Upload
<1>4. LastInv' /\ AloneInv'
  BY DEF LastInv, AloneInv
<1>. QED
  BY <1>2, <1>3, <1>4 DEF MaintInv

LEMMA CopyMaint ==
    ASSUME MaintInv, NEW c \in Clients, CopyBlock(c)
    PROVE  MaintInv'
<1> USE DEF CopyBlock, Uploading
<1> DEFINE b == NextBlock(c)
<1>1. up[c] \in Upload /\ up[c].off + 1 \in 1..MaxBlocks
  BY BlockAssumption DEF MaintInv, UploadInv, Upload
<1>2. b \in [img : Images, i : 1..MaxBlocks] /\ b.i = up[c].off + 1 /\ b.img = up[c].img
  BY <1>1 DEF NextBlock, Upload
<1>3. /\ up' \in [Clients -> Upload \cup {None}]
      /\ up'[c].off = b.i /\ up'[c].img = b.img
      /\ \A d \in Clients \ {c} : up'[d] = up[d]
      /\ up'[c] \in Upload
  BY <1>1, <1>2 DEF MaintInv, TypeOK, Upload
<1>4. CASE c \notin linked
  <2>1. file' = file
    BY <1>4
  <2>2. TypeOK'
    BY <2>1, <1>3 DEF MaintInv, TypeOK, ghost, Upload
  <2>3. UploadInv'
    BY <2>1, <1>3 DEF MaintInv, TypeOK, UploadInv, ghost
  <2>4. LastInv'
    BY <2>1, <1>3, <1>4 DEF MaintInv, TypeOK, LastInv, ghost
  <2>5. AloneInv'
    BY DEF MaintInv, AloneInv, ghost
  <2>. QED
    BY <2>2, <2>3, <2>4, <2>5 DEF MaintInv
<1>5. CASE c \in linked
  <2>1. file' = Put(file, b) /\ file \in Seq(Block) /\ Len(file) <= MaxBlocks
    BY <1>5 DEF MaintInv, TypeOK, UploadInv
  <2>2. /\ file' \in Seq(Block)
        /\ Len(file') <= MaxBlocks
        /\ file' # << >> /\ file' # None
        /\ Len(file') = IF b.i > Len(file) THEN b.i ELSE Len(file)
        /\ file'[Len(file')] = IF b.i >= Len(file) THEN b ELSE file[Len(file)]
    BY <2>1, <1>2, PutFile
  <2>3. TypeOK'
    BY <2>2, <1>3 DEF MaintInv, TypeOK, ghost, Upload
  <2>4. UploadInv'
    BY <2>2, <1>3 DEF MaintInv, TypeOK, UploadInv, ghost
  <2>5. LastInv'
    <3>1. CASE b.i >= Len(file)
      <4>1. file'[Len(file')] = b /\ Len(file') = b.i
        BY <2>1, <2>2, <3>1, <1>2
      <4>2. b # Hole
        BY <1>2, NoneAssumption
      <4>. QED
        BY <4>1, <4>2, <1>3, <1>5 DEF LastInv
    <3>2. CASE b.i < Len(file)
      <4>1. file'[Len(file')] = file[Len(file)] /\ Len(file') = Len(file) /\ Len(file) > 0
        BY <2>1, <2>2, <3>2, <1>2
      <4>2. file \notin {None, << >>}
        BY <4>1, <2>1, NoneAssumption
      <4>3. \A d \in linked : up[d].off = Len(file) => d # c
        BY <3>2, <1>1, <1>2, <2>1 DEF Upload
      <4>4. \A d \in linked : up[d].off = Len(file) => up'[d] = up[d]
        BY <4>3, <1>3 DEF MaintInv, TypeOK
      <4>. QED
        BY <4>1, <4>2, <4>4 DEF MaintInv, LastInv, ghost
    <3>. QED
      BY <3>1, <3>2, <2>1, <1>2
  <2>6. AloneInv'
    BY DEF MaintInv, AloneInv, ghost
  <2>. QED
    BY <2>3, <2>4, <2>5, <2>6 DEF MaintInv
<1>. QED
  BY <1>4, <1>5

LEMMA DoneMaint ==
    ASSUME MaintInv, NEW c \in Clients, CopyDone(c)
    PROVE  MaintInv'
<1> USE DEF CopyDone, Goto, Uploading, ghost
<1>1. TypeOK'
  BY DEF MaintInv, TypeOK, PCs, UploadPCs
<1>2. UploadInv'
  BY DEF MaintInv, TypeOK, UploadInv
<1>3. LastInv'
  <2>1. up[c] \in Upload
    BY DEF MaintInv, UploadInv
  <2>2. \A d \in linked \ {c} : d \in linked' /\ up'[d] = up[d]
    BY DEF MaintInv, TypeOK
  <2>3. (up[c].img = file[Len(file)].img /\ up[c].off = Len(file))
            => Len(file) = Size[file[Len(file)].img]
    OBVIOUS
  <2>. QED
    BY <2>1, <2>2, <2>3 DEF MaintInv, LastInv
<1>4. AloneInv'
  BY DEF MaintInv, AloneInv
<1>. QED
  BY <1>1, <1>2, <1>3, <1>4 DEF MaintInv

LEMMA FailsMaint ==
    ASSUME MaintInv, NEW c \in Clients, CopyFails(c)
    PROVE  MaintInv'
<1> USE DEF CopyFails, Goto, Uploading
<1>1. TypeOK'
  BY DEF MaintInv, TypeOK, PCs
<1>2. UploadInv'
  BY DEF MaintInv, TypeOK, UploadInv
<1>3. LastInv' /\ AloneInv'
  BY DEF MaintInv, LastInv, AloneInv
<1>. QED
  BY <1>1, <1>2, <1>3 DEF MaintInv

\* A step that touches neither file nor uploads and starts none.
LEMMA OtherMaint ==
    ASSUME MaintInv, NEW c \in Clients, NEW l \in PCs \ {"u_copy"}, pc[c] # "u_copy",
           Goto(c, l), UNCHANGED <<disk, up, killed>>,
           jobs' \subseteq {"flash", "reset"}, due' \in BOOLEAN,
           \/ UNCHANGED <<tested, alone>>
           \/ /\ Accepts(file) /\ tested' = file
              /\ alone' = \A d \in Clients : ~Uploading(d)
    PROVE  MaintInv'
<1> USE DEF Goto, disk
<1>1. \A d \in Clients : Uploading(d)' <=> Uploading(d)
  BY DEF MaintInv, TypeOK, Uploading
<1>2. alone' \in BOOLEAN
  BY DEF MaintInv, TypeOK
<1>3. TypeOK'
  BY <1>2 DEF MaintInv, TypeOK
<1>4. UploadInv'
  BY <1>1 DEF MaintInv, TypeOK, UploadInv
<1>5. LastInv'
  BY DEF MaintInv, LastInv
<1>6. AloneInv'
  BY <1>1 DEF MaintInv, AloneInv
<1>. QED
  BY <1>3, <1>4, <1>5, <1>6 DEF MaintInv

LEMMA RequestMaint ==
    ASSUME MaintInv, NEW c \in Clients,
           \/ UploadTest(c) \/ FlashRequest(c) \/ FlashSize(c) \/ FlashTest(c)
           \/ FlashStart(c) \/ ResetRequest(c) \/ ResetStart(c)
    PROVE  MaintInv'
<1> USE DEF disk, ghost
<1>0. jobs \subseteq {"flash", "reset"} /\ due \in BOOLEAN
  BY DEF MaintInv, TypeOK
<1>1. CASE UploadTest(c)
  BY <1>0, <1>1, OtherMaint DEF UploadTest, PCs
<1>2. CASE FlashRequest(c)
  BY <1>0, <1>2, OtherMaint DEF FlashRequest, PCs
<1>3. CASE FlashSize(c)
  BY <1>0, <1>3, OtherMaint DEF FlashSize, PCs
<1>4. CASE FlashTest(c)
  BY <1>0, <1>4, OtherMaint DEF FlashTest, PCs
<1>5. CASE FlashStart(c)
  BY <1>0, <1>5, OtherMaint DEF FlashStart, PCs
<1>6. CASE ResetRequest(c)
  BY <1>0, <1>6, OtherMaint DEF ResetRequest, PCs
<1>7. CASE ResetStart(c)
  BY <1>0, <1>7, OtherMaint DEF ResetStart, PCs
<1>. QED
  BY <1>1, <1>2, <1>3, <1>4, <1>5, <1>6, <1>7

LEMMA RebootMaint ==
    ASSUME MaintInv, Rebooted
    PROVE  MaintInv'
BY DEF MaintInv, TypeOK, UploadInv, LastInv, AloneInv, Rebooted, Killed, PCs, Uploading

LEMMA CrashMaint ==
    ASSUME MaintInv, Crash
    PROVE  MaintInv'
<1> USE DEF Crash, Killed, Uploading
<1>1. killed' \in BOOLEAN
  BY DEF MaintInv, TypeOK
<1>2. TypeOK'
  BY <1>1 DEF MaintInv, TypeOK, PCs
<1>3. UploadInv'
  BY DEF UploadInv
<1>4. LastInv'
  BY DEF MaintInv, LastInv, UploadInv
<1>5. AloneInv'
  BY DEF MaintInv, AloneInv
<1>. QED
  BY <1>2, <1>3, <1>4, <1>5 DEF MaintInv

LEMMA DetachedMaint ==
    ASSUME MaintInv, Detached
    PROVE  MaintInv'
<1>1. CASE Rebooted
  BY <1>1, RebootMaint
<1>2. CASE jobs' = jobs \ {"flash"} /\ UNCHANGED <<disk, pc, up, ghost>>
  BY <1>2 DEF MaintInv, TypeOK, UploadInv, LastInv, AloneInv, Uploading, disk, ghost
<1>. QED
  BY <1>1, <1>2 DEF Detached, Sysupgrade, Wipe

LEMMA NextMaint == MaintInv /\ [Next]_vars => MaintInv'
<1> SUFFICES ASSUME MaintInv, [Next]_vars PROVE MaintInv'
  OBVIOUS
<1>1. ASSUME NEW c \in Clients, Step(c) PROVE MaintInv'
  BY <1>1, OpenMaint, CopyMaint, DoneMaint, FailsMaint, RequestMaint DEF Step
<1>2. CASE UNCHANGED vars
  BY <1>2 DEF MaintInv, TypeOK, UploadInv, LastInv, AloneInv, Uploading, vars
<1>. QED
  BY <1>1, <1>2, DetachedMaint, CrashMaint, RebootMaint DEF Next

LEMMA MaintInvariant == Spec => []MaintInv
BY InitMaint, NextMaint, PTL DEF Spec

-----------------------------------------------------------------------------
(* Theorems *)

\* Every request, upload and detached command stays within its type, and no
\* upload grows the file beyond MaxImageSize.
THEOREM MaintTypeCorrect == Spec => []TypeOK
<1>1. MaintInv => TypeOK
  BY DEF MaintInv
<1>. QED
  BY MaintInvariant, <1>1, PTL

\* SaveImage: however many uploads overlap, truncate each other and fail, the
\* file they leave ends where an image ends.
THEOREM UploadsLeaveNoTruncated == Spec => []NoTruncatedLeft
<1>1. MaintInv => NoTruncatedLeft
  BY DEF MaintInv, TypeOK, UploadInv, LastInv, NoTruncatedLeft, Last
<1>. QED
  BY MaintInvariant, <1>1, PTL

\* maintFirmwareFlash: between the test and the detached sysupgrade nothing
\* but an upload changes the image.
THEOREM FlashIsTested == Spec => []FlashesTested
<1>1. MaintInv => FlashesTested
  BY DEF MaintInv, AloneInv, FlashesTested
<1>. QED
  BY MaintInvariant, <1>1, PTL
=============================================================================

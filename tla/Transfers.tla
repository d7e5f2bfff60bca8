----------------------------- MODULE Transfers -----------------------------
(***************************************************************************)
(* One transfer through the native code: from the IRPs of the application  *)
(* to an URB, to the kernel, and back.  pipe_request() with its four kinds *)
(* of pipe (jni/JavaxUsbPipeRequest.c, -ControlRequest.c, -BulkRequest.c,  *)
(* -InterruptRequest.c, -IsochronousRequest.c), isochronous_request() with *)
(* several IRPs in one URB, the flags of jni/JavaxUsbKernel.h, and the     *)
(* memory they use.  DeviceProxy has the order in which requests are       *)
(* served; here is what one of them does to bytes, lengths and errors.     *)
(*                                                                         *)
(* A byte is a tuple <<where it comes from, number, number>>; an index of  *)
(* a sequence is the C index plus one.  IRPs are valid: their data is not  *)
(* null, holds offset + length bytes, and they do not overlap.             *)
(***************************************************************************)
EXTENDS Integers, Sequences, SequencesExt

CONSTANTS
    Size,       \* bytes in the Java array of the application
    Layouts,    \* the sequences of [offset, length], one for each IRP
    Releases    \* the kernel releases: sequences of the leading numbers

\* The places of the array, from 1 on, that an IRP uses.
Taken(f) == {f.offset + i : i \in 1..f.length}

ASSUME LayoutsAssumption ==
    /\ Size \in Nat
    /\ \E fs \in Layouts : Len(fs) = 1
    /\ \A fs \in Layouts :
          /\ fs \in Seq([offset : Nat, length : Nat]) \ {<<>>}
          /\ \A k \in DOMAIN fs : fs[k].offset + fs[k].length <= Size
          /\ \A j, k \in DOMAIN fs : j # k => Taken(fs[j]) \cap Taken(fs[k]) = {}

VARIABLES
    release,    \* the running kernel
    request,    \* what the application asked for
    phase,      \* how far its transfer has come
    array,      \* the Java array
    urb,        \* the usbdevfs_urb, with its buffer and packet lengths
    heap,       \* how often each kind of memory is allocated and not freed
    arrived,    \* what the kernel reports of each packet
    failed,     \* whether the kernel reports an error for the URB
    irps        \* the actual length and the error each IRP has got

vars == <<release, request, phase, array, urb, heap, arrived, failed, irps>>

PipeTypes == {"control", "bulk", "interrupt", "isochronous"}
Complex == "complex"    \* isochronous_request(): several IRPs
SetupSize == 8
Flags == {"NO_ACCEPT_SHORT_PACKET", "QUEUE_BULK", "ISO_ASAP"}
Bytes == {"java", "device", "setup", "junk"} \X Nat \X Nat
Setup == [i \in 1..SetupSize |-> <<"setup", i, 0>>]
Junk == <<"junk", 0, 0>>

TheRequests ==
    {r \in [type : PipeTypes \cup {Complex}, in : BOOLEAN,
            accept : BOOLEAN, frames : Layouts] :
        r.type # Complex => Len(r.frames) = 1}

Frames == DOMAIN request.frames
Fresh == [p \in 1..Size |-> <<"java", p, 0>>]

TypeOK ==
    /\ release \in Releases
    /\ request \in TheRequests
    /\ phase \in {"idle", "new", "urb", "filled", "submitted", "unlinked", "finished", "over"}
    /\ heap \in [{"urb", "buffer", "reference"} -> Nat]
    /\ array \in [1..Size -> Bytes]
    /\ urb \in [type : PipeTypes \cup {"none"}, flags : SUBSET Flags,
                buffer : Seq(Bytes), lengths : Seq(Nat)]
    /\ arrived \in Seq([actual : 0..Size, failed : BOOLEAN])
    /\ failed \in BOOLEAN
    /\ irps \in [Frames -> [actual : 0..Size, error : BOOLEAN]]

-----------------------------------------------------------------------------
(* jni/JavaxUsbKernel.h: what depends on the kernel.                       *)

KERNEL_VERSION(version, patchlevel, sublevel) ==
    version * 65536 + patchlevel * 256 + sublevel

\* A release that does not begin with three numbers is taken to be 2.4.0.
KernelVersion ==
    IF Len(release) >= 3 THEN KERNEL_VERSION(release[1], release[2], release[3])
                         ELSE KERNEL_VERSION(2, 4, 0)

QueueBulkFlag == IF KERNEL_VERSION(2, 4, 29) >= KernelVersion THEN {"QUEUE_BULK"} ELSE {}

\* 2.4 kernels queue interrupt transfers only as bulk ones.
InterruptUsesBulk == KERNEL_VERSION(2, 4, 99) >= KernelVersion
ShortPacketFlag(accept) == IF accept THEN {} ELSE {"NO_ACCEPT_SHORT_PACKET"}

UrbType(t) ==
    CASE t = "interrupt" -> IF InterruptUsesBulk THEN "bulk" ELSE "interrupt"
      [] t = Complex     -> "isochronous"
      [] OTHER           -> t

UrbFlags(t, flags) ==
    CASE t \in {"isochronous", Complex} -> (flags \cup {"ISO_ASAP"}) \ {"NO_ACCEPT_SHORT_PACKET"}
      [] t = "bulk" \/ (t = "interrupt" /\ InterruptUsesBulk) -> flags \cup QueueBulkFlag
      [] OTHER -> flags

-----------------------------------------------------------------------------
(* Memory.  The global reference keeps the Java request for urb->usercontext. *)

Count(x, S) == IF x \in S THEN 1 ELSE 0
Alloc(S) == heap' = [x \in DOMAIN heap |-> heap[x] + Count(x, S)]
Free(S) == heap' = [x \in DOMAIN heap |-> heap[x] - Count(x, S)]

NoUrb == [type |-> "none", flags |-> {}, buffer |-> <<>>, lengths |-> <<>>]
NewIrps(r) == [k \in DOMAIN r.frames |-> [actual |-> 0, error |-> FALSE]]

Init ==
    /\ release \in Releases
    /\ request = CHOOSE r \in TheRequests : TRUE    \* none yet
    /\ phase = "idle"
    /\ array = Fresh
    /\ urb = NoUrb
    /\ heap = [x \in {"urb", "buffer", "reference"} |-> 0]
    /\ arrived = <<>>
    /\ failed = FALSE
    /\ irps = NewIrps(request)

\* The next request of the application, with a new array. pipe_request() takes
\* the global reference first, isochronous_request() when the URB is filled.
NextRequest ==
    /\ phase \in {"idle", "over"}
    /\ phase' = "new"
    /\ request' \in TheRequests
    /\ Alloc(IF request'.type = Complex THEN {} ELSE {"reference"})
    /\ array' = Fresh
    /\ urb' = NoUrb
    /\ arrived' = <<>>
    /\ failed' = FALSE
    /\ irps' = NewIrps(request')
    /\ UNCHANGED release

-----------------------------------------------------------------------------
(* Submission: pipe_request() and isochronous_request().                   *)

AllocateUrb ==
    /\ phase = "new"
    /\ phase' = "urb"
    /\ Alloc({"urb"})
    /\ urb' = [urb EXCEPT !.flags = IF request.type = Complex THEN {}
                                    ELSE ShortPacketFlag(request.accept)]
    /\ UNCHANGED <<release, request, array, arrived, failed, irps>>

\* Of parts of these lengths, one behind the other: how long the first k are.
Sums(lengths) ==
    LET sum[k \in 0..Len(lengths)] == IF k = 0 THEN 0 ELSE sum[k - 1] + lengths[k]
    IN sum

\* Mutant: the offset is forgotten.
RegionAtStart(f) == [i \in 1..f.length |-> array[i]]

\* GetByteArrayRegion(data, offset, length).
Region(f) == [i \in 1..f.length |-> array[f.offset + i]]

\* create_iso_buffer() puts the parts of all IRPs one behind the other; a
\* control buffer begins with the setup packet; the others have one part.
BufferOf(r) == (IF r.type = "control" THEN Setup ELSE <<>>)
               \o FlattenSeq([k \in DOMAIN r.frames |-> Region(r.frames[k])])
PacketLengths(r) == IF r.type \in {"isochronous", Complex}
                      THEN [k \in DOMAIN r.frames |-> r.frames[k].length] ELSE <<>>

FillUrb ==
    /\ phase = "urb"
    /\ phase' = "filled"
    /\ Alloc({"buffer"} \cup (IF request.type = Complex THEN {"reference"} ELSE {}))
    /\ urb' = [type    |-> UrbType(request.type),
               flags   |-> UrbFlags(request.type, urb.flags),
               buffer  |-> BufferOf(request),
               lengths |-> PacketLengths(request)]
    /\ UNCHANGED <<release, request, array, arrived, failed, irps>>

SubmitUrb ==
    /\ phase = "filled"
    /\ phase' = "submitted"
    /\ UNCHANGED <<release, request, array, urb, heap, arrived, failed, irps>>

\* Mutant: the buffer is forgotten on the error path.
HeldAtNoBuffer(p) == (IF p # "new" THEN {"urb"} ELSE {})
             \cup (IF p = "filled" \/ request.type # Complex THEN {"reference"} ELSE {})

\* What the error path frees: what the code has got so far.
HeldAt(p) == (IF p # "new" THEN {"urb"} ELSE {})
             \cup (IF p = "filled" THEN {"buffer"} ELSE {})
             \cup (IF p = "filled" \/ request.type # Complex THEN {"reference"} ELSE {})

\* malloc() fails, or the ioctl. LinuxPipeRequest gives the error to its IRP,
\* LinuxIsochronousRequest keeps it.
Refuse ==
    /\ phase \in {"new", "urb", "filled"}
    /\ phase' = "over"
    /\ Free(HeldAt(phase))
    /\ irps' = [k \in Frames |-> [irps[k] EXCEPT !.error = request.type # Complex]]
    /\ UNCHANGED <<release, request, array, urb, arrived, failed>>

\* cancel_pipe_request(), cancel_isochronous_request(): DISCARDURB of the URB
\* whose address the request remembers since it was submitted.
CancelUrb ==
    /\ phase = "submitted"
    /\ phase' = "unlinked"
    /\ UNCHANGED <<release, request, array, urb, heap, arrived, failed, irps>>

-----------------------------------------------------------------------------
(* The kernel and the device (external).  They split the buffer by what    *)
(* the URB says: its setup packet, its packet lengths.                     *)

DataAt == IF urb.type = "control" THEN SetupSize ELSE 0
KernelLengths == IF urb.lengths = <<>> THEN <<Len(urb.buffer) - DataAt>> ELSE urb.lengths
PacketAt(k) == DataAt + Sums(KernelLengths)[k - 1]
KernelPacket(k) == SubSeq(urb.buffer, PacketAt(k) + 1, PacketAt(k) + KernelLengths[k])

\* What the device sent; what it did not send is left to chance.
Received(k, n) == [i \in 1..KernelLengths[k] |-> IF i <= n THEN <<"device", k, i>> ELSE Junk]

\* All the kernel may report. A packet that is short when that is forbidden is
\* an error; an URB that was unlinked has failed.
Reports == {s \in [DOMAIN KernelLengths -> [actual : 0..Size, failed : BOOLEAN]] :
              \A k \in DOMAIN s : s[k].actual <= KernelLengths[k]}

FinishUrb ==
    /\ phase \in {"submitted", "unlinked"}
    /\ phase' = "finished"
    /\ arrived' \in Reports
    /\ failed' \in BOOLEAN
    /\ phase = "unlinked" => failed'
    /\ \/ "NO_ACCEPT_SHORT_PACKET" \notin urb.flags \/ ~request.in
       \/ arrived'[1].actual = KernelLengths[1] \/ failed'
    /\ urb.lengths = <<>> => arrived'[1].failed = failed'
    /\ urb' = IF request.in
                THEN [urb EXCEPT !.buffer = SubSeq(urb.buffer, 1, DataAt)
                        \o FlattenSeq([k \in DOMAIN KernelLengths |->
                                          Received(k, arrived'[k].actual)])]
                ELSE urb
    /\ UNCHANGED <<release, request, array, heap, irps>>

-----------------------------------------------------------------------------
(* Completion: complete_pipe_request(), complete_isochronous_request().    *)

Least(m, n) == IF m <= n THEN m ELSE n

\* How many bytes are copied. The complete_*_pipe_request() clamp what the kernel
\* says of the URB to what was asked; destroy_iso_buffer() to what the array holds.
ActualLength(k) ==
    Least(arrived[k].actual,
          IF request.type = Complex THEN Size - request.frames[k].offset
                                    ELSE request.frames[k].length)

\* What the IRP is told. A simple isochronous request passes on the length of its
\* packet, which nobody clamps (it is that of the URB).
ReportedLength(k) ==
    IF request.type = "isochronous" THEN arrived[k].actual ELSE ActualLength(k)

\* Mutant: the buffer is taken to be packed by what came.
CopyFromActual(k) ==
    (IF request.type = "control" THEN SetupSize ELSE 0)
    + Sums([j \in DOMAIN arrived |-> arrived[j].actual])[k - 1]

\* Where in the buffer the data of IRP k begins.
CopyFrom(k) ==
    (IF request.type = "control" THEN SetupSize ELSE 0)
    + Sums(urb.lengths)[k - 1]

\* SetByteArrayRegion(data, offset, actual, ...) for every IRP.
CopyBack(a) ==
    [p \in 1..Size |->
        LET mine == {k \in Frames : p - request.frames[k].offset \in 1..ActualLength(k)}
        IN IF mine = {} THEN a[p]
           ELSE LET k == CHOOSE k \in mine : TRUE
                IN urb.buffer[CopyFrom(k) + p - request.frames[k].offset]]

\* Mutant: the status of the URB for all types.
ErrorOfUrb(k) == request.type # Complex /\ failed

\* The status a complete_*_pipe_request() returns becomes the error of the IRP.
\* destroy_iso_buffer() never calls setError(): it asks whether an unsigned
\* status is below 0. What it returns reaches no IRP.
ErrorOf(k) ==
    CASE request.type = "isochronous" -> arrived[k].failed
      [] request.type = Complex       -> FALSE
      [] OTHER                        -> failed

CompleteUrb ==
    /\ phase = "finished"
    /\ phase' = "over"
    /\ array' = CopyBack(array)
    /\ irps' = [k \in Frames |-> [actual |-> ReportedLength(k), error |-> ErrorOf(k)]]
    /\ Free({"urb", "buffer", "reference"})
    /\ UNCHANGED <<release, request, urb, arrived, failed>>

Next ==
    \/ NextRequest \/ AllocateUrb \/ FillUrb \/ SubmitUrb \/ Refuse
    \/ CancelUrb \/ FinishUrb \/ CompleteUrb

Spec == Init /\ [][Next]_vars

-----------------------------------------------------------------------------
(* Properties.                                                             *)

\* The part of the array that IRP k lends to the transfer.
Part(k) == [i \in 1..request.frames[k].length |->
               <<"java", request.frames[k].offset + i, 0>>]

\* While the kernel has an URB it finds in it, packet by packet, exactly the
\* bytes of each IRP, and before them the setup packet of a control transfer:
\* the offsets and lengths the code computes are those the kernel computes.
DeviceGetsWhatWasGiven ==
    phase \in {"submitted", "unlinked"} =>
        /\ DOMAIN KernelLengths = Frames
        /\ \A k \in Frames : KernelPacket(k) = Part(k)
        /\ request.type = "control" => SubSeq(urb.buffer, 1, 8) = Setup

\* How many bytes of IRP k the device has filled.
Came(k) == IF arrived = <<>> \/ ~request.in THEN 0 ELSE arrived[k].actual

\* When a transfer is over each IRP has the bytes its own packet brought, in
\* its own part of the array and no more of them than came; every other byte of
\* the array is as the application left it; and the lengths say so.
ArrayGetsWhatCame ==
    phase = "over" =>
        /\ \A k \in Frames :
              /\ irps[k].actual = IF arrived = <<>> THEN 0 ELSE arrived[k].actual
              /\ \A i \in 1..Came(k) :
                    array[request.frames[k].offset + i] = <<"device", k, i>>
        /\ \A p \in 1..Size :
              \/ array[p] = <<"java", p, 0>>
              \/ \E k \in Frames : p - request.frames[k].offset \in 1..Came(k)

\* Whatever fails, and at whatever point: the URB, its buffer and the global
\* reference are there while the kernel may use them, and each is given back
\* exactly once, so that nothing is left when the request is over.
NothingLeaks ==
    \A x \in DOMAIN heap :
        /\ phase \in {"idle", "over"} => heap[x] = 0
        /\ phase \in {"submitted", "unlinked", "finished"} => heap[x] = 1

\* The same as an inductive invariant: which kinds of memory a transfer owns at
\* each point of its way, each of them once.
Kinds == {"urb", "buffer", "reference"}
Owned ==
    IF phase \in {"idle", "over"} THEN {}
    ELSE (IF phase # "new" THEN {"urb"} ELSE {})
         \cup (IF phase \notin {"new", "urb"} THEN {"buffer"} ELSE {})
         \cup (IF phase \notin {"new", "urb"} \/ request.type # Complex
                 THEN {"reference"} ELSE {})
HeapInv == heap = [x \in Kinds |-> Count(x, Owned)]

\* What the kernel says of IRP k: its packet, or all of it, failed.
KernelFailed(k) == arrived = <<>> \/ failed \/ arrived[k].failed

\* The IRP of a pipe request has an error exactly when its transfer was not
\* submitted, was unlinked or failed; and always when it came short although
\* its application does not accept that.  An isochronous packet counts by its
\* own status.  (Several isochronous IRPs: IsoErrorReported.)
FailureIsReported ==
    phase = "over" /\ request.type # Complex =>
        /\ irps[1].error = (arrived = <<>> \/ arrived[1].failed)
        /\ \/ request.accept \/ request.type = "isochronous" \/ irps[1].error
           \/ ~request.in \/ irps[1].actual = request.frames[1].length

\* In a request of several isochronous IRPs an IRP that was not transferred, or
\* whose packet failed, has an error (LinuxIsochronousRequest.setError: "Set
\* the error of the specified UsbIrpImp.").
IsoErrorReported ==
    phase = "over" /\ request.type = Complex =>
        \A k \in Frames : KernelFailed(k) => irps[k].error

=============================================================================

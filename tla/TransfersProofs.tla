-------------------------- MODULE TransfersProofs --------------------------
(***************************************************************************)
(* For any array, IRPs and kernel release: the bytes an application lends  *)
(* to a transfer reach the kernel where it looks for them, what the device *)
(* sends reaches the part of the array that asked for it, failures are     *)
(* reported, and the memory is freed exactly once.                         *)
(*                                                                         *)
(* The argument is the account of the buffer (BufferInv): from FillUrb on  *)
(* the part of IRP k begins Base + Sums(Asked)[k - 1] bytes into it.  The  *)
(* code, the kernel and the code again compute that offset, each from what *)
(* it has: the IRPs, the length of the buffer, the packet lengths.         *)
(***************************************************************************)
EXTENDS Transfers, ListTheorems

N == Len(request.frames)
Base == IF request.type = "control" THEN SetupSize ELSE 0
Asked == [k \in Frames |-> request.frames[k].length]

\* Where the part of IRP k begins in the buffer, and its byte i.
Begin(k) == Base + Sums(Asked)[k - 1]
Byte(k, i) == urb.buffer[Begin(k) + i]

\* The types whose only packet has the status of the URB.
Single == {"control", "bulk", "interrupt"}
MustBeFull == request.type \in Single /\ ~request.accept

\* What a transfer has not reached yet is as it was.
UntouchedInv ==
    /\ phase # "over" => array = Fresh /\ irps = NewIrps(request)
    /\ phase \notin {"finished", "over"} => arrived = <<>>

FlagsInv ==
    phase \in {"urb", "filled", "submitted", "unlinked", "finished"} =>
        (MustBeFull => "NO_ACCEPT_SHORT_PACKET" \in urb.flags)

\* The buffer, its setup packet and its parts, and the kernel's way to find them.
BufferInv ==
    phase \in {"filled", "submitted", "unlinked", "finished"} =>
        /\ urb.lengths = PacketLengths(request)
        /\ urb.type = "control" <=> request.type = "control"
        /\ Len(urb.buffer) = Base + Sums(Asked)[N]
        /\ phase # "finished" =>
              /\ \A i \in 1..Base : urb.buffer[i] = Setup[i]
              /\ \A k \in Frames : \A i \in 1..Asked[k] : Byte(k, i) = Part(k)[i]

\* What came: no packet has more than was asked, and what the buffer holds of it.
ArrivedInv ==
    phase = "finished" =>
        /\ arrived \in [Frames -> [actual : 0..Size, failed : BOOLEAN]]
        /\ \A k \in Frames : arrived[k].actual <= Asked[k]
        /\ \A k \in Frames : \A i \in 1..arrived[k].actual :
              Byte(k, i) = IF request.in THEN <<"device", k, i>> ELSE Part(k)[i]
        /\ request.type \in Single => arrived[1].failed = failed
        /\ MustBeFull /\ request.in => arrived[1].actual = Asked[1] \/ failed

TransfersInv ==
    /\ TypeOK /\ UntouchedInv /\ FlagsInv /\ BufferInv /\ ArrivedInv
    /\ ArrayGetsWhatCame /\ FailureIsReported

-----------------------------------------------------------------------------
(* Requests, sums of lengths, and buffers.                                 *)

\* What TheRequests says of the IRPs of a request.
LEMMA RequestShape ==
    ASSUME TypeOK
    PROVE  /\ N \in Nat \ {0} /\ Frames = 1..N /\ Size \in Nat
           /\ \A k \in Frames :
                 /\ request.frames[k].offset \in Nat
                 /\ request.frames[k].length \in Nat
                 /\ request.frames[k].offset + request.frames[k].length <= Size
           /\ \A j, k \in Frames : j # k =>
                 Taken(request.frames[j]) \cap Taken(request.frames[k]) = {}
           /\ request.type # Complex => N = 1
           /\ request.type \in Single \cup {"isochronous", Complex}
           /\ request.in \in BOOLEAN /\ request.accept \in BOOLEAN
<1> DEFINE fs == request.frames
<1>1. /\ fs \in Layouts
      /\ request.type # Complex => Len(fs) = 1
      /\ request.type \in Single \cup {"isochronous", Complex}
      /\ request.in \in BOOLEAN /\ request.accept \in BOOLEAN
  BY DEF TypeOK, TheRequests, PipeTypes, Single
<1>2. /\ fs \in Seq([offset : Nat, length : Nat]) \ {<<>>}
      /\ \A k \in DOMAIN fs : fs[k].offset + fs[k].length <= Size
      /\ \A j, k \in DOMAIN fs : j # k => Taken(fs[j]) \cap Taken(fs[k]) = {}
  BY <1>1, LayoutsAssumption
<1>3. Len(fs) \in Nat \ {0} /\ DOMAIN fs = 1..Len(fs)
  BY <1>2, LenProperties, EmptySeq
<1>4. \A k \in DOMAIN fs : fs[k] \in [offset : Nat, length : Nat]
  BY <1>2, <1>3, ElementOfSeq
<1>5. Size \in Nat
  BY LayoutsAssumption
<1> QED BY <1>1, <1>2, <1>3, <1>4, <1>5 DEF N, Frames

\* Sums is defined, and adds one length after the other.
LEMMA SumsAdd ==
    ASSUME NEW n \in Nat, NEW lengths \in [1..n -> Nat]
    PROVE  /\ Sums(lengths) \in [0..n -> Nat]
           /\ Sums(lengths)[0] = 0
           /\ \A k \in 1..n : Sums(lengths)[k] = Sums(lengths)[k - 1] + lengths[k]
<1> DEFINE sum == CHOOSE s : s = [k \in 0..n |-> IF k = 0 THEN 0 ELSE s[k - 1] + lengths[k]]
<1>1. Len(lengths) = n
  OBVIOUS
<1>2. Sums(lengths) = sum
  BY <1>1 DEF Sums
<1>3. PICK f \in [0..n -> Nat] : f[0] = 0 /\ \A k \in 1..n : f[k] = f[k - 1] + lengths[k]
  <2> DEFINE F == [p \in (1..n) \X Nat |-> p[2] + lengths[p[1]]]
  <2>1. \A k \in 1..n, t \in Nat : F[<<k, t>>] = t + lengths[k]
    OBVIOUS
  <2> HIDE DEF F
  <2>2. Steps(n, Nat, F)
    <3>1. \A k \in 1..n, t \in Nat : t + lengths[k] \in Nat
      OBVIOUS
    <3> QED BY <3>1, <2>1 DEF Steps
  <2>3. PICK f : Accumulated(f, n, Nat, 0, F)
    BY <2>2, Recursion
  <2>4. \A k \in 1..n : k - 1 \in 0..n
    OBVIOUS
  <2>5. f \in [0..n -> Nat] /\ f[0] = 0 /\ \A k \in 1..n : f[k] = f[k - 1] + lengths[k]
    BY <2>1, <2>3, <2>4 DEF Accumulated
  <2> QED BY <2>5
<1>4. f = [k \in 0..n |-> IF k = 0 THEN 0 ELSE f[k - 1] + lengths[k]]
  <2>1. \A k \in 0..n : k = 0 \/ k \in 1..n
    OBVIOUS
  <2>2. \A k \in 0..n : f[k] = IF k = 0 THEN 0 ELSE f[k - 1] + lengths[k]
    BY <2>1, <1>3
  <2> QED BY <2>2
<1>5. sum = [k \in 0..n |-> IF k = 0 THEN 0 ELSE sum[k - 1] + lengths[k]]
  <2>1. \E s : s = [k \in 0..n |-> IF k = 0 THEN 0 ELSE s[k - 1] + lengths[k]]
    BY <1>4
  <2> QED BY <2>1
<1> HIDE DEF sum
<1>6. \A k \in 0..n : sum[k] = IF k = 0 THEN 0 ELSE sum[k - 1] + lengths[k]
  BY <1>5
<1>7. sum[0] = 0 /\ \A k \in 1..n : sum[k] = sum[k - 1] + lengths[k]
  BY <1>6
<1>8. \A k \in 0..n : sum[k] \in Nat
  <2> DEFINE S == {k \in 0..n : sum[k] \in Nat}
  <2>1. 0 \in S
    BY <1>7
  <2>2. \A k \in 1..n : k - 1 \in S => k \in S
    BY <1>7
  <2> HIDE DEF S
  <2>3. 0..n \subseteq S
    BY <2>1, <2>2, UpTo
  <2> QED BY <2>3 DEF S
<1>9. sum \in [0..n -> Nat]
  BY <1>5, <1>8
<1> QED BY <1>2, <1>7, <1>9

LEMMA SetupShape ==
    Setup \in Seq(Bytes) /\ Len(Setup) = 8 /\ \A i \in 1..8 : Setup[i] = <<"setup", i, 0>>
<1>1. \A i \in 1..8 : <<"setup", i, 0>> \in Bytes
  BY DEF Bytes
<1> QED BY <1>1 DEF Setup, SetupSize

\* A new transfer has values of the right kind.
LEMMA NewTypes ==
    /\ Size \in Nat /\ Fresh \in [1..Size -> Bytes]
    /\ NoUrb \in [type : PipeTypes \cup {"none"}, flags : SUBSET Flags,
                  buffer : Seq(Bytes), lengths : Seq(Nat)]
    /\ \A r : NewIrps(r) \in [DOMAIN r.frames -> [actual : 0..Size, error : BOOLEAN]]
<1>1. Size \in Nat
  BY LayoutsAssumption
<1>2. Fresh \in [1..Size -> Bytes]
  <2>1. \A p \in 1..Size : <<"java", p, 0>> \in Bytes
    BY <1>1 DEF Bytes
  <2> QED BY <2>1 DEF Fresh
<1>3. \A T : <<>> \in Seq(T)
  BY EmptySeq
<1> QED BY <1>1, <1>2, <1>3 DEF NoUrb, NewIrps

\* The part of each IRP: its bytes and its length.
LEMMA PartShape ==
    ASSUME TypeOK
    PROVE  /\ Asked \in [1..N -> Nat]
           /\ \A k \in Frames : /\ Asked[k] = request.frames[k].length
                                 /\ Part(k) \in Seq(Bytes) /\ Len(Part(k)) = Asked[k]
<1>1. Asked \in [1..N -> Nat] /\ \A k \in Frames : Asked[k] = request.frames[k].length
  BY RequestShape DEF Asked
<1>2. ASSUME NEW k \in Frames PROVE Part(k) \in Seq(Bytes) /\ Len(Part(k)) = Asked[k]
  <2> DEFINE m == request.frames[k].length
             o == request.frames[k].offset
             part == [i \in 1..m |-> <<"java", o + i, 0>>]
  <2>1. m \in Nat /\ o \in Nat
    BY RequestShape
  <2>2. Part(k) = part
    BY DEF Part
  <2> HIDE DEF m, o
  <2>3. part \in Seq(Bytes) /\ Len(part) = m
    <3>1. \A i \in 1..m : <<"java", o + i, 0>> \in Bytes
      BY <2>1 DEF Bytes
    <3> QED BY <3>1, <2>1
  <2> QED BY <2>2, <2>3, <1>1 DEF m
<1> QED BY <1>1, <1>2

\* A head and parts of the lengths asked for, and the buffer that has them.
Parted(head, parts) ==
    /\ head \in Seq(Bytes) /\ Len(head) = Base
    /\ parts \in [1..N -> Seq(Bytes)]
    /\ \A k \in 1..N : Len(parts[k]) = Asked[k]
HasParts(b, head, parts) ==
    /\ b \in Seq(Bytes) /\ Len(b) = Base + Sums(Asked)[N]
    /\ \A i \in 1..Base : b[i] = head[i]
    /\ \A k \in 1..N : Begin(k) \in Nat /\ Begin(k) + Asked[k] <= Len(b)
    /\ \A k \in 1..N : \A i \in 1..Asked[k] : b[Begin(k) + i] = parts[k][i]

\* Begin finds each part in the buffer.
LEMMA BufferOfParts ==
    ASSUME TypeOK, NEW head, NEW parts, Parted(head, parts)
    PROVE  HasParts(head \o FlattenSeq(parts), head, parts)
<1> DEFINE at == Sums(Asked)
           flat == FlattenSeq(parts)
           b == head \o flat
<1> USE DEF Parted
<1>0. N \in Nat \ {0} /\ Base \in Nat /\ Asked \in [1..N -> Nat]
  BY RequestShape, PartShape DEF Base, SetupSize
<1>1. at \in [0..N -> Nat] /\ at[0] = 0 /\ \A k \in 1..N : at[k] = at[k - 1] + Asked[k]
  BY <1>0, SumsAdd
<1> HIDE DEF at
<1>2. Behind(at, parts, N, Bytes)
  BY <1>1, <1>0 DEF Behind
<1>3. /\ flat \in Seq(Bytes) /\ Len(flat) = at[N]
      /\ \A k \in 1..N : at[k - 1] \in Nat /\ at[k] \in Nat /\ at[k] <= at[N]
      /\ \A k \in 1..N : \A i \in 1..Len(parts[k]) : flat[at[k - 1] + i] = parts[k][i]
  <2>1. Flattened(FlattenSeq(parts), at, parts, N, Bytes)
    BY <1>0, <1>2, FlattenParts
  <2> QED BY <2>1 DEF Flattened
<1> HIDE DEF flat
<1>4. /\ b \in Seq(Bytes) /\ Len(b) = Base + at[N]
      /\ \A i \in 1..(Base + at[N]) : b[i] = IF i <= Base THEN head[i] ELSE flat[i - Base]
  <2>1. /\ b \in Seq(Bytes)
        /\ Len(b) = Len(head) + Len(flat)
        /\ \A i \in 1..(Len(head) + Len(flat)) :
              b[i] = IF i <= Len(head) THEN head[i] ELSE flat[i - Len(head)]
    BY <1>3, ConcatProperties
  <2> QED BY <2>1, <1>3
<1> HIDE DEF b
<1>5. at[N] \in Nat
  BY <1>0, <1>1
<1>6. \A i \in 1..Base : b[i] = head[i]
  <2>1. \A i \in 1..Base : i \in 1..(Base + at[N]) /\ i <= Base
    BY <1>0, <1>5
  <2> QED BY <2>1, <1>4
<1>7. ASSUME NEW k \in 1..N
      PROVE  /\ Begin(k) \in Nat /\ Begin(k) + Asked[k] <= Len(b)
             /\ \A i \in 1..Asked[k] : b[Begin(k) + i] = parts[k][i]
  <2> DEFINE f == at[k - 1]
             a == Asked[k]
             m == at[N]
  <2>1. f \in Nat /\ a \in Nat /\ m \in Nat /\ f + a <= m
    <3>1. at[k] = f + a /\ at[k] <= m /\ f \in Nat
      BY <1>1, <1>3
    <3> QED BY <3>1, <1>0, <1>5
  <2>2. Begin(k) = Base + f
    BY DEF Begin, at
  <2>3. \A i \in 1..a : flat[f + i] = parts[k][i]
    BY <1>3
  <2>4. Len(b) = Base + m
    BY <1>4
  <2> HIDE DEF f, a, m
  <2>5. ASSUME NEW i \in 1..a PROVE b[Begin(k) + i] = parts[k][i]
    <3>1. /\ Base + f + i \in 1..(Base + m) /\ ~(Base + f + i <= Base)
          /\ (Base + f + i) - Base = f + i
      BY <2>1, <1>0
    <3>2. b[Base + f + i] = flat[f + i]
      BY <3>1, <1>4 DEF m
    <3> QED BY <3>2, <2>2, <2>3
  <2>6. Begin(k) \in Nat /\ Begin(k) + a <= Len(b)
    BY <2>1, <2>2, <2>4, <1>0
  <2> QED BY <2>5, <2>6 DEF a
<1> QED BY <1>4, <1>6, <1>7 DEF at, flat, b, HasParts

-----------------------------------------------------------------------------
(* The kernel finds what was given.                                        *)

\* The parts lie inside the buffer.
LEMMA PartsFit ==
    ASSUME TypeOK
    PROVE  /\ Base \in Nat /\ Base + Sums(Asked)[N] \in Nat
           /\ \A k \in Frames : /\ Begin(k) \in Nat
                                 /\ Begin(k) + Asked[k] <= Base + Sums(Asked)[N]
<1> DEFINE head == [i \in 1..Base |-> Junk]
           parts == [k \in 1..N |-> Part(k)]
           b == head \o FlattenSeq(parts)
<1>1. Base \in Nat /\ Frames = 1..N
  BY RequestShape DEF Base, SetupSize
<1>2. head \in Seq(Bytes) /\ Len(head) = Base
  <2>1. Junk \in Bytes
    BY DEF Junk, Bytes
  <2> QED BY <2>1, <1>1
<1>3. parts \in [1..N -> Seq(Bytes)] /\ \A k \in 1..N : Len(parts[k]) = Asked[k]
  BY <1>1, PartShape
<1> HIDE DEF head, parts
<1>4. /\ b \in Seq(Bytes) /\ Len(b) = Base + Sums(Asked)[N]
      /\ \A k \in 1..N : Begin(k) \in Nat /\ Begin(k) + Asked[k] <= Len(b)
  <2>1. HasParts(b, head, parts)
    BY <1>2, <1>3, BufferOfParts DEF Parted
  <2> QED BY <2>1 DEF HasParts
<1>5. Len(b) \in Nat
  BY <1>4, LenProperties
<1> QED BY <1>1, <1>4, <1>5

\* The kernel splits the buffer as the code put it together.
LEMMA KernelView ==
    ASSUME TypeOK, BufferInv, phase \in {"filled", "submitted", "unlinked"}
    PROVE  /\ DataAt = Base /\ KernelLengths = Asked
           /\ \A k \in Frames : PacketAt(k) = Begin(k)
<1>1. DataAt = Base
  BY DEF BufferInv, DataAt, Base
<1>2. KernelLengths = Asked
  <2>1. CASE request.type \in {"isochronous", Complex}
    <3>1. urb.lengths = Asked
      BY <2>1 DEF BufferInv, PacketLengths, Asked, Frames
    <3>2. 1 \in DOMAIN Asked
      BY RequestShape DEF Asked
    <3>3. Asked # <<>>
      BY <3>2
    <3> QED BY <3>1, <3>3 DEF KernelLengths
  <2>2. CASE request.type \notin {"isochronous", Complex}
    <3>1. urb.lengths = <<>> /\ Len(urb.buffer) = Base + Sums(Asked)[N]
      BY <2>2 DEF BufferInv, PacketLengths
    <3>2. N = 1
      BY <2>2, RequestShape
    <3>3. Asked \in [1..1 -> Nat]
      BY <3>2, PartShape
    <3>4. Sums(Asked)[1] = Asked[1]
      <4>1. Sums(Asked)[0] = 0 /\ \A k \in 1..1 : Sums(Asked)[k] = Sums(Asked)[k - 1] + Asked[k]
        BY <3>3, SumsAdd
      <4> QED BY <4>1, <3>3
    <3>5. Len(urb.buffer) - DataAt = Asked[1]
      BY <3>1, <3>2, <3>3, <3>4, <1>1, PartsFit
    <3>6. KernelLengths = <<Asked[1]>>
      BY <3>1, <3>5 DEF KernelLengths
    <3> QED BY <3>6, <3>3
  <2> QED BY <2>1, <2>2
<1>3. \A k \in Frames : PacketAt(k) = Begin(k)
  BY <1>1, <1>2 DEF PacketAt, Begin
<1> QED BY <1>1, <1>2, <1>3

LEMMA GivenImplied ==
    ASSUME TypeOK, BufferInv PROVE DeviceGetsWhatWasGiven
<1> SUFFICES ASSUME phase \in {"submitted", "unlinked"}
             PROVE  /\ DOMAIN KernelLengths = Frames
                    /\ \A k \in Frames : KernelPacket(k) = Part(k)
                    /\ request.type = "control" => SubSeq(urb.buffer, 1, 8) = Setup
  BY DEF DeviceGetsWhatWasGiven
<1> DEFINE b == urb.buffer
<1>1. /\ KernelLengths = Asked
      /\ \A k \in Frames : PacketAt(k) = Begin(k)
  BY KernelView
<1>2. b \in Seq(Bytes) /\ Len(b) = Base + Sums(Asked)[N]
  BY DEF TypeOK, BufferInv
<1>3. /\ \A i \in 1..Base : b[i] = Setup[i]
      /\ \A k \in Frames : \A i \in 1..Asked[k] : b[Begin(k) + i] = Part(k)[i]
  BY DEF BufferInv, Byte
<1> HIDE DEF b
<1>4. \A i \in 1..Len(b) : b[i] \in Bytes
  BY <1>2, ElementOfSeq
<1>5. ASSUME NEW k \in Frames PROVE SubSeq(b, Begin(k) + 1, Begin(k) + Asked[k]) = Part(k)
  <2> DEFINE f == Begin(k)
             a == Asked[k]
             sub == SubSeq(b, f + 1, f + a)
  <2>1. f \in Nat /\ a \in Nat /\ f + a <= Len(b) /\ Len(b) \in Nat
    BY <1>2, PartsFit, PartShape, RequestShape
  <2>2. Part(k) \in Seq(Bytes) /\ Len(Part(k)) = a
    BY PartShape
  <2>3. \A i \in 1..a : b[f + i] = Part(k)[i]
    BY <1>3
  <2> HIDE DEF f, a
  <2>4. \A i \in (f + 1)..(f + a) : b[i] \in Bytes
    BY <1>4, <2>1
  <2>5. /\ sub \in Seq(Bytes)
        /\ Len(sub) = IF f + 1 <= f + a THEN (f + a) - (f + 1) + 1 ELSE 0
        /\ \A i \in 1..((f + a) - (f + 1) + 1) : sub[i] = b[(f + 1) + i - 1]
    BY <1>2, <2>1, <2>4, SubSeqProperties
  <2>6. Len(sub) = a
    <3>1. CASE a = 0
      BY <3>1, <2>1, <2>5
    <3>2. CASE a # 0
      <4>1. f + 1 <= f + a /\ (f + a) - (f + 1) + 1 = a
        BY <3>2, <2>1
      <4> QED BY <4>1, <2>5
    <3> QED BY <3>1, <3>2
  <2>7. \A i \in 1..a : i \in 1..((f + a) - (f + 1) + 1) /\ (f + 1) + i - 1 = f + i
    BY <2>1
  <2>8. \A i \in 1..Len(sub) : sub[i] = Part(k)[i]
    BY <2>3, <2>5, <2>6, <2>7
  <2> HIDE DEF sub
  <2>9. sub = Part(k)
    BY <2>2, <2>5, <2>6, <2>8, SeqEqual
  <2> QED BY <2>9 DEF sub, f, a
<1>6. ASSUME request.type = "control" PROVE SubSeq(b, 1, 8) = Setup
  <2>1. Base = 8 /\ Len(b) \in Nat /\ 8 <= Len(b)
    <3>1. Base = 8
      BY <1>6 DEF Base, SetupSize
    <3>2. 1 \in Frames /\ Begin(1) \in Nat /\ Asked[1] \in Nat
      BY RequestShape, PartsFit, PartShape
    <3>3. Sums(Asked)[N] \in Nat
      BY SumsAdd, PartShape, RequestShape
    <3> QED BY <3>1, <3>3, <1>2
  <2>2. \A i \in 1..8 : b[i] = <<"setup", i, 0>> /\ b[i] \in Bytes
    BY <2>1, <1>3, <1>4 DEF Setup, SetupSize
  <2> DEFINE sub == SubSeq(b, 1, 8)
  <2>3. /\ sub \in Seq(Bytes)
        /\ Len(sub) = IF 1 <= 8 THEN 8 - 1 + 1 ELSE 0
        /\ \A i \in 1..(8 - 1 + 1) : sub[i] = b[1 + i - 1]
    BY <1>2, <2>1, <2>2, SubSeqProperties
  <2>4. Len(sub) = 8 /\ \A i \in 1..8 : sub[i] = <<"setup", i, 0>>
    BY <2>2, <2>3
  <2> HIDE DEF sub
  <2>5. Setup \in Seq(Bytes) /\ Len(Setup) = 8 /\ \A i \in 1..8 : Setup[i] = <<"setup", i, 0>>
    BY SetupShape
  <2>6. sub = Setup
    BY <2>3, <2>4, <2>5, SeqEqual
  <2> QED BY <2>6 DEF sub
<1>7. DOMAIN Asked = Frames
  BY DEF Asked
<1> QED BY <1>1, <1>5, <1>6, <1>7 DEF KernelPacket, b

-----------------------------------------------------------------------------
(* The first transfer, and its submission.                                 *)

LEMMA TransfersInit == Init => TransfersInv
<1> SUFFICES ASSUME Init PROVE TransfersInv
  OBVIOUS
<1>1. request \in TheRequests
  <2>1. PICK fs \in Layouts : Len(fs) = 1
    BY LayoutsAssumption
  <2> DEFINE r == [type |-> "control", in |-> TRUE, accept |-> TRUE, frames |-> fs]
  <2>2. r \in TheRequests
    BY <2>1 DEF TheRequests, PipeTypes
  <2> HIDE DEF r
  <2> QED BY <2>2 DEF Init
<1>3. TypeOK
  <2>1. \A T : <<>> \in Seq(T)
    BY EmptySeq
  <2>2. irps \in [Frames -> [actual : 0..Size, error : BOOLEAN]]
    BY NewTypes DEF Init, Frames
  <2> QED BY <1>1, <2>1, <2>2, NewTypes DEF Init, TypeOK
<1> QED BY <1>3 DEF Init, TransfersInv, UntouchedInv, FlagsInv, BufferInv, ArrivedInv,
                    ArrayGetsWhatCame, FailureIsReported

LEMMA NextRequestKeeps ==
    ASSUME TransfersInv, NextRequest PROVE TransfersInv'
<1>2. /\ phase' = "new" /\ request' \in TheRequests /\ array' = Fresh /\ urb' = NoUrb
      /\ arrived' = <<>> /\ failed' = FALSE /\ irps' = NewIrps(request')
      /\ release' = release
  BY DEF NextRequest
<1>3. heap' \in [{"urb", "buffer", "reference"} -> Nat]
  <2>1. heap \in [{"urb", "buffer", "reference"} -> Nat]
    BY DEF TransfersInv, TypeOK
  <2> QED BY <2>1 DEF NextRequest, Alloc, Count
<1>4. TypeOK'
  <2>1. release' \in Releases
    BY <1>2 DEF TransfersInv, TypeOK
  <2>2. \A T : <<>> \in Seq(T)
    BY EmptySeq
  <2>3. irps' \in [Frames' -> [actual : 0..Size, error : BOOLEAN]]
    BY <1>2, NewTypes DEF Frames
  <2>4. array' \in [1..Size -> Bytes]
    BY <1>2, NewTypes
  <2>5. urb' \in [type : PipeTypes \cup {"none"}, flags : SUBSET Flags,
                  buffer : Seq(Bytes), lengths : Seq(Nat)]
    BY <1>2, NewTypes
  <2> QED BY <1>2, <1>3, <2>1, <2>2, <2>3, <2>4, <2>5 DEF TypeOK
<1>5. UntouchedInv'
  BY <1>2 DEF UntouchedInv, Fresh
<1> QED BY <1>2, <1>4, <1>5 DEF TransfersInv, FlagsInv, BufferInv, ArrivedInv,
                                ArrayGetsWhatCame, FailureIsReported

\* What the operators about a request say of it when it stays as it is.
LEMMA SameRequest ==
    ASSUME request' = request
    PROVE  /\ N' = N /\ Base' = Base /\ Asked' = Asked /\ Frames' = Frames
           /\ MustBeFull' = MustBeFull /\ \A k : Begin(k)' = Begin(k) /\ Part(k)' = Part(k)
BY DEF N, Base, Asked, Frames, MustBeFull, Begin, Part

LEMMA AllocateUrbKeeps ==
    ASSUME TransfersInv, AllocateUrb PROVE TransfersInv'
<1>1. /\ phase = "new" /\ phase' = "urb"
      /\ urb' = [urb EXCEPT !.flags = IF request.type = Complex THEN {}
                                      ELSE ShortPacketFlag(request.accept)]
      /\ release' = release /\ request' = request /\ array' = array
      /\ arrived' = arrived /\ failed' = failed /\ irps' = irps
  BY DEF AllocateUrb
<1>2. TypeOK'
  <2>1. heap' \in [{"urb", "buffer", "reference"} -> Nat]
    BY DEF TransfersInv, TypeOK, AllocateUrb, Alloc, Count
  <2>2. urb' \in [type : PipeTypes \cup {"none"}, flags : SUBSET Flags,
                  buffer : Seq(Bytes), lengths : Seq(Nat)]
    <3>1. urb \in [type : PipeTypes \cup {"none"}, flags : SUBSET Flags,
                   buffer : Seq(Bytes), lengths : Seq(Nat)]
      BY DEF TransfersInv, TypeOK
    <3>2. ShortPacketFlag(request.accept) \in SUBSET Flags
      BY DEF ShortPacketFlag, Flags
    <3> QED BY <1>1, <3>1, <3>2
  <2> QED BY <1>1, <2>1, <2>2 DEF TransfersInv, TypeOK, Frames
<1>3. UntouchedInv'
  BY <1>1 DEF TransfersInv, UntouchedInv, Fresh
<1>4. FlagsInv'
  <2> SUFFICES ASSUME MustBeFull PROVE "NO_ACCEPT_SHORT_PACKET" \in urb'.flags
    BY <1>1, SameRequest DEF FlagsInv
  <2>1. request.type # Complex /\ ~request.accept
    BY DEF MustBeFull, Single, Complex
  <2>2. urb'.flags = ShortPacketFlag(request.accept)
    BY <1>1, <2>1 DEF TransfersInv, TypeOK
  <2> QED BY <2>1, <2>2 DEF ShortPacketFlag
<1> QED BY <1>1, <1>2, <1>3, <1>4 DEF TransfersInv, BufferInv, ArrivedInv,
                                      ArrayGetsWhatCame, FailureIsReported

\* create_iso_buffer() and the others: the buffer has the parts of the array.
LEMMA FillUrbBuffer ==
    ASSUME TypeOK, array = Fresh
    PROVE  /\ BufferOf(request) \in Seq(Bytes)
           /\ Len(BufferOf(request)) = Base + Sums(Asked)[N]
           /\ \A i \in 1..Base : BufferOf(request)[i] = Setup[i]
           /\ \A k \in Frames : \A i \in 1..Asked[k] :
                 BufferOf(request)[Begin(k) + i] = Part(k)[i]
<1> DEFINE head == IF request.type = "control" THEN Setup ELSE <<>>
           parts == [k \in Frames |-> Region(request.frames[k])]
           b == head \o FlattenSeq(parts)
<1>1. Frames = 1..N
  BY RequestShape
<1>2. /\ head \in Seq(Bytes) /\ Len(head) = Base
      /\ \A i \in 1..Base : head[i] = Setup[i]
  <2>1. CASE request.type = "control"
    BY <2>1, SetupShape DEF Base, SetupSize
  <2>2. CASE request.type # "control"
    <3>1. head = <<>> /\ Base = 0
      BY <2>2 DEF Base
    <3>2. head \in Seq(Bytes) /\ Len(head) = 0
      BY <3>1, EmptySeq
    <3> QED BY <3>1, <3>2
  <2> QED BY <2>1, <2>2
<1>3. ASSUME NEW k \in Frames PROVE Region(request.frames[k]) = Part(k)
  <2> DEFINE m == request.frames[k].length
             o == request.frames[k].offset
  <2>1. m \in Nat /\ o \in Nat /\ o + m <= Size /\ Size \in Nat
    BY RequestShape
  <2> HIDE DEF m, o
  <2>2. \A i \in 1..m : o + i \in 1..Size
    BY <2>1
  <2>3. \A i \in 1..m : array[o + i] = <<"java", o + i, 0>>
    BY <2>2 DEF Fresh
  <2> QED BY <2>3 DEF Region, Part, m, o
<1>4. parts = [k \in 1..N |-> Part(k)]
  BY <1>1, <1>3
<1>5. Parted(head, parts)
  <2>1. parts \in [1..N -> Seq(Bytes)] /\ \A k \in 1..N : Len(parts[k]) = Asked[k]
    BY <1>1, <1>4, PartShape
  <2> QED BY <1>2, <2>1 DEF Parted
<1>6. BufferOf(request) = b
  BY DEF BufferOf, Frames
<1>7. \A k \in Frames : parts[k] = Part(k)
  BY <1>3
<1> HIDE DEF head, parts
<1>8. HasParts(b, head, parts)
  BY <1>5, BufferOfParts
<1> HIDE DEF b
<1> QED BY <1>1, <1>2, <1>6, <1>7, <1>8 DEF HasParts

LEMMA FillUrbKeeps ==
    ASSUME TransfersInv, FillUrb PROVE TransfersInv'
<1>1. /\ phase = "urb" /\ phase' = "filled"
      /\ urb' = [type    |-> UrbType(request.type),
                 flags   |-> UrbFlags(request.type, urb.flags),
                 buffer  |-> BufferOf(request),
                 lengths |-> PacketLengths(request)]
      /\ release' = release /\ request' = request /\ array' = array
      /\ arrived' = arrived /\ failed' = failed /\ irps' = irps
  BY DEF FillUrb
<1>2. TypeOK /\ array = Fresh
  BY <1>1 DEF TransfersInv, UntouchedInv
<1>3. /\ UrbType(request.type) \in PipeTypes
      /\ UrbType(request.type) = "control" <=> request.type = "control"
  BY <1>2, RequestShape DEF UrbType, PipeTypes, Single, Complex
<1>4. /\ UrbFlags(request.type, urb.flags) \in SUBSET Flags
      /\ MustBeFull => "NO_ACCEPT_SHORT_PACKET" \in UrbFlags(request.type, urb.flags)
  <2>1. urb.flags \in SUBSET Flags
    BY <1>2 DEF TypeOK
  <2>2. MustBeFull => /\ "NO_ACCEPT_SHORT_PACKET" \in urb.flags
                      /\ request.type \notin {"isochronous", Complex}
    BY <1>1 DEF TransfersInv, FlagsInv, MustBeFull, Single, Complex
  <2>3. QueueBulkFlag \in SUBSET Flags
    BY DEF QueueBulkFlag, Flags
  <2>4. CASE request.type \in {"isochronous", Complex}
    <3>1. UrbFlags(request.type, urb.flags)
            = (urb.flags \cup {"ISO_ASAP"}) \ {"NO_ACCEPT_SHORT_PACKET"}
      BY <2>4 DEF UrbFlags, Complex
    <3>2. "ISO_ASAP" \in Flags
      BY DEF Flags
    <3> QED BY <3>1, <3>2, <2>1, <2>2, <2>4
  <2>5. CASE request.type \notin {"isochronous", Complex}
    <3>1. \/ UrbFlags(request.type, urb.flags) = urb.flags \cup QueueBulkFlag
          \/ UrbFlags(request.type, urb.flags) = urb.flags
      BY <2>5 DEF UrbFlags
    <3> QED BY <3>1, <2>1, <2>2, <2>3
  <2> QED BY <2>4, <2>5
<1>5. PacketLengths(request) \in Seq(Nat)
  <2>1. CASE request.type \in {"isochronous", Complex}
    <3>1. PacketLengths(request) = Asked
      BY <2>1 DEF PacketLengths, Asked, Frames
    <3>2. N \in Nat /\ Asked \in [1..N -> Nat]
      BY <1>2, RequestShape, PartShape
    <3> QED BY <3>1, <3>2
  <2>2. CASE request.type \notin {"isochronous", Complex}
    BY <2>2, EmptySeq DEF PacketLengths
  <2> QED BY <2>1, <2>2
<1>6. /\ BufferOf(request) \in Seq(Bytes)
      /\ Len(BufferOf(request)) = Base + Sums(Asked)[N]
      /\ \A i \in 1..Base : BufferOf(request)[i] = Setup[i]
      /\ \A k \in Frames : \A i \in 1..Asked[k] :
            BufferOf(request)[Begin(k) + i] = Part(k)[i]
  BY <1>2, FillUrbBuffer
<1>7. TypeOK'
  <2>1. heap' \in [{"urb", "buffer", "reference"} -> Nat]
    BY <1>2 DEF TypeOK, FillUrb, Alloc, Count
  <2>2. urb' \in [type : PipeTypes \cup {"none"}, flags : SUBSET Flags,
                  buffer : Seq(Bytes), lengths : Seq(Nat)]
    BY <1>1, <1>3, <1>4, <1>5, <1>6
  <2> QED BY <1>1, <1>2, <2>1, <2>2 DEF TypeOK, Frames
<1>8. UntouchedInv'
  BY <1>1 DEF TransfersInv, UntouchedInv, Fresh
<1>9. FlagsInv'
  BY <1>1, <1>4, SameRequest DEF FlagsInv
<1>10. BufferInv'
  <2>1. /\ urb'.lengths = PacketLengths(request)
        /\ urb'.type = UrbType(request.type) /\ urb'.buffer = BufferOf(request)
    BY <1>1
  <2>2. /\ N' = N /\ Base' = Base /\ Asked' = Asked /\ Frames' = Frames
        /\ \A k : Begin(k)' = Begin(k) /\ Part(k)' = Part(k)
    BY <1>1, SameRequest
  <2> QED BY <1>1, <1>3, <1>6, <2>1, <2>2 DEF BufferInv, Byte
<1> QED BY <1>1, <1>7, <1>8, <1>9, <1>10 DEF TransfersInv, ArrivedInv,
                                             ArrayGetsWhatCame, FailureIsReported

\* SubmitUrb and CancelUrb change how far the transfer has come, and no more.
LEMMA OnlyPhase ==
    ASSUME TransfersInv, SubmitUrb \/ CancelUrb PROVE TransfersInv'
<1>1. /\ phase \in {"filled", "submitted"} /\ phase' \in {"submitted", "unlinked"}
      /\ release' = release /\ request' = request /\ array' = array /\ urb' = urb
      /\ heap' = heap /\ arrived' = arrived /\ failed' = failed /\ irps' = irps
  BY DEF SubmitUrb, CancelUrb
<1>2. TypeOK'
  BY <1>1 DEF TransfersInv, TypeOK, Frames
<1>3. UntouchedInv' /\ FlagsInv'
  BY <1>1, SameRequest DEF TransfersInv, UntouchedInv, FlagsInv, Fresh
<1>4. BufferInv'
  <2>1. /\ N' = N /\ Base' = Base /\ Asked' = Asked /\ Frames' = Frames
        /\ \A k : Begin(k)' = Begin(k) /\ Part(k)' = Part(k)
    BY <1>1, SameRequest
  <2> QED BY <1>1, <2>1 DEF TransfersInv, BufferInv, Byte
<1> QED BY <1>1, <1>2, <1>3, <1>4 DEF TransfersInv, ArrivedInv,
                                      ArrayGetsWhatCame, FailureIsReported

\* What was not submitted: the array is untouched, and a pipe request says so.
LEMMA RefuseKeeps ==
    ASSUME TransfersInv, HeapInv, Refuse PROVE TransfersInv'
<1>1. /\ phase \in {"new", "urb", "filled"} /\ phase' = "over"
      /\ Free(HeldAt(phase))
      /\ irps' = [k \in Frames |-> [irps[k] EXCEPT !.error = request.type # Complex]]
      /\ release' = release /\ request' = request /\ array' = array /\ urb' = urb
      /\ arrived' = arrived /\ failed' = failed
  BY DEF Refuse
<1>2. /\ TypeOK /\ array = Fresh /\ arrived = <<>>
      /\ irps = [k \in Frames |-> [actual |-> 0, error |-> FALSE]]
  BY <1>1 DEF TransfersInv, UntouchedInv, NewIrps, Frames
<1>3. /\ irps' \in [Frames -> [actual : 0..Size, error : BOOLEAN]]
      /\ \A k \in Frames : irps'[k].actual = 0
      /\ \A k \in Frames : request.type # Complex => irps'[k].error = TRUE
  <2> DEFINE e == request.type # Complex
  <2>1. e \in BOOLEAN
    OBVIOUS
  <2>2. irps' = [k \in Frames |-> [irps[k] EXCEPT !.error = e]]
    BY <1>1
  <2>3. Size \in Nat
    BY LayoutsAssumption
  <2>4. request.type # Complex => e = TRUE
    OBVIOUS
  <2> HIDE DEF e
  <2>5. \A k \in Frames : irps'[k] = [actual |-> 0, error |-> e]
    BY <1>2, <2>2
  <2>6. DOMAIN irps' = Frames /\ irps' = [k \in Frames |-> [actual |-> 0, error |-> e]]
    BY <1>2, <2>2
  <2>7. irps' \in [Frames -> [actual : 0..Size, error : BOOLEAN]]
    BY <2>1, <2>3, <2>6
  <2> QED BY <2>4, <2>5, <2>7
<1>4. TypeOK'
  <2>1. heap' \in [{"urb", "buffer", "reference"} -> Nat]
    <3>1. HeldAt(phase) \subseteq Owned
      BY <1>1 DEF HeldAt, Owned
    <3>2. heap = [x \in Kinds |-> Count(x, Owned)]
      BY DEF HeapInv
    <3>3. \A x \in Kinds : Count(x, Owned) - Count(x, HeldAt(phase)) \in Nat
      BY <3>1 DEF Count
    <3> QED BY <1>1, <3>2, <3>3 DEF Free, Kinds
  <2> QED BY <1>1, <1>2, <1>3, <2>1 DEF TypeOK, Frames
<1>5. ArrayGetsWhatCame'
  <2>1. \A p \in 1..Size : array'[p] = <<"java", p, 0>>
    BY <1>1, <1>2 DEF Fresh
  <2>2. \A k \in Frames : irps'[k].actual = 0
    BY <1>3
  <2>3. arrived' = <<>> /\ Frames' = Frames /\ \A k : Came(k)' = 0
    BY <1>1, <1>2, SameRequest DEF Came
  <2> QED BY <2>1, <2>2, <2>3 DEF ArrayGetsWhatCame
<1>6. FailureIsReported'
  <2>1. 1 \in Frames
    BY <1>2, RequestShape
  <2>2. request.type # Complex => irps'[1].error
    BY <2>1, <1>3
  <2> QED BY <2>2, <1>1, <1>2 DEF FailureIsReported
<1> QED BY <1>1, <1>4, <1>5, <1>6 DEF TransfersInv, UntouchedInv, FlagsInv, BufferInv,
                                      ArrivedInv

-----------------------------------------------------------------------------
(* What comes back.                                                        *)

\* The buffer after a transfer from the device: each packet in its own part.
LEMMA ReceivedBuffer ==
    ASSUME TypeOK, BufferInv, phase \in {"submitted", "unlinked"},
           NEW said \in [Frames -> [actual : 0..Size, failed : BOOLEAN]],
           \A k \in Frames : said[k].actual <= Asked[k],
           NEW b, b = SubSeq(urb.buffer, 1, DataAt)
                        \o FlattenSeq([k \in DOMAIN KernelLengths |-> Received(k, said[k].actual)])
    PROVE  /\ b \in Seq(Bytes) /\ Len(b) = Base + Sums(Asked)[N]
           /\ \A k \in Frames : \A i \in 1..said[k].actual : b[Begin(k) + i] = <<"device", k, i>>
<1> DEFINE head == SubSeq(urb.buffer, 1, DataAt)
           parts == [k \in DOMAIN KernelLengths |-> Received(k, said[k].actual)]
<1>1. DataAt = Base /\ KernelLengths = Asked /\ Frames = 1..N /\ DOMAIN Asked = Frames
  BY KernelView, RequestShape DEF Asked
<1>2. head \in Seq(Bytes) /\ Len(head) = Base
  <2> DEFINE c == urb.buffer
  <2>1. c \in Seq(Bytes) /\ Len(c) \in Nat /\ Base \in Nat /\ Base <= Len(c)
    <3>1. c \in Seq(Bytes) /\ Len(c) = Base + Sums(Asked)[N]
      BY DEF TypeOK, BufferInv
    <3>2. Sums(Asked)[N] \in Nat
      <4>1. N \in Nat \ {0} /\ Asked \in [1..N -> Nat]
        BY PartShape, RequestShape
      <4>2. Sums(Asked) \in [0..N -> Nat]
        BY <4>1, SumsAdd
      <4> QED BY <4>1, <4>2
    <3> QED BY <3>1, <3>2, PartsFit
  <2> HIDE DEF c
  <2>2. \A i \in 1..Base : c[i] \in Bytes
    BY <2>1, ElementOfSeq
  <2>3. /\ SubSeq(c, 1, Base) \in Seq(Bytes)
        /\ Len(SubSeq(c, 1, Base)) = IF 1 <= Base THEN Base - 1 + 1 ELSE 0
    BY <2>1, <2>2, SubSeqProperties
  <2>4. Len(SubSeq(c, 1, Base)) = Base
    <3>1. CASE Base = 0
      BY <3>1, <2>3
    <3>2. CASE Base # 0
      BY <3>2, <2>1, <2>3
    <3> QED BY <3>1, <3>2
  <2> QED BY <2>3, <2>4, <1>1 DEF c
<1>3. ASSUME NEW k \in Frames
      PROVE  /\ Received(k, said[k].actual) \in Seq(Bytes)
             /\ Len(Received(k, said[k].actual)) = Asked[k]
             /\ \A i \in 1..said[k].actual : Received(k, said[k].actual)[i] = <<"device", k, i>>
  <2> DEFINE a == said[k].actual
             m == Asked[k]
             r == [i \in 1..m |-> IF i <= a THEN <<"device", k, i>> ELSE Junk]
  <2>1. k \in Nat /\ a \in Nat /\ m \in Nat /\ a <= m
    <3>1. a \in 0..Size /\ Size \in Nat /\ a <= m
      BY LayoutsAssumption
    <3>2. m \in Nat /\ k \in Nat
      BY <1>1, RequestShape, PartShape
    <3> QED BY <3>1, <3>2
  <2>2. Received(k, a) = r
    BY <1>1 DEF Received
  <2> HIDE DEF a, m
  <2>3. \A i \in 1..m : <<"device", k, i>> \in Bytes /\ Junk \in Bytes
    BY <2>1 DEF Bytes, Junk
  <2>4. r \in Seq(Bytes) /\ Len(r) = m
    BY <2>1, <2>3
  <2>5. \A i \in 1..a : i \in 1..m /\ i <= a
    BY <2>1
  <2>6. \A i \in 1..a : r[i] = <<"device", k, i>>
    BY <2>5
  <2> HIDE DEF r
  <2> QED BY <2>2, <2>4, <2>6 DEF a, m
<1>4. \A k \in Frames : parts[k] = Received(k, said[k].actual)
  BY <1>1
<1>5. Parted(head, parts)
  <2>1. parts \in [1..N -> Seq(Bytes)]
    BY <1>1, <1>3
  <2>2. \A k \in 1..N : Len(parts[k]) = Asked[k]
    BY <1>1, <1>3, <1>4
  <2> HIDE DEF head, parts
  <2> QED BY <1>2, <2>1, <2>2 DEF Parted
<1>6. b = head \o FlattenSeq(parts)
  OBVIOUS
<1> HIDE DEF head, parts
<1>7. HasParts(b, head, parts)
  BY <1>5, <1>6, BufferOfParts
<1>8. b \in Seq(Bytes) /\ Len(b) = Base + Sums(Asked)[N]
  BY <1>7 DEF HasParts
<1>9. ASSUME NEW k \in Frames, NEW i \in 1..said[k].actual
      PROVE  b[Begin(k) + i] = <<"device", k, i>>
  <2>1. i \in 1..Asked[k]
    <3>1. said[k].actual \in 0..Size /\ Size \in Nat /\ said[k].actual <= Asked[k] /\ Asked[k] \in Nat
      BY <1>1, PartShape, LayoutsAssumption
    <3> QED BY <3>1
  <2>2. b[Begin(k) + i] = parts[k][i]
    BY <2>1, <1>1, <1>7 DEF HasParts
  <2> QED BY <2>2, <1>3, <1>4
<1> QED BY <1>8, <1>9

LEMMA FinishUrbKeeps ==
    ASSUME TransfersInv, FinishUrb PROVE TransfersInv'
<1>1. /\ phase \in {"submitted", "unlinked"} /\ phase' = "finished"
      /\ failed' \in BOOLEAN
      /\ release' = release /\ request' = request /\ array' = array
      /\ heap' = heap /\ irps' = irps
  BY DEF FinishUrb
<1>2. TypeOK /\ BufferInv
  BY DEF TransfersInv
<1>3. KernelLengths = Asked /\ DOMAIN Asked = Frames /\ DataAt = Base
  BY <1>1, <1>2, KernelView DEF Asked
<1>4. /\ arrived' \in [Frames -> [actual : 0..Size, failed : BOOLEAN]]
      /\ \A k \in Frames : arrived'[k].actual <= Asked[k]
  BY <1>3 DEF FinishUrb, Reports
<1>5. Frames = 1..N /\ N \in Nat \ {0} /\ Size \in Nat
  BY <1>2, RequestShape
<1>6. /\ urb'.type = urb.type /\ urb'.flags = urb.flags /\ urb'.lengths = urb.lengths
      /\ urb'.buffer \in Seq(Bytes) /\ Len(urb'.buffer) = Base + Sums(Asked)[N]
      /\ \A k \in Frames : \A i \in 1..arrived'[k].actual :
            urb'.buffer[Begin(k) + i] = IF request.in THEN <<"device", k, i>> ELSE Part(k)[i]
      /\ urb' \in [type : PipeTypes \cup {"none"}, flags : SUBSET Flags,
                   buffer : Seq(Bytes), lengths : Seq(Nat)]
  <2>0. urb \in [type : PipeTypes \cup {"none"}, flags : SUBSET Flags,
                 buffer : Seq(Bytes), lengths : Seq(Nat)]
    BY <1>2 DEF TypeOK
  <2>1. CASE request.in
    <3> DEFINE c == SubSeq(urb.buffer, 1, DataAt)
                      \o FlattenSeq([k \in DOMAIN KernelLengths |-> Received(k, arrived'[k].actual)])
    <3>1. urb' = [urb EXCEPT !.buffer = c]
      BY <2>1 DEF FinishUrb
    <3>2. /\ c \in Seq(Bytes) /\ Len(c) = Base + Sums(Asked)[N]
          /\ \A k \in Frames : \A i \in 1..arrived'[k].actual : c[Begin(k) + i] = <<"device", k, i>>
      BY <1>1, <1>2, <1>4, ReceivedBuffer
    <3> HIDE DEF c
    <3>3. /\ urb'.type = urb.type /\ urb'.flags = urb.flags /\ urb'.lengths = urb.lengths
          /\ urb'.buffer = c
      BY <3>1, <2>0
    <3>4. urb' \in [type : PipeTypes \cup {"none"}, flags : SUBSET Flags,
                    buffer : Seq(Bytes), lengths : Seq(Nat)]
      BY <3>1, <3>2, <2>0
    <3> QED BY <3>2, <3>3, <3>4, <2>1
  <2>2. CASE ~request.in
    <3>1. urb' = urb
      BY <2>2 DEF FinishUrb
    <3>2. Len(urb.buffer) = Base + Sums(Asked)[N]
      BY <1>1, <1>2 DEF BufferInv
    <3>3. \A k \in Frames : \A i \in 1..Asked[k] : urb.buffer[Begin(k) + i] = Part(k)[i]
      BY <1>1, <1>2 DEF BufferInv, Byte
    <3>4. \A k \in Frames : \A i \in 1..arrived'[k].actual : i \in 1..Asked[k]
      <4> SUFFICES ASSUME NEW k \in Frames, NEW i \in 1..arrived'[k].actual PROVE i \in 1..Asked[k]
        OBVIOUS
      <4>1. arrived'[k].actual \in 0..Size /\ arrived'[k].actual <= Asked[k] /\ Asked[k] \in Nat
        BY <1>2, <1>4, <1>5, PartShape
      <4> QED BY <4>1, <1>5
    <3>5. urb.buffer \in Seq(Bytes)
      BY <2>0
    <3> QED BY <3>1, <3>2, <3>3, <3>4, <3>5, <2>0, <2>2
  <2> QED BY <2>1, <2>2
<1>7. TypeOK'
  <2>1. arrived' \in Seq([actual : 0..Size, failed : BOOLEAN])
    <3> DEFINE a == arrived'
               T == [actual : 0..Size, failed : BOOLEAN]
    <3>1. a \in [1..N -> T] /\ N \in Nat
      BY <1>4, <1>5
    <3> HIDE DEF a, T
    <3>2. a \in Seq(T)
      BY <3>1
    <3> QED BY <3>2 DEF a, T
  <2> QED BY <1>1, <1>2, <1>6, <2>1 DEF TypeOK, Frames
<1>8. UntouchedInv'
  BY <1>1 DEF TransfersInv, UntouchedInv, Fresh
<1>9. FlagsInv'
  BY <1>1, <1>6, SameRequest DEF TransfersInv, FlagsInv
<1>10. BufferInv'
  <2>1. /\ N' = N /\ Base' = Base /\ Asked' = Asked
    BY <1>1, SameRequest
  <2>2. /\ urb.lengths = PacketLengths(request)
        /\ urb.type = "control" <=> request.type = "control"
    BY <1>1, <1>2 DEF BufferInv
  <2> QED BY <1>1, <1>6, <2>1, <2>2 DEF BufferInv
<1>11. ArrivedInv'
  <2>1. /\ Asked' = Asked /\ Frames' = Frames /\ MustBeFull' = MustBeFull
        /\ \A k : Begin(k)' = Begin(k) /\ Part(k)' = Part(k)
    BY <1>1, SameRequest
  <2>2. request.type \in Single => arrived'[1].failed = failed'
    <3>1. request.type \in Single => urb.lengths = <<>>
      BY <1>1, <1>2 DEF BufferInv, PacketLengths, Single, Complex
    <3> QED BY <3>1 DEF FinishUrb
  <2>3. MustBeFull /\ request.in => arrived'[1].actual = Asked[1] \/ failed'
    <3>1. MustBeFull => "NO_ACCEPT_SHORT_PACKET" \in urb.flags
      BY <1>1 DEF TransfersInv, FlagsInv
    <3> QED BY <3>1, <1>3 DEF FinishUrb
  <2> QED BY <1>1, <1>4, <1>6, <2>1, <2>2, <2>3 DEF ArrivedInv, Byte
<1> QED BY <1>1, <1>7, <1>8, <1>9, <1>10, <1>11 DEF TransfersInv,
              ArrayGetsWhatCame, FailureIsReported

\* destroy_iso_buffer() and the complete_*_pipe_request(): what each IRP gets.
LEMMA Copied ==
    ASSUME TransfersInv, phase = "finished"
    PROVE  /\ \A k \in Frames : /\ ActualLength(k) = arrived[k].actual
                                 /\ arrived[k].actual \in 0..Size
           /\ CopyBack(array) \in [1..Size -> Bytes]
           /\ \A k \in Frames : \A i \in 1..arrived[k].actual :
                 request.in => CopyBack(array)[request.frames[k].offset + i] = <<"device", k, i>>
           /\ \A p \in 1..Size :
                 \/ CopyBack(array)[p] = <<"java", p, 0>>
                 \/ request.in /\ \E k \in Frames : p - request.frames[k].offset \in 1..arrived[k].actual
<1>1. TypeOK /\ BufferInv /\ ArrivedInv /\ array = Fresh
  BY DEF TransfersInv, UntouchedInv
<1>2. /\ Frames = 1..N /\ N \in Nat \ {0} /\ Size \in Nat
      /\ \A k \in Frames :
            /\ request.frames[k].offset \in Nat
            /\ request.frames[k].length \in Nat
            /\ request.frames[k].offset + request.frames[k].length <= Size
      /\ request.type # Complex => N = 1
  BY <1>1, RequestShape
<1>3. \A k \in Frames : Asked[k] = request.frames[k].length
  BY <1>1, PartShape
<1>4. /\ arrived \in [Frames -> [actual : 0..Size, failed : BOOLEAN]]
      /\ \A k \in Frames : arrived[k].actual <= Asked[k]
      /\ \A k \in Frames : \A i \in 1..arrived[k].actual :
            Byte(k, i) = IF request.in THEN <<"device", k, i>> ELSE Part(k)[i]
  BY <1>1 DEF ArrivedInv
<1>5. ASSUME NEW k \in Frames
      PROVE  ActualLength(k) = arrived[k].actual /\ arrived[k].actual \in 0..Size
  <2>1. /\ arrived[k].actual \in 0..Size /\ arrived[k].actual <= request.frames[k].length
        /\ arrived[k].actual <= Size - request.frames[k].offset
    BY <1>2, <1>3, <1>4
  <2> QED BY <2>1 DEF ActualLength, Least
\* The offset the code computes is that of the part.
<1>6. \A k \in Frames : CopyFrom(k) = Begin(k)
  <2>1. CASE request.type \in {"isochronous", Complex}
    <3>1. urb.lengths = Asked
      BY <1>1, <2>1 DEF BufferInv, PacketLengths, Asked, Frames
    <3> QED BY <3>1 DEF CopyFrom, Begin, Base
  <2>2. CASE request.type \notin {"isochronous", Complex}
    <3>1. urb.lengths = <<>>
      BY <1>1, <2>2 DEF BufferInv, PacketLengths
    <3>2. \A k \in Frames : k = 1
      BY <1>2, <2>2
    <3>3. Sums(Asked)[0] = 0
      BY <1>1, <1>2, PartShape, SumsAdd
    <3>4. Sums(urb.lengths)[0] = 0
      <4>1. urb.lengths \in [1..0 -> Nat]
        BY <3>1
      <4> QED BY <4>1, SumsAdd
    <3> QED BY <3>2, <3>3, <3>4 DEF CopyFrom, Begin, Base
  <2> QED BY <2>1, <2>2
<1> DEFINE mine(p) == {k \in Frames : p - request.frames[k].offset \in 1..arrived[k].actual}
           new(p) == CopyBack(array)[p]
<1>7. \A p : mine(p) = {k \in Frames : p - request.frames[k].offset \in 1..ActualLength(k)}
  BY <1>5
<1>8. ASSUME NEW p \in 1..Size, NEW k \in mine(p) PROVE mine(p) = {k}
  <2> SUFFICES ASSUME NEW j \in mine(p), j # k PROVE FALSE
    OBVIOUS
  <2>1. ASSUME NEW l \in mine(p) PROVE p \in Taken(request.frames[l])
    <3> DEFINE i == p - request.frames[l].offset
    <3>1. l \in Frames /\ i \in 1..arrived[l].actual
      OBVIOUS
    <3>2. i \in 1..request.frames[l].length /\ request.frames[l].offset + i = p
      <4>1. /\ arrived[l].actual \in Nat /\ arrived[l].actual <= request.frames[l].length
            /\ request.frames[l].length \in Nat /\ request.frames[l].offset \in Nat
        BY <3>1, <1>2, <1>3, <1>4, <1>5
      <4> QED BY <3>1, <4>1
    <3> QED BY <3>2 DEF Taken
  <2>2. Taken(request.frames[j]) \cap Taken(request.frames[k]) = {}
    BY <1>1, RequestShape
  <2> QED BY <2>1, <2>2
<1>9. ASSUME NEW p \in 1..Size PROVE mine(p) = {} => new(p) = <<"java", p, 0>>
  BY <1>1, <1>7 DEF CopyBack, Fresh
<1>10. ASSUME NEW p \in 1..Size, NEW k \in mine(p)
       PROVE  new(p) = Byte(k, p - request.frames[k].offset)
  <2>1. \A l \in {k} : l = k
    OBVIOUS
  <2>2. mine(p) = {k} /\ (CHOOSE l \in mine(p) : TRUE) = k
    BY <1>8
  <2>3. new(p) = urb.buffer[CopyFrom(k) + p - request.frames[k].offset]
    BY <2>2, <1>7 DEF CopyBack
  <2>4. Begin(k) \in Nat /\ request.frames[k].offset \in Nat
    BY <1>1, <1>2, PartsFit
  <2>5. Begin(k) + p - request.frames[k].offset = Begin(k) + (p - request.frames[k].offset)
    BY <2>4
  <2> QED BY <2>3, <2>5, <1>6 DEF Byte
<1>11. ASSUME NEW p \in 1..Size, NEW k \in mine(p)
       PROVE  /\ request.in => new(p) = <<"device", k, p - request.frames[k].offset>>
              /\ ~request.in => new(p) = <<"java", p, 0>>
              /\ new(p) \in Bytes
  <2> DEFINE o == request.frames[k].offset
             i == p - o
  <2>1. k \in Frames /\ i \in 1..arrived[k].actual
    OBVIOUS
  <2>2. /\ arrived[k].actual \in Nat /\ arrived[k].actual <= request.frames[k].length
        /\ request.frames[k].length \in Nat /\ o \in Nat
    BY <1>2, <1>3, <1>4, <1>5
  <2>3. i \in 1..request.frames[k].length /\ i \in Nat /\ o + i = p
    BY <2>1, <2>2
  <2>4. new(p) = Byte(k, i)
    BY <1>10
  <2>5. Byte(k, i) = IF request.in THEN <<"device", k, i>> ELSE Part(k)[i]
    BY <2>1, <1>4
  <2>6. Part(k)[i] = <<"java", p, 0>>
    BY <2>3 DEF Part
  <2> HIDE DEF new, i, mine
  <2>7. <<"device", k, i>> \in Bytes /\ <<"java", p, 0>> \in Bytes
    BY <2>1, <2>3, <1>2 DEF Bytes
  <2>8. CASE request.in
    BY <2>4, <2>5, <2>7, <2>8 DEF i
  <2>9. CASE ~request.in
    BY <2>4, <2>5, <2>6, <2>7, <2>9
  <2> QED BY <2>8, <2>9
<1>12. CopyBack(array) \in [1..Size -> Bytes]
  <2>1. \A p \in 1..Size : new(p) \in Bytes
    <3> SUFFICES ASSUME NEW p \in 1..Size PROVE new(p) \in Bytes
      OBVIOUS
    <3>1. CASE mine(p) = {}
      <4>1. p \in Nat
        BY <1>2
      <4>2. <<"java", p, 0>> \in Bytes
        BY <4>1 DEF Bytes
      <4> QED BY <3>1, <4>2, <1>9
    <3>2. CASE mine(p) # {}
      BY <3>2, <1>11
    <3> QED BY <3>1, <3>2
  <2>2. DOMAIN CopyBack(array) = 1..Size /\ CopyBack(array) = [p \in 1..Size |-> new(p)]
    BY DEF CopyBack
  <2> HIDE DEF new
  <2> QED BY <2>1, <2>2
<1>13. ASSUME NEW k \in Frames, NEW i \in 1..arrived[k].actual, request.in
       PROVE  new(request.frames[k].offset + i) = <<"device", k, i>>
  <2> DEFINE o == request.frames[k].offset
             p == o + i
  <2>1. /\ arrived[k].actual \in Nat /\ arrived[k].actual <= request.frames[k].length
        /\ request.frames[k].length \in Nat /\ o \in Nat
        /\ o + request.frames[k].length <= Size
    BY <1>2, <1>3, <1>4, <1>5
  <2>2. p \in 1..Size /\ p - o = i
    <3> DEFINE a == arrived[k].actual
               m == request.frames[k].length
    <3>1. /\ a \in Nat /\ a <= m /\ m \in Nat /\ o \in Nat /\ o + m <= Size
          /\ i \in 1..a /\ Size \in Nat
      BY <2>1, <1>2
    <3> HIDE DEF a, m, o, mine, new
    <3> QED BY <3>1
  <2>3. k \in mine(p)
    BY <2>2
  <2> HIDE DEF mine, new
  <2> QED BY <2>2, <2>3, <1>11, <1>13
<1>14. ASSUME NEW p \in 1..Size
       PROVE  \/ new(p) = <<"java", p, 0>>
              \/ request.in /\ \E k \in Frames : p - request.frames[k].offset \in 1..arrived[k].actual
  <2>1. CASE mine(p) = {}
    BY <2>1, <1>9
  <2>2. CASE mine(p) # {}
    <3>1. PICK k \in mine(p) : TRUE
      BY <2>2
    <3> QED BY <3>1, <1>11
  <2> QED BY <2>1, <2>2
<1> QED BY <1>5, <1>12, <1>13, <1>14

LEMMA CompleteUrbKeeps ==
    ASSUME TransfersInv, HeapInv, CompleteUrb PROVE TransfersInv'
<1>1. /\ phase = "finished" /\ phase' = "over"
      /\ array' = CopyBack(array)
      /\ irps' = [k \in Frames |-> [actual |-> ReportedLength(k), error |-> ErrorOf(k)]]
      /\ Free(Kinds)
      /\ release' = release /\ request' = request /\ urb' = urb
      /\ arrived' = arrived /\ failed' = failed
  BY DEF CompleteUrb, Kinds
<1>2. TypeOK /\ ArrivedInv
  BY DEF TransfersInv
<1>3. /\ arrived \in [Frames -> [actual : 0..Size, failed : BOOLEAN]] /\ failed \in BOOLEAN
      /\ Frames = 1..N /\ N \in Nat \ {0}
      /\ request.type \in Single => arrived[1].failed = failed
      /\ MustBeFull /\ request.in => arrived[1].actual = Asked[1] \/ failed
  BY <1>1, <1>2, RequestShape DEF ArrivedInv, TypeOK
<1>4. 1 \in Frames /\ arrived # <<>>
  BY <1>3
<1>5. /\ \A k \in Frames : /\ ReportedLength(k) = arrived[k].actual
                            /\ arrived[k].actual \in 0..Size
      /\ CopyBack(array) \in [1..Size -> Bytes]
      /\ \A k \in Frames : \A i \in 1..arrived[k].actual :
            request.in => CopyBack(array)[request.frames[k].offset + i] = <<"device", k, i>>
      /\ \A p \in 1..Size :
            \/ CopyBack(array)[p] = <<"java", p, 0>>
            \/ request.in /\ \E k \in Frames : p - request.frames[k].offset \in 1..arrived[k].actual
  BY <1>1, Copied DEF ReportedLength
<1>6. \A k \in Frames : ErrorOf(k) \in BOOLEAN
  BY <1>3 DEF ErrorOf
<1>7. TypeOK'
  <2>1. heap' \in [{"urb", "buffer", "reference"} -> Nat]
    <3>1. Owned = Kinds
      BY <1>1 DEF Owned, Kinds
    <3>2. heap = [x \in Kinds |-> 1]
      BY <3>1 DEF HeapInv, Count
    <3>3. heap' = [x \in Kinds |-> 0]
      BY <1>1, <3>2 DEF Free, Count
    <3> QED BY <3>3 DEF Kinds
  <2>2. irps' \in [Frames -> [actual : 0..Size, error : BOOLEAN]]
    BY <1>1, <1>5, <1>6
  <2> QED BY <1>1, <1>2, <1>5, <2>1, <2>2 DEF TypeOK, Frames
<1>8. ArrayGetsWhatCame'
  <2>1. Frames' = Frames /\ \A k : Came(k)' = IF request.in THEN arrived[k].actual ELSE 0
    BY <1>1, <1>4, SameRequest DEF Came
  <2>2. \A k \in Frames : irps'[k].actual = arrived[k].actual
    BY <1>1, <1>5
  <2>3. ASSUME NEW k \in Frames, NEW i \in 1..Came(k)'
        PROVE  array'[request.frames[k].offset + i] = <<"device", k, i>>
    <3>1. CASE request.in
      BY <3>1, <2>1, <1>1, <1>5
    <3>2. CASE ~request.in
      BY <3>2, <2>1
    <3> QED BY <3>1, <3>2
  <2>4. ASSUME NEW p \in 1..Size
        PROVE  \/ array'[p] = <<"java", p, 0>>
               \/ \E k \in Frames : p - request.frames[k].offset \in 1..Came(k)'
    BY <1>1, <1>5, <2>1
  <2> QED BY <1>1, <1>4, <2>1, <2>2, <2>3, <2>4 DEF ArrayGetsWhatCame
<1>9. FailureIsReported'
  <2> SUFFICES ASSUME request.type # Complex
               PROVE  /\ irps'[1].error = arrived[1].failed
                      /\ \/ request.accept \/ request.type = "isochronous" \/ irps'[1].error
                         \/ ~request.in \/ irps'[1].actual = request.frames[1].length
    <3>1. arrived[1].failed \in BOOLEAN
      BY <1>3, <1>4
    <3>2. (arrived = <<>> \/ arrived[1].failed) = arrived[1].failed
      BY <3>1, <1>4
    <3> QED BY <3>2, <1>1 DEF FailureIsReported
  <2>1. irps'[1].error = ErrorOf(1) /\ irps'[1].actual = arrived[1].actual
    BY <1>1, <1>4, <1>5
  <2>2. CASE request.type = "isochronous"
    BY <2>1, <2>2 DEF ErrorOf
  <2>3. CASE request.type \in Single
    <3>1. ErrorOf(1) = failed
      BY <2>3 DEF ErrorOf, Single, Complex
    <3>2. Asked[1] = request.frames[1].length
      BY <1>2, <1>4, PartShape
    <3> QED BY <2>1, <2>3, <3>1, <3>2, <1>3 DEF MustBeFull
  <2> QED BY <2>2, <2>3, <1>2, RequestShape
<1> QED BY <1>1, <1>7, <1>8, <1>9 DEF TransfersInv, UntouchedInv, FlagsInv, BufferInv, ArrivedInv

-----------------------------------------------------------------------------
(* Memory.  And everything together.                                       *)

\* Allocating what a transfer does not own yet, and freeing what it owns, keeps
\* the account of the heap.
LEMMA AllocExact ==
    ASSUME HeapInv, NEW S \in SUBSET Kinds, S \cap Owned = {},
           Alloc(S), Owned' = Owned \cup S
    PROVE  HeapInv'
<1>1. \A x \in Kinds : Count(x, Owned) + Count(x, S) = Count(x, Owned')
    BY DEF Count
<1>2. heap' = [x \in Kinds |-> Count(x, Owned) + Count(x, S)]
    BY DEF Alloc, HeapInv
<1> QED BY <1>1, <1>2 DEF HeapInv, Count

LEMMA FreeExact ==
    ASSUME HeapInv, NEW S, S \subseteq Owned, Free(S), Owned' = Owned \ S
    PROVE  HeapInv'
<1>1. \A x \in Kinds : Count(x, Owned) - Count(x, S) = Count(x, Owned')
    BY DEF Count
<1>2. heap' = [x \in Kinds |-> Count(x, Owned) - Count(x, S)]
    BY DEF Free, HeapInv
<1> QED BY <1>1, <1>2 DEF HeapInv, Count

LEMMA HeapInit == Init => HeapInv
BY DEF Init, HeapInv, Kinds, Owned, Count

LEMMA HeapStep == HeapInv /\ [Next]_vars => HeapInv'
<1> SUFFICES ASSUME HeapInv, [Next]_vars PROVE HeapInv'
    OBVIOUS
<1>1. CASE NextRequest
    <2> DEFINE S == IF request'.type = Complex THEN {} ELSE {"reference"}
    <2>1. phase \in {"idle", "over"} /\ phase' = "new" /\ Alloc(S)
        BY <1>1 DEF NextRequest
    <2>2. S \in SUBSET Kinds /\ S \cap Owned = {} /\ Owned' = Owned \cup S
        BY <2>1 DEF Owned, Kinds
    <2> QED BY <2>1, <2>2, AllocExact
<1>2. CASE AllocateUrb
    <2>1. phase = "new" /\ phase' = "urb" /\ Alloc({"urb"}) /\ request' = request
        BY <1>2 DEF AllocateUrb
    <2>2. {"urb"} \in SUBSET Kinds /\ {"urb"} \cap Owned = {} /\ Owned' = Owned \cup {"urb"}
        BY <2>1 DEF Owned, Kinds
    <2> QED BY <2>1, <2>2, AllocExact
<1>3. CASE FillUrb
    <2> DEFINE S == {"buffer"} \cup (IF request.type = Complex THEN {"reference"} ELSE {})
    <2>1. phase = "urb" /\ phase' = "filled" /\ Alloc(S) /\ request' = request
        BY <1>3 DEF FillUrb
    <2>2. S \in SUBSET Kinds /\ S \cap Owned = {} /\ Owned' = Owned \cup S
        BY <2>1 DEF Owned, Kinds
    <2> QED BY <2>1, <2>2, AllocExact
<1>4. CASE Refuse
    <2>1. /\ phase \in {"new", "urb", "filled"}
          /\ phase' = "over" /\ Free(HeldAt(phase))
        BY <1>4 DEF Refuse
    <2>2. HeldAt(phase) = Owned /\ Owned' = {}
        BY <2>1 DEF HeldAt, Owned
    <2> QED BY <2>1, <2>2, FreeExact
<1>5. CASE CompleteUrb
    <2>1. phase = "finished" /\ phase' = "over" /\ Free({"urb", "buffer", "reference"})
        BY <1>5 DEF CompleteUrb
    <2>2. Owned = {"urb", "buffer", "reference"} /\ Owned' = {}
        BY <2>1 DEF Owned
    <2> QED BY <2>1, <2>2, FreeExact
<1>6. CASE SubmitUrb \/ CancelUrb \/ FinishUrb \/ UNCHANGED vars
    <2>1. heap' = heap /\ request' = request
        BY <1>6 DEF SubmitUrb, CancelUrb, FinishUrb, vars
    <2>2. \/ phase' = phase
          \/ /\ phase \in {"filled", "submitted", "unlinked"}
             /\ phase' \in {"submitted", "unlinked", "finished"}
        BY <1>6 DEF SubmitUrb, CancelUrb, FinishUrb, vars
    <2>3. Owned' = Owned
        BY <2>1, <2>2 DEF Owned
    <2> QED BY <2>1, <2>3 DEF HeapInv, Count
<1> QED BY <1>1, <1>2, <1>3, <1>4, <1>5, <1>6 DEF Next

LEMMA TransfersStep ==
    ASSUME TransfersInv, HeapInv, [Next]_vars PROVE TransfersInv'
<1>1. CASE UNCHANGED vars
  <2>1. /\ release' = release /\ request' = request /\ phase' = phase /\ array' = array
        /\ urb' = urb /\ heap' = heap /\ arrived' = arrived /\ failed' = failed /\ irps' = irps
    BY <1>1 DEF vars
  <2>2. /\ N' = N /\ Base' = Base /\ Asked' = Asked /\ Frames' = Frames /\ MustBeFull' = MustBeFull
        /\ \A k : Begin(k)' = Begin(k) /\ Part(k)' = Part(k)
    BY <2>1, SameRequest
  <2>3. TypeOK' /\ UntouchedInv' /\ FlagsInv'
    BY <2>1, <2>2 DEF TransfersInv, TypeOK, UntouchedInv, FlagsInv, Fresh, Frames
  <2>4. BufferInv' /\ ArrivedInv'
    BY <2>1, <2>2 DEF TransfersInv, BufferInv, ArrivedInv, Byte
  <2>5. ArrayGetsWhatCame' /\ FailureIsReported'
    <3>1. \A k : Came(k)' = Came(k)
      BY <2>1 DEF Came
    <3> QED BY <2>1, <2>2, <3>1 DEF TransfersInv, ArrayGetsWhatCame, FailureIsReported
  <2> QED BY <2>3, <2>4, <2>5 DEF TransfersInv
<1> QED BY <1>1, NextRequestKeeps, AllocateUrbKeeps, FillUrbKeeps, OnlyPhase, RefuseKeeps,
           FinishUrbKeeps, CompleteUrbKeeps DEF Next

LEMMA AlwaysTransfersInv == Spec => [](TransfersInv /\ HeapInv)
<1>1. Init => TransfersInv /\ HeapInv
  BY TransfersInit, HeapInit
<1>2. TransfersInv /\ HeapInv /\ [Next]_vars => (TransfersInv /\ HeapInv)'
  BY TransfersStep, HeapStep
<1> QED BY <1>1, <1>2, PTL DEF Spec

\* For any array, IRPs and kernel release: every variable has a value of its
\* kind, the bytes of the array and the buffer among them.
THEOREM TransferTypes == Spec => []TypeOK
<1>1. TransfersInv => TypeOK
  BY DEF TransfersInv
<1> QED BY <1>1, AlwaysTransfersInv, PTL

\* For any array, IRPs and kernel release: the kernel finds in the URB, packet
\* by packet, the bytes each IRP gave, and the setup packet before them.
THEOREM KernelFindsTheBytes == Spec => []DeviceGetsWhatWasGiven
<1>1. TransfersInv => DeviceGetsWhatWasGiven
  BY GivenImplied DEF TransfersInv
<1> QED BY <1>1, AlwaysTransfersInv, PTL

\* For any array, IRPs, kernel release and answer of the kernel: each IRP gets
\* the bytes of its own packet in its own part of the array, and nothing else
\* of the array changes.
THEOREM BytesComeHome == Spec => []ArrayGetsWhatCame
<1>1. TransfersInv => ArrayGetsWhatCame
  BY DEF TransfersInv
<1> QED BY <1>1, AlwaysTransfersInv, PTL

\* For any array, IRP, kernel release and answer of the kernel: the IRP of a
\* pipe request has an error exactly when its transfer failed, and when it came
\* short though that was not accepted.
THEOREM ErrorsAreReported == Spec => []FailureIsReported
<1>1. TransfersInv => FailureIsReported
  BY DEF TransfersInv
<1> QED BY <1>1, AlwaysTransfersInv, PTL

LEMMA HeapInvImplies == HeapInv => NothingLeaks
BY DEF HeapInv, NothingLeaks, Owned, Kinds, Count

\* For any array, IRPs and kernel release: the URB, its buffer and the global
\* reference are allocated while the kernel may use them, and freed exactly once.
THEOREM MemoryBalanced == Spec => []NothingLeaks
<1>1. Spec => []HeapInv
    BY HeapInit, HeapStep, PTL DEF Spec
<1> QED BY <1>1, HeapInvImplies, PTL
=============================================================================

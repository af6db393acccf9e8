----------------------------- MODULE PackageStream -----------------------------
(***************************************************************************)
(* Packages over TCP.  A package is a header, which holds the length of    *)
(* the body, and the body; a socket takes and gives bytes, cut anywhere.   *)
(* One direction of one connection is modelled: send on a nonblocking      *)
(* socket (Channel::SendData, NetEventClient::Send), whose result nobody   *)
(* looks at, the bytes on their way, and one of two readers:               *)
(*   "cpp"      Channel::DoRead and NetEventClient::readcb, which differ   *)
(*              only in how much they read at a time;                      *)
(*   "capsule"  GetSeatNumResponseMsg of the capsule (C#), which waits for *)
(*              the seat number and skips whatever else arrives.           *)
(* Both keep what they have read in a buffer of which they consume the     *)
(* front (DynamicBuffer, MessageBuffer).                                   *)
(*                                                                         *)
(* A byte is <<package, position>>: what a reader finds in the right place *)
(* is a header or a body, and anything else is noise.  Lengths are scaled  *)
(* down.                                                                   *)
(***************************************************************************)
EXTENDS Integers, Sequences, FiniteSets

CONSTANTS HeaderLen,    \* header_length
          MaxBody,      \* max_body_length
          UserInfoLen,  \* sizeof(UserInfo), the body of the capsule's answer
          ReadMax,      \* bytes that a reader takes at a time
          BuffLen,      \* m_buff_len, m_Capacities
          SockMax,      \* bytes that the connection holds
          MaxPackages   \* bound on the packages sent

ASSUME LengthsAssumption ==
    /\ {MaxBody, BuffLen, MaxPackages} \subseteq Nat
    /\ HeaderLen \in Nat \ {0} /\ ReadMax \in Nat \ {0}
    /\ UserInfoLen \in 0..MaxBody
    /\ SockMax \in Nat /\ SockMax >= HeaderLen + MaxBody

VARIABLES
    reader,          \* which of the two readers
    packages,        \* those of which the socket took at least a byte
    cut,             \* those it did not take as a whole
    wire,            \* bytes on their way
    m_StreamBuffer,  \* what the reader has read and not thrown away
    m_offset,        \* how much of that it has consumed
    pc,              \* of the reader
    out              \* the packages handed to the application, as bytes

sendVars == <<packages, cut>>
bufVars == <<m_StreamBuffer, m_offset>>
vars == <<reader, sendVars, wire, bufVars, pc, out>>

Package == [len : 0..MaxBody, answer : BOOLEAN]

\* The bytes of a package, as they were sent.
Bytes(i) == [j \in 1..(HeaderLen + packages[i].len) |-> <<i, j>>]

Init ==
    /\ reader \in {"cpp", "capsule"}
    /\ packages = <<>>
    /\ cut = {}
    /\ wire = <<>>
    /\ m_StreamBuffer = <<>>
    /\ m_offset = 0
    /\ pc = "idle"
    /\ out = <<>>
-----------------------------------------------------------------------------

\* send on a nonblocking socket takes what there is room for; without any room
\* it fails, and the package might as well not have been sent.
Send(package) ==
    LET size == HeaderLen + package.len
        room == SockMax - Len(wire)
        new == Len(packages) + 1
    IN  /\ new <= MaxPackages
        /\ package.answer => /\ reader = "capsule" /\ package.len = UserInfoLen
                             /\ \A i \in DOMAIN packages : ~packages[i].answer
        /\ \E n \in 1..room :
             /\ n = size \/ (n < size /\ room < size)
             /\ wire' = wire \o [j \in 1..n |-> <<new, j>>]
             /\ cut' = IF n < size THEN cut \union {new} ELSE cut
        /\ packages' = Append(packages, package)
        /\ UNCHANGED <<reader, bufVars, pc, out>>

\* DoRead, readcb, Receive: some of the bytes that are there; then Push.
Read ==
    /\ pc = "idle"
    /\ \E n \in 1..ReadMax :
         /\ n <= Len(wire)
         /\ m_StreamBuffer' = m_StreamBuffer \o SubSeq(wire, 1, n)
         /\ wire' = SubSeq(wire, n + 1, Len(wire))
    /\ pc' = "reading"
    /\ UNCHANGED <<reader, sendVars, m_offset, out>>
-----------------------------------------------------------------------------
(* The buffer                                                              *)

Size == Len(m_StreamBuffer) - m_offset

\* n bytes, after k that are not consumed either.
Peek(k, n) == SubSeq(m_StreamBuffer, m_offset + k + 1, m_offset + k + n)

\* What if Pop never threw anything away, or did so before it consumed?
Pop_Keeps(n) == m_offset' = m_offset + n /\ UNCHANGED m_StreamBuffer
Pop_EraseFirst(n) ==
    \/ /\ m_offset + n <= BuffLen
       /\ m_offset' = m_offset + n
       /\ UNCHANGED m_StreamBuffer
    \/ /\ m_offset + n > BuffLen
       /\ m_StreamBuffer' = SubSeq(m_StreamBuffer, m_offset + 1, Len(m_StreamBuffer))
       /\ m_offset' = 0

\* Pop: consume n bytes, and throw away all that is consumed once that is a lot.
Pop(n) ==
    \/ /\ m_offset + n <= BuffLen
       /\ m_offset' = m_offset + n
       /\ UNCHANGED m_StreamBuffer
    \/ /\ m_offset + n > BuffLen
       /\ m_StreamBuffer' = SubSeq(m_StreamBuffer, m_offset + n + 1, Len(m_StreamBuffer))
       /\ m_offset' = 0

\* There is a header, which is noise when its bytes are not those of one header.
First == m_StreamBuffer[m_offset + 1][1]
HasHeader == Size >= HeaderLen
Intact == Peek(0, HeaderLen) = [j \in 1..HeaderLen |-> <<First, j>>]
Length == packages[First].len

\* The loop of a reader ends, or goes on with noise for a length.
Returns(where) == pc' = where /\ UNCHANGED <<reader, sendVars, wire, bufVars, out>>
WaitsForHeader == pc = "reading" /\ ~HasHeader /\ Returns("idle")
Desynchronised == pc = "reading" /\ HasHeader /\ ~Intact /\ Returns("lost")
-----------------------------------------------------------------------------
(* Channel::ReadPackage and NetEventClient::read_pack                      *)

\* The package whose header is there is there with its body.
Whole == Size >= HeaderLen + Length

NextHeader == pc = "reading" /\ reader = "cpp" /\ HasHeader /\ Intact

\* What if a read were good for one package only?
ReadPackage_Once ==
    /\ NextHeader /\ Whole
    /\ out' = Append(out, Peek(0, HeaderLen + Length))
    /\ Pop(HeaderLen + Length)
    /\ pc' = "idle"
    /\ UNCHANGED <<reader, sendVars, wire>>

\* One turn of the loop: copy the package, push it, pop it.
ReadPackage ==
    /\ NextHeader /\ Whole
    /\ out' = Append(out, Peek(0, HeaderLen + Length))
    /\ Pop(HeaderLen + Length)
    /\ UNCHANGED <<reader, sendVars, wire, pc>>

WaitsForBody == NextHeader /\ ~Whole /\ Returns("idle")
-----------------------------------------------------------------------------
(* GetSeatNumResponseMsg of the capsule                                    *)

CapsuleHeader == pc = "reading" /\ reader = "capsule" /\ HasHeader /\ Intact

\* RemoveRange of more than there is, and FromBuf of too short a body, throw.
Throws(n) == m_offset + n > BuffLen /\ n > Size

\* What if only the header of another message were skipped?
SkipOther_HeaderOnly ==
    /\ CapsuleHeader /\ ~packages[First].answer
    /\ Pop(HeaderLen)
    /\ UNCHANGED <<reader, sendVars, wire, pc, out>>

\* Another message is skipped, whether its body is there or not: then Size() is
\* negative until it is.
SkipOther ==
    /\ CapsuleHeader /\ ~packages[First].answer
    /\ IF Throws(HeaderLen + Length) THEN Returns("threw")
       ELSE /\ Pop(HeaderLen + Length)
            /\ UNCHANGED <<reader, sendVars, wire, pc, out>>

\* The answer: its header is popped, and then its body had better be there.
\* The capsule does not read on.
TakeAnswer ==
    /\ CapsuleHeader /\ packages[First].answer
    /\ IF Size < HeaderLen + UserInfoLen THEN Returns("threw")
       ELSE /\ out' = <<Peek(HeaderLen, UserInfoLen)>>
            /\ Pop(HeaderLen + Length)
            /\ pc' = "done"
            /\ UNCHANGED <<reader, sendVars, wire>>
-----------------------------------------------------------------------------

ReaderStep ==
    \/ Read
    \/ WaitsForHeader \/ Desynchronised
    \/ ReadPackage \/ WaitsForBody
    \/ SkipOther \/ TakeAnswer

Next ==
    \/ \E package \in Package : Send(package)
    \/ ReaderStep

\* Bytes on their way arrive in the end, and the reader's callback ends.
Spec == Init /\ [][Next]_vars
FairSpec == Spec /\ WF_vars(ReaderStep)
-----------------------------------------------------------------------------

\* However the bytes are cut and however several packages arrive at once, the
\* application gets exactly the packages that were sent, in their order, up to
\* the first one that a full socket has cut; the capsule takes no other bytes
\* for its answer than those of the UserInfo sent to it.
OutAsSent ==
    \A k \in DOMAIN out : (\A i \in cut : k < i) =>
        IF reader = "cpp" THEN k <= Len(packages) /\ out[k] = Bytes(k)
        ELSE cut # {} \/ \E i \in DOMAIN packages :
                /\ packages[i].answer
                /\ out[k] = SubSeq(Bytes(i), HeaderLen + 1, HeaderLen + UserInfoLen)

\* A reader finds a header where it looks for one, the capsule too, which skips
\* bodies that have not arrived yet; and the capsule only fails when bytes of
\* what it reads are still on their way.
StaysInSync ==
    cut = {} => pc # "lost" /\ (pc = "threw" => wire # <<>>)

\* The buffer does not grow with what has been consumed: at most BuffLen of it
\* is kept, before an unfinished package and one read.
BufferBounded ==
    Len(m_StreamBuffer) < BuffLen + HeaderLen + MaxBody + ReadMax

\* Every package that was sent is handed over, without waiting for the next
\* one, and the capsule gets its answer or fails, unless a package is cut.
AllArrive ==
    /\ \A i \in 1..MaxPackages :
         (reader = "cpp" /\ Len(packages) >= i) ~> (Len(out) >= i \/ cut # {})
    /\ (reader = "capsule" /\ \E i \in DOMAIN packages : packages[i].answer)
         ~> (pc \in {"done", "threw"} \/ cut # {})
=============================================================================

------------------------- MODULE PackageStream_proofs -------------------------
(***************************************************************************)
(* For any lengths and any number of packages.                             *)
(*                                                                         *)
(* The buffer of a reader is bounded, because a reader only goes back to   *)
(* sleep with less than a package in its buffer (Unread), which in turn    *)
(* needs that every byte belongs to a package that was sent, whose length  *)
(* the reader looks up (Sent).                                             *)
(*                                                                         *)
(* What it hands over is what was sent, because what it has not read yet,  *)
(* in the buffer and then on the wire, is a run of whole packages in the   *)
(* order in which they were sent (Blocks) that starts where it stands      *)
(* (CppHead, CapsuleHead), up to the first package that was cut.           *)
(***************************************************************************)
EXTENDS PackageStream, SequenceTheorems, TLAPS

Sent(bytes) ==
    /\ bytes \in Seq(Nat \X Nat)
    /\ \A j \in 1..Len(bytes) : bytes[j][1] \in DOMAIN packages

Types ==
    /\ packages \in Seq(Package)
    /\ \A i \in DOMAIN packages : packages[i].answer => packages[i].len = UserInfoLen
    /\ Sent(wire)
    /\ Sent(m_StreamBuffer)
    /\ m_offset \in 0..BuffLen

Unread == Size < HeaderLen + MaxBody + IF pc = "idle" THEN 0 ELSE ReadMax

Inv == Types /\ Unread
-----------------------------------------------------------------------------
\* Where a reader looks for a header there is a byte, and it names a package.
LEMMA LengthType ==
    ASSUME Types, HasHeader
    PROVE  First \in DOMAIN packages /\ Length \in 0..MaxBody
<1>1. m_offset + 1 \in 1..Len(m_StreamBuffer)
  BY LengthsAssumption DEF Types, Sent, HasHeader, Size
<1>2. First \in DOMAIN packages
  BY <1>1 DEF Types, Sent, First
<1>3. packages[First] \in Package
  BY <1>2 DEF Types
<1> QED BY <1>2, <1>3 DEF Length, Package

\* Cutting bytes off, or putting bytes together, makes up no bytes.
LEMMA SentSubSeq ==
    ASSUME NEW bytes, Sent(bytes), NEW m \in Nat, NEW n \in Nat,
           1 <= m, n <= Len(bytes)
    PROVE  /\ Sent(SubSeq(bytes, m, n))
           /\ Len(SubSeq(bytes, m, n)) = IF m <= n THEN n - m + 1 ELSE 0
<1>1. \A i \in m..n : bytes[i] \in Nat \X Nat
  BY DEF Sent
<1>2. /\ SubSeq(bytes, m, n) \in Seq(Nat \X Nat)
      /\ Len(SubSeq(bytes, m, n)) = IF m <= n THEN n - m + 1 ELSE 0
      /\ \A i \in 1..(n - m + 1) : SubSeq(bytes, m, n)[i] = bytes[m + i - 1]
  BY <1>1, SubSeqProperties
<1>3. ASSUME NEW j \in 1..Len(SubSeq(bytes, m, n))
      PROVE  SubSeq(bytes, m, n)[j][1] \in DOMAIN packages
  <2>1. j \in 1..(n - m + 1) /\ m + j - 1 \in 1..Len(bytes)
    BY <1>2 DEF Sent
  <2> QED BY <1>2, <2>1 DEF Sent
<1> QED BY <1>2, <1>3 DEF Sent

LEMMA SentConcat ==
    ASSUME NEW a, NEW b, Sent(a), Sent(b)
    PROVE  Sent(a \o b) /\ Len(a \o b) = Len(a) + Len(b)
<1>1. /\ a \o b \in Seq(Nat \X Nat)
      /\ Len(a \o b) = Len(a) + Len(b)
      /\ \A i \in 1..(Len(a) + Len(b)) :
            (a \o b)[i] = IF i <= Len(a) THEN a[i] ELSE b[i - Len(a)]
  BY ConcatProperties DEF Sent
<1>2. ASSUME NEW j \in 1..Len(a \o b)
      PROVE  (a \o b)[j][1] \in DOMAIN packages
  <2>1. CASE j <= Len(a)
    BY <1>1, <2>1 DEF Sent
  <2>2. CASE j > Len(a)
    <3>1. j - Len(a) \in 1..Len(b) /\ (a \o b)[j] = b[j - Len(a)]
      BY <1>1, <2>2 DEF Sent
    <3> QED BY <3>1 DEF Sent
  <2> QED BY <2>1, <2>2 DEF Sent
<1> QED BY <1>1, <1>2 DEF Sent

\* Pop of what is there leaves that much less unread, whether it throws away or
\* not.
LEMMA PopUnread ==
    ASSUME Types, NEW n \in Nat, n <= Size \/ m_offset + n <= BuffLen, Pop(n),
           packages' = packages
    PROVE  Sent(m_StreamBuffer)' /\ m_offset' \in 0..BuffLen /\ Size' = Size - n
<1>1. CASE m_offset + n <= BuffLen
  <2>1. BuffLen \in Nat /\ m_offset \in 0..BuffLen /\ Len(m_StreamBuffer) \in Nat
    BY LengthsAssumption DEF Types, Sent
  <2>2. m_offset' = m_offset + n /\ m_StreamBuffer' = m_StreamBuffer
    BY <1>1, <2>1 DEF Pop
  <2>3. Sent(m_StreamBuffer)'
    BY <2>2 DEF Sent, Types
  <2>4. m_offset' \in 0..BuffLen
    BY <1>1, <2>1, <2>2
  <2>5. Size' = Size - n
    BY <2>1, <2>2 DEF Size
  <2> QED BY <2>3, <2>4, <2>5
<1>2. CASE m_offset + n > BuffLen
  <2> DEFINE rest == SubSeq(m_StreamBuffer, m_offset + n + 1, Len(m_StreamBuffer))
  <2>1. m_StreamBuffer' = rest /\ m_offset' = 0
    BY <1>2, LengthsAssumption DEF Pop, Types
  <2>2. /\ m_offset + n + 1 \in Nat /\ Len(m_StreamBuffer) \in Nat
        /\ m_offset \in Nat
    BY LengthsAssumption DEF Types, Sent
  <2>3. Sent(rest) /\ Len(rest) = Len(m_StreamBuffer) - m_offset - n
    BY <1>2, <2>2, SentSubSeq, LengthsAssumption DEF Types, Size
  <2>4. Sent(m_StreamBuffer)'
    BY <2>1, <2>3 DEF Sent
  <2> QED BY <2>1, <2>2, <2>3, <2>4, LengthsAssumption DEF Size
<1> QED BY <1>1, <1>2, LengthsAssumption DEF Types
-----------------------------------------------------------------------------
LEMMA InitInv == Init => Inv
<1> SUFFICES ASSUME Init PROVE Inv
  OBVIOUS
<1>1. Types
  BY LengthsAssumption DEF Init, Types, Sent
<1>2. Unread
  BY LengthsAssumption DEF Init, Unread, Size
<1> QED BY <1>1, <1>2 DEF Inv

\* A new package and its bytes.
LEMMA SendInv ==
    ASSUME Inv, NEW package \in Package, Send(package)
    PROVE  Inv'
<1> DEFINE new == Len(packages) + 1
<1>1. PICK n \in 1..(SockMax - Len(wire)) : wire' = wire \o [j \in 1..n |-> <<new, j>>]
  BY DEF Send
<1>2. /\ packages' = Append(packages, package)
      /\ package.answer => package.len = UserInfoLen
      /\ UNCHANGED <<m_StreamBuffer, m_offset, pc>>
  BY DEF Send, bufVars
<1>3. packages \in Seq(Package) /\ Len(packages) \in Nat
  BY DEF Inv, Types
<1>4. /\ packages' \in Seq(Package)
      /\ DOMAIN packages' = 1..new /\ DOMAIN packages = 1..Len(packages)
      /\ packages'[new] = package
      /\ \A i \in DOMAIN packages : packages'[i] = packages[i]
  BY <1>2, <1>3, AppendProperties
<1>5. \A i \in DOMAIN packages' : packages'[i].answer => packages'[i].len = UserInfoLen
  BY <1>2, <1>3, <1>4 DEF Inv, Types
<1>6. ASSUME NEW bytes, Sent(bytes)
      PROVE  /\ bytes \in Seq(Nat \X Nat)
             /\ \A j \in 1..Len(bytes) : bytes[j][1] \in 1..new
  BY <1>3, <1>4, <1>6 DEF Sent
<1>7. Sent(m_StreamBuffer)'
  BY <1>2, <1>4, <1>6 DEF Sent, Inv, Types
<1>8. Sent(wire)'
  <2> DEFINE bytes == [j \in 1..n |-> <<new, j>>]
  <2>1. n \in Nat /\ new \in Nat
    BY <1>3, LengthsAssumption DEF Inv, Types, Sent
  <2>2. bytes \in Seq(Nat \X Nat) /\ Len(bytes) = n
    BY <2>1
  <2>3. /\ wire \o bytes \in Seq(Nat \X Nat)
        /\ Len(wire \o bytes) = Len(wire) + n
        /\ \A i \in 1..(Len(wire) + n) :
             (wire \o bytes)[i] = IF i <= Len(wire) THEN wire[i] ELSE bytes[i - Len(wire)]
    BY <2>2, ConcatProperties DEF Inv, Types, Sent
  <2>4. ASSUME NEW i \in 1..(Len(wire) + n)
        PROVE  (wire \o bytes)[i][1] \in 1..new
    <3>1. CASE i <= Len(wire)
      BY <1>6, <2>3, <3>1, SMTT(30) DEF Inv, Types, Sent
    <3>2. CASE i > Len(wire)
      <4>1. i - Len(wire) \in 1..n
        BY <2>1, <3>2 DEF Inv, Types, Sent
      <4>2. (wire \o bytes)[i] = <<new, i - Len(wire)>>
        BY <2>3, <3>2, <4>1
      <4>3. new \in 1..new
        BY <1>3
      <4> HIDE DEF new, bytes
      <4> QED BY <4>2, <4>3
    <3> QED BY <3>1, <3>2 DEF Inv, Types, Sent
  <2> QED BY <1>1, <1>4, <2>3, <2>4 DEF Sent
<1>9. Types'
  BY <1>2, <1>4, <1>5, <1>7, <1>8 DEF Inv, Types
<1>10. Unread'
  BY <1>2 DEF Inv, Unread, Size
<1> QED BY <1>9, <1>10 DEF Inv

\* A read adds at most ReadMax bytes to less than a package.
LEMMA ReadInv ==
    ASSUME Inv, Read
    PROVE  Inv'
<1>1. PICK n \in 1..ReadMax :
        /\ n <= Len(wire)
        /\ m_StreamBuffer' = m_StreamBuffer \o SubSeq(wire, 1, n)
        /\ wire' = SubSeq(wire, n + 1, Len(wire))
  BY DEF Read
<1>2. /\ pc = "idle" /\ pc' = "reading"
      /\ UNCHANGED <<packages, m_offset>>
  BY DEF Read, sendVars
<1>3. n \in Nat /\ n + 1 \in Nat /\ Len(wire) \in Nat /\ Sent(wire) /\ Sent(m_StreamBuffer)
  BY LengthsAssumption DEF Inv, Types, Sent
<1>4. Sent(SubSeq(wire, 1, n)) /\ Len(SubSeq(wire, 1, n)) = n
  BY <1>1, <1>3, SentSubSeq
<1>5. Sent(SubSeq(wire, n + 1, Len(wire)))
  BY <1>1, <1>3, SentSubSeq
<1>6. /\ Sent(m_StreamBuffer \o SubSeq(wire, 1, n))
      /\ Len(m_StreamBuffer \o SubSeq(wire, 1, n)) = Len(m_StreamBuffer) + n
  BY <1>3, <1>4, SentConcat
<1>7. Types'
  BY <1>1, <1>2, <1>5, <1>6 DEF Inv, Types, Sent
<1>8. Unread'
  <2>1. /\ HeaderLen \in Nat /\ MaxBody \in Nat /\ ReadMax \in Nat
        /\ m_offset \in Int /\ Len(m_StreamBuffer) \in Nat
    BY LengthsAssumption DEF Inv, Types, Sent
  <2>2. Len(m_StreamBuffer) - m_offset < HeaderLen + MaxBody
    BY <1>2, <2>1 DEF Inv, Unread, Size
  <2>3. /\ Len(m_StreamBuffer') = Len(m_StreamBuffer) + n
        /\ m_offset' = m_offset
    BY <1>1, <1>2, <1>6
  <2>4. Len(m_StreamBuffer') - m_offset' < HeaderLen + MaxBody + ReadMax
    BY <1>3, <2>1, <2>2, <2>3
  <2> QED BY <1>2, <2>4 DEF Unread, Size
<1> QED BY <1>7, <1>8 DEF Inv

\* The loop of a reader only consumes, or stops with less than a package.
LEMMA LoopInv ==
    ASSUME Inv,
           \/ WaitsForHeader \/ Desynchronised
           \/ ReadPackage \/ WaitsForBody
           \/ SkipOther \/ TakeAnswer
    PROVE  Inv'
<1> USE LengthsAssumption
<1>1. ASSUME NEW where, Returns(where), pc = "reading",
             where = "idle" => Size < HeaderLen + MaxBody
      PROVE  Inv'
  <2>1. Types'
    BY <1>1 DEF Returns, sendVars, bufVars, Inv, Types, Sent
  <2>2. Unread'
    BY <1>1 DEF Returns, bufVars, Inv, Unread, Size
  <2> QED BY <2>1, <2>2 DEF Inv
<1>2. ASSUME NEW n \in Nat, n <= Size \/ m_offset + n <= BuffLen, Pop(n),
             UNCHANGED <<packages, wire>>, pc # "idle", pc' # "idle"
      PROVE  Inv'
  <2>1. Sent(m_StreamBuffer)' /\ m_offset' \in 0..BuffLen /\ Size' = Size - n
    BY <1>2, PopUnread DEF Inv
  <2>2. Types'
    BY <1>2, <2>1 DEF Inv, Types, Sent
  <2>3. Size \in Int
    BY DEF Inv, Types, Sent, Size
  <2>4. Unread'
    BY <1>2, <2>1, <2>3 DEF Inv, Unread
  <2> QED BY <2>2, <2>4 DEF Inv
<1>3. Size \in Int
  BY DEF Inv, Types, Sent, Size
<1>4. CASE WaitsForHeader
  BY <1>1, <1>3, <1>4 DEF WaitsForHeader, HasHeader
<1>5. CASE Desynchronised
  BY <1>1, <1>5 DEF Desynchronised
<1>6. CASE ReadPackage
  <2>1. Length \in 0..MaxBody
    BY <1>6, LengthType DEF ReadPackage, NextHeader, Inv
  <2>2. /\ HeaderLen + Length \in Nat /\ HeaderLen + Length <= Size
        /\ Pop(HeaderLen + Length) /\ pc = "reading"
        /\ UNCHANGED <<packages, wire, pc>>
    BY <1>6, <2>1 DEF ReadPackage, NextHeader, Whole, sendVars
  <2> QED BY <1>2, <2>2
<1>7. CASE WaitsForBody
  <2>1. Length \in 0..MaxBody
    BY <1>7, LengthType DEF WaitsForBody, NextHeader, Inv
  <2>2. Size < HeaderLen + MaxBody
    BY <1>3, <1>7, <2>1 DEF WaitsForBody, Whole
  <2> QED BY <1>1, <1>7, <2>2 DEF WaitsForBody, NextHeader
<1>8. CASE SkipOther
  <2>1. CASE Throws(HeaderLen + Length)
    BY <1>1, <1>8, <2>1 DEF SkipOther, CapsuleHeader
  <2>2. CASE ~Throws(HeaderLen + Length)
    <3>1. Length \in 0..MaxBody
      BY <1>8, LengthType DEF SkipOther, CapsuleHeader, Inv
    <3>2. /\ HeaderLen + Length \in Nat
          /\ HeaderLen + Length <= Size \/ m_offset + (HeaderLen + Length) <= BuffLen
      BY <1>3, <2>2, <3>1, SMTT(30) DEF Throws, Inv, Types
    <3>3. /\ Pop(HeaderLen + Length) /\ pc = "reading"
          /\ UNCHANGED <<packages, wire, pc>>
      BY <1>8, <2>2 DEF SkipOther, CapsuleHeader, sendVars
    <3> QED BY <1>2, <3>2, <3>3
  <2> QED BY <2>1, <2>2
<1>9. CASE TakeAnswer
  <2>1. CASE Size < HeaderLen + UserInfoLen
    BY <1>1, <1>9, <2>1 DEF TakeAnswer, CapsuleHeader
  <2>2. CASE ~(Size < HeaderLen + UserInfoLen)
    <3>1. First \in DOMAIN packages /\ packages[First].answer
      BY <1>9, LengthType DEF TakeAnswer, CapsuleHeader, Inv
    <3>2. Length = UserInfoLen
      BY <3>1 DEF Length, Inv, Types
    <3>3. HeaderLen + Length \in Nat /\ HeaderLen + Length <= Size
      BY <1>3, <2>2, <3>2
    <3>4. /\ Pop(HeaderLen + Length) /\ pc = "reading" /\ pc' = "done"
          /\ UNCHANGED <<packages, wire>>
      BY <1>9, <2>2 DEF TakeAnswer, CapsuleHeader, sendVars
    <3> QED BY <1>2, <3>3, <3>4
  <2> QED BY <2>1, <2>2
<1> QED BY <1>4, <1>5, <1>6, <1>7, <1>8, <1>9

LEMMA NextInv == Inv /\ [Next]_vars => Inv'
<1> SUFFICES ASSUME Inv, [Next]_vars PROVE Inv'
  OBVIOUS
<1>1. CASE UNCHANGED vars
  BY <1>1 DEF vars, sendVars, bufVars, Inv, Types, Sent, Unread, Size
<1>2. CASE \E package \in Package : Send(package)
  BY <1>2, SendInv
<1>3. CASE ReaderStep
  BY <1>3, ReadInv, LoopInv DEF ReaderStep
<1> QED BY <1>1, <1>2, <1>3 DEF Next

LEMMA InvBound == Inv => BufferBounded
<1> SUFFICES ASSUME Inv PROVE BufferBounded
  OBVIOUS
<1>1. /\ MaxBody \in Nat /\ BuffLen \in Nat /\ HeaderLen \in Nat
      /\ ReadMax \in Nat /\ ReadMax > 0
  BY LengthsAssumption
<1>2. m_offset \in 0..BuffLen /\ Len(m_StreamBuffer) \in Nat
  BY DEF Inv, Types, Sent
<1>3. Len(m_StreamBuffer) - m_offset < HeaderLen + MaxBody + ReadMax
  BY <1>1, <1>2 DEF Inv, Unread, Size
<1> QED BY <1>1, <1>2, <1>3 DEF BufferBounded

\* However much is received over a connection, its reader's buffer holds less
\* than BuffLen, one package and one read together.
THEOREM BufferStaysBounded == Spec => []BufferBounded
<1>1. Inv /\ [Next]_vars => Inv'
  BY NextInv
<1>2. Init => Inv
  BY InitInv
<1>3. Inv => BufferBounded
  BY InvBound
<1> QED BY <1>1, <1>2, <1>3, PTL DEF Spec
-----------------------------------------------------------------------------
(***************************************************************************)
(* What is handed over is what was sent.  The bytes that are not consumed, *)
(* those of the buffer and then those on their way, are one stream, of     *)
(* which byte j is At(j).  A package that was not cut is in it as one      *)
(* block, and the next one begins where it ends (Blocks); so a reader that *)
(* begins at the beginning of a package (CppHead, CapsuleHead) ends there. *)
(***************************************************************************)
Total(p) == HeaderLen + packages[p].len
RestLen == Size + Len(wire)
At(j) == IF m_offset + j <= Len(m_StreamBuffer) THEN m_StreamBuffer[m_offset + j]
         ELSE wire[m_offset + j - Len(m_StreamBuffer)]

StreamTypes ==
    /\ reader \in {"cpp", "capsule"}
    /\ cut \subseteq 1..Len(packages)
    /\ out \in Seq(Seq(Nat \X Nat))
    /\ reader = "capsule" /\ pc # "done" => out = <<>>

Blocks ==
    \A j \in 1..RestLen, p \in DOMAIN packages : At(j) = <<p, 1>> /\ p \notin cut =>
        /\ j + Total(p) - 1 <= RestLen
        /\ \A i \in 1..Total(p) : At(j + i - 1) = <<p, i>>
        /\ j + Total(p) <= RestLen => At(j + Total(p)) = <<p + 1, 1>>
        /\ j + Total(p) > RestLen => p = Len(packages)

\* The next package is the next to be handed over, as long as none was cut.
CppHead ==
    reader = "cpp" /\ (\A i \in cut : Len(out) < i) =>
        /\ RestLen >= 0
        /\ RestLen = 0 => Len(out) = Len(packages)
        /\ RestLen > 0 => At(1) = <<Len(out) + 1, 1>>

\* The capsule has no count; what it has popped may not have arrived yet.
CapsuleHead ==
    reader = "capsule" /\ cut = {} =>
        /\ RestLen >= 0
        /\ RestLen > 0 => \E p \in DOMAIN packages : At(1) = <<p, 1>>

OutInv ==
    /\ reader = "cpp" => \A k \in DOMAIN out : (\A i \in cut : k < i) =>
         k <= Len(packages) /\ out[k] = Bytes(k)
    /\ reader = "capsule" /\ cut = {} => \A k \in DOMAIN out :
         \E i \in DOMAIN packages :
            /\ packages[i].answer
            /\ out[k] = SubSeq(Bytes(i), HeaderLen + 1, HeaderLen + UserInfoLen)

Stream == StreamTypes /\ Blocks /\ CppHead /\ CapsuleHead /\ OutInv /\ StaysInSync

\* The numbers that the arguments below are about.
LEMMA Numbers ==
    ASSUME Types
    PROVE  /\ m_offset \in Nat /\ Len(m_StreamBuffer) \in Nat /\ Len(wire) \in Nat
           /\ Size = Len(m_StreamBuffer) - m_offset
           /\ RestLen = Len(m_StreamBuffer) - m_offset + Len(wire)
BY LengthsAssumption DEF Types, Sent, Size, RestLen

LEMMA Totals ==
    ASSUME Types
    PROVE  /\ Len(packages) \in Nat /\ DOMAIN packages = 1..Len(packages)
           /\ HeaderLen \in Nat \ {0} /\ UserInfoLen \in Nat
           /\ \A p \in DOMAIN packages : Total(p) \in Nat /\ Total(p) >= HeaderLen
<1>1. /\ Len(packages) \in Nat /\ DOMAIN packages = 1..Len(packages)
      /\ HeaderLen \in Nat \ {0} /\ UserInfoLen \in Nat
  BY LengthsAssumption DEF Types
<1>2. ASSUME NEW p \in DOMAIN packages
      PROVE  Total(p) \in Nat /\ Total(p) >= HeaderLen
  <2>1. packages[p] \in Package
    BY DEF Types
  <2>2. packages[p].len \in Nat
    BY <2>1, LengthsAssumption DEF Package
  <2> QED BY <1>1, <2>2 DEF Total
<1> QED BY <1>1, <1>2

\* Every byte of the stream belongs to a package.
LEMMA AtType ==
    ASSUME Types, NEW j \in 1..RestLen
    PROVE  At(j) \in Nat \X Nat /\ At(j)[1] \in DOMAIN packages
<1>0. /\ m_offset \in Nat /\ Len(m_StreamBuffer) \in Nat /\ Len(wire) \in Nat
      /\ Size = Len(m_StreamBuffer) - m_offset
      /\ RestLen = Len(m_StreamBuffer) - m_offset + Len(wire)
  BY Numbers
<1>1. CASE m_offset + j <= Len(m_StreamBuffer)
  <2>1. m_offset + j \in 1..Len(m_StreamBuffer)
    BY <1>0, <1>1
  <2> QED BY <1>1, <2>1 DEF At, Types, Sent
<1>2. CASE ~ (m_offset + j <= Len(m_StreamBuffer))
  <2>1. m_offset + j - Len(m_StreamBuffer) \in 1..Len(wire)
    BY <1>2, Numbers
  <2> QED BY <1>2, <2>1 DEF At, Types, Sent
<1> QED BY <1>1, <1>2

\* Pop moves the beginning of the stream.
LEMMA AtPop ==
    ASSUME Types, NEW n \in Nat, n <= Size \/ m_offset + n <= BuffLen, Pop(n),
           UNCHANGED <<packages, wire>>
    PROVE  /\ RestLen' = RestLen - n
           /\ \A j \in 1..RestLen : j + n <= RestLen => At(j)' = At(j + n)
           /\ Types'
<1>0. /\ m_offset \in Nat /\ Len(m_StreamBuffer) \in Nat /\ Len(wire) \in Nat
      /\ Size = Len(m_StreamBuffer) - m_offset
      /\ RestLen = Len(m_StreamBuffer) - m_offset + Len(wire)
  BY Numbers
<1>1. Sent(m_StreamBuffer)' /\ m_offset' \in 0..BuffLen /\ Size' = Size - n
  BY PopUnread
<1>2. Types'
  BY <1>1 DEF Types, Sent
<1>3. RestLen' = RestLen - n
  BY <1>0, <1>1 DEF RestLen
<1>4. ASSUME NEW j \in 1..RestLen, j + n <= RestLen
      PROVE  At(j)' = At(j + n)
  <2>1. CASE m_offset + n <= BuffLen
    <3>1. m_offset' = m_offset + n /\ m_StreamBuffer' = m_StreamBuffer
      BY <1>0, <2>1, LengthsAssumption DEF Pop
    <3>2. m_offset' + j = m_offset + (j + n)
      BY <1>0, <3>1
    <3>3. wire' = wire
      OBVIOUS
    <3>4. CASE m_offset' + j <= Len(m_StreamBuffer)
      <4>1. At(j)' = m_StreamBuffer[m_offset' + j]
        BY <3>1, <3>4 DEF At
      <4>2. At(j + n) = m_StreamBuffer[m_offset + (j + n)]
        BY <3>2, <3>4 DEF At
      <4> QED BY <3>2, <4>1, <4>2
    <3>5. CASE ~ (m_offset' + j <= Len(m_StreamBuffer))
      <4>1. At(j)' = wire[m_offset' + j - Len(m_StreamBuffer)]
        BY <3>1, <3>3, <3>5 DEF At
      <4>2. At(j + n) = wire[m_offset + (j + n) - Len(m_StreamBuffer)]
        BY <3>2, <3>5 DEF At
      <4> QED BY <1>0, <3>1, <3>2, <4>1, <4>2
    <3> QED BY <3>4, <3>5
  <2>2. CASE m_offset + n > BuffLen
    <3>1. /\ m_StreamBuffer' = SubSeq(m_StreamBuffer, m_offset + n + 1, Len(m_StreamBuffer))
          /\ m_offset' = 0 /\ n <= Size
      BY <1>0, <2>2, LengthsAssumption DEF Pop
    <3>2. \A i \in (m_offset + n + 1)..Len(m_StreamBuffer) : m_StreamBuffer[i] \in Nat \X Nat
      BY <1>0 DEF Types, Sent
    <3>3. /\ Len(m_StreamBuffer') = Len(m_StreamBuffer) - m_offset - n
          /\ \A i \in 1..(Len(m_StreamBuffer) - m_offset - n) :
               m_StreamBuffer'[i] = m_StreamBuffer[m_offset + n + i]
      <4> DEFINE a == m_offset + n + 1
      <4>1. a \in Nat /\ a <= Len(m_StreamBuffer) + 1
        BY <1>0, <3>1
      <4>2. /\ Len(m_StreamBuffer') = IF a <= Len(m_StreamBuffer)
                                        THEN Len(m_StreamBuffer) - a + 1 ELSE 0
            /\ \A i \in 1..(Len(m_StreamBuffer) - a + 1) :
                 m_StreamBuffer'[i] = m_StreamBuffer[a + i - 1]
        BY <3>1, <3>2, <4>1, SubSeqProperties
      <4> QED BY <1>0, <4>1, <4>2
    <3>4. m_offset' + j = j
      BY <3>1
    <3>5. CASE j <= Len(m_StreamBuffer) - m_offset - n
      <4>1. j \in 1..(Len(m_StreamBuffer) - m_offset - n) /\ j <= Len(m_StreamBuffer')
        BY <1>0, <3>3, <3>5
      <4>2. m_offset + (j + n) <= Len(m_StreamBuffer) /\ m_offset + (j + n) = m_offset + n + j
        BY <1>0, <3>5
      <4>3. At(j)' = m_StreamBuffer'[j]
        BY <3>4, <4>1 DEF At
      <4>4. At(j + n) = m_StreamBuffer[m_offset + (j + n)]
        BY <4>2 DEF At
      <4>5. m_StreamBuffer'[j] = m_StreamBuffer[m_offset + n + j]
        BY <3>3, <4>1
      <4> QED BY <4>2, <4>3, <4>4, <4>5
    <3>6. CASE j > Len(m_StreamBuffer) - m_offset - n
      <4>1. j - Len(m_StreamBuffer') = m_offset + (j + n) - Len(m_StreamBuffer)
        BY <1>0, <3>3
      <4>2. ~ (j <= Len(m_StreamBuffer')) /\ ~ (m_offset + (j + n) <= Len(m_StreamBuffer))
        BY <1>0, <3>3, <3>6
      <4>3. At(j)' = wire'[m_offset' + j - Len(m_StreamBuffer')]
        BY <3>4, <4>2 DEF At
      <4>4. At(j)' = wire'[j - Len(m_StreamBuffer')]
        <5>1. m_offset' = 0 /\ j \in Int /\ Len(m_StreamBuffer') \in Int
          BY <1>0, <3>1, <3>3
        <5> QED BY <4>3, <5>1
      <4>5. At(j + n) = wire[m_offset + (j + n) - Len(m_StreamBuffer)]
        BY <4>2 DEF At
      <4>6. wire' = wire
        OBVIOUS
      <4> QED BY <4>1, <4>4, <4>5, <4>6
    <3> QED BY <1>0, <3>5, <3>6
  <2> QED BY <1>0, <2>1, <2>2, LengthsAssumption, SMTT(30)
<1> QED BY <1>2, <1>3, <1>4

\* Read leaves the stream as it is.
LEMMA AtRead ==
    ASSUME Inv, Read
    PROVE  RestLen' = RestLen /\ \A j \in 1..RestLen : At(j)' = At(j)
<1>1. PICK n \in 1..ReadMax :
        /\ n <= Len(wire)
        /\ m_StreamBuffer' = m_StreamBuffer \o SubSeq(wire, 1, n)
        /\ wire' = SubSeq(wire, n + 1, Len(wire))
  BY DEF Read
<1>2. Types /\ m_offset' = m_offset
  BY DEF Inv, Read
<1>0. /\ m_offset \in Nat /\ Len(m_StreamBuffer) \in Nat /\ Len(wire) \in Nat
      /\ Size = Len(m_StreamBuffer) - m_offset
      /\ RestLen = Len(m_StreamBuffer) - m_offset + Len(wire)
  BY <1>2, Numbers
<1>3. n \in Nat \ {0} /\ n + 1 \in Nat
  BY LengthsAssumption
<1>4. wire \in Seq(Nat \X Nat) /\ m_StreamBuffer \in Seq(Nat \X Nat)
  BY <1>2 DEF Types, Sent
<1>5. /\ SubSeq(wire, 1, n) \in Seq(Nat \X Nat)
      /\ Len(SubSeq(wire, 1, n)) = n
      /\ \A i \in 1..n : SubSeq(wire, 1, n)[i] = wire[i]
  <2>1. \A i \in 1..Len(wire) : wire[i] \in Nat \X Nat
    BY <1>4
  <2>2. \A i \in 1..n : i \in 1..Len(wire)
    BY <1>0, <1>1, <1>3
  <2>3. \A i \in 1..n : wire[i] \in Nat \X Nat
    BY <2>1, <2>2
  <2> QED BY <1>3, <2>3, SubSeqProperties
<1>6. /\ Len(wire') = Len(wire) - n
      /\ \A i \in 1..(Len(wire) - n) : wire'[i] = wire[n + i]
  <2>1. \A i \in (n + 1)..Len(wire) : wire[i] \in Nat \X Nat
    BY <1>0, <1>2, <1>3 DEF Types, Sent
  <2>2. /\ Len(wire') = IF n + 1 <= Len(wire) THEN Len(wire) - (n + 1) + 1 ELSE 0
        /\ \A i \in 1..(Len(wire) - (n + 1) + 1) : wire'[i] = wire[n + 1 + i - 1]
    BY <1>0, <1>1, <1>2, <1>3, <2>1, SubSeqProperties
  <2> QED BY <1>0, <1>1, <1>2, <1>3, <2>2
<1>7. /\ Len(m_StreamBuffer') = Len(m_StreamBuffer) + n
      /\ \A i \in 1..(Len(m_StreamBuffer) + n) : m_StreamBuffer'[i] =
            IF i <= Len(m_StreamBuffer) THEN m_StreamBuffer[i]
            ELSE SubSeq(wire, 1, n)[i - Len(m_StreamBuffer)]
  BY <1>1, <1>4, <1>5, ConcatProperties
<1>8. RestLen' = RestLen
  BY <1>0, <1>2, <1>3, <1>6, <1>7 DEF RestLen, Size
<1>9. ASSUME NEW j \in 1..RestLen PROVE At(j)' = At(j)
  <2>1. CASE m_offset + j <= Len(m_StreamBuffer)
    <3>1. m_offset + j \in 1..(Len(m_StreamBuffer) + n)
      BY <1>0, <1>2, <1>3, <2>1
    <3>2. m_offset' + j <= Len(m_StreamBuffer')
      BY <1>0, <1>2, <1>3, <1>7, <2>1
    <3> QED BY <1>2, <1>7, <2>1, <3>1, <3>2 DEF At
  <2>2. CASE m_offset + j > Len(m_StreamBuffer) /\ m_offset + j <= Len(m_StreamBuffer) + n
    <3>1. /\ m_offset + j \in 1..(Len(m_StreamBuffer) + n)
          /\ m_offset + j - Len(m_StreamBuffer) \in 1..n
          /\ ~ (m_offset + j <= Len(m_StreamBuffer))
      BY <1>0, <1>2, <1>3, <2>2
    <3>2. m_StreamBuffer'[m_offset + j] = wire[m_offset + j - Len(m_StreamBuffer)]
      <4>0. PICK i \in 1..(Len(m_StreamBuffer) + n) : i = m_offset + j
        BY <3>1
      <4>1. m_StreamBuffer'[i] = SubSeq(wire, 1, n)[i - Len(m_StreamBuffer)]
        BY <1>7, <3>1, <4>0
      <4>2. SubSeq(wire, 1, n)[i - Len(m_StreamBuffer)] = wire[i - Len(m_StreamBuffer)]
        BY <1>0, <1>2, <1>3, <1>5, <3>1, <4>0
      <4>3. i - Len(m_StreamBuffer) = m_offset + j - Len(m_StreamBuffer)
        BY <1>0, <1>2, <4>0
      <4> QED BY <4>0, <4>1, <4>2, <4>3, Zenon
    <3> QED BY <1>2, <1>7, <2>2, <3>1, <3>2 DEF At
  <2>3. CASE m_offset + j > Len(m_StreamBuffer) + n
    <3>1. /\ m_offset + j - Len(m_StreamBuffer) - n \in 1..(Len(wire) - n)
          /\ ~ (m_offset + j <= Len(m_StreamBuffer))
          /\ ~ (m_offset' + j <= Len(m_StreamBuffer'))
          /\ m_offset' + j - Len(m_StreamBuffer') = m_offset + j - Len(m_StreamBuffer) - n
          /\ n + (m_offset + j - Len(m_StreamBuffer) - n) = m_offset + j - Len(m_StreamBuffer)
      BY <1>0, <1>2, <1>3, <1>7, <2>3
    <3> QED BY <1>6, <3>1 DEF At
  <2> QED BY <1>0, <1>2, <1>3, <2>1, <2>2, <2>3
<1> QED BY <1>8, <1>9

\* Send adds bytes of the new package to the end, all of them unless it is cut.
LEMMA AtSend ==
    ASSUME Inv, NEW package \in Package, Send(package)
    PROVE  \E n \in Nat \ {0} :
             /\ RestLen' = RestLen + n
             /\ \A j \in 1..RestLen : At(j)' = At(j)
             /\ \A j \in 1..(RestLen + n) : j > RestLen =>
                  At(j)' = <<Len(packages) + 1, j - RestLen>>
             /\ \/ n = HeaderLen + package.len /\ cut' = cut
                \/ cut' = cut \union {Len(packages) + 1}
             /\ wire' # <<>>
<1> DEFINE new == Len(packages) + 1
<1>1. PICK n \in 1..(SockMax - Len(wire)) :
        /\ n = HeaderLen + package.len \/ n < HeaderLen + package.len
        /\ wire' = wire \o [j \in 1..n |-> <<new, j>>]
        /\ cut' = IF n < HeaderLen + package.len THEN cut \union {new} ELSE cut
  BY DEF Send
<1>2. Types /\ UNCHANGED <<m_StreamBuffer, m_offset>>
  BY DEF Inv, Send, bufVars
<1>0. /\ m_offset \in Nat /\ Len(m_StreamBuffer) \in Nat /\ Len(wire) \in Nat
      /\ Size = Len(m_StreamBuffer) - m_offset
      /\ RestLen = Len(m_StreamBuffer) - m_offset + Len(wire)
  BY <1>2, Numbers
<1>3. n \in Nat \ {0} /\ new \in Nat
  BY <1>2, LengthsAssumption, Totals
<1>4. /\ Len(wire') = Len(wire) + n
      /\ \A i \in 1..(Len(wire) + n) :
           wire'[i] = IF i <= Len(wire) THEN wire[i] ELSE <<new, i - Len(wire)>>
  <2> DEFINE bytes == [j \in 1..n |-> <<new, j>>]
  <2>1. bytes \in Seq(Nat \X Nat) /\ Len(bytes) = n /\ \A j \in 1..n : bytes[j] = <<new, j>>
    BY <1>3
  <2>2. wire \in Seq(Nat \X Nat)
    BY <1>2 DEF Types, Sent
  <2>3. /\ Len(wire \o bytes) = Len(wire) + n
        /\ \A i \in 1..(Len(wire) + n) :
             (wire \o bytes)[i] = IF i <= Len(wire) THEN wire[i] ELSE bytes[i - Len(wire)]
    BY <2>1, <2>2, ConcatProperties
  <2>4. \A i \in 1..(Len(wire) + n) : ~ (i <= Len(wire)) => i - Len(wire) \in 1..n
    BY <1>0, <1>2, <1>3
  <2> HIDE DEF bytes
  <2>5. wire' = wire \o bytes
    BY <1>1 DEF bytes
  <2> QED BY <2>1, <2>3, <2>4, <2>5
<1>5. RestLen' = RestLen + n
  BY <1>0, <1>2, <1>3, <1>4 DEF RestLen, Size
<1>6. ASSUME NEW j \in 1..RestLen PROVE At(j)' = At(j)
  <2>1. CASE m_offset + j <= Len(m_StreamBuffer)
    BY <1>2, <2>1 DEF At
  <2>2. CASE ~ (m_offset + j <= Len(m_StreamBuffer))
    <3>1. /\ m_offset + j - Len(m_StreamBuffer) \in 1..(Len(wire) + n)
          /\ m_offset + j - Len(m_StreamBuffer) <= Len(wire)
      BY <1>0, <1>2, <1>3, <2>2
    <3> QED BY <1>2, <1>4, <2>2, <3>1 DEF At
  <2> QED BY <2>1, <2>2
<1>7. ASSUME NEW j \in 1..(RestLen + n), j > RestLen PROVE At(j)' = <<new, j - RestLen>>
  <2>1. /\ ~ (m_offset + j <= Len(m_StreamBuffer))
        /\ m_offset + j - Len(m_StreamBuffer) \in 1..(Len(wire) + n)
        /\ ~ (m_offset + j - Len(m_StreamBuffer) <= Len(wire))
        /\ m_offset + j - Len(m_StreamBuffer) - Len(wire) = j - RestLen
    BY <1>0, <1>2, <1>3, <1>7
  <2>2. At(j)' = wire'[m_offset + j - Len(m_StreamBuffer)]
    BY <1>2, <2>1 DEF At
  <2>3. wire'[m_offset + j - Len(m_StreamBuffer)]
          = <<new, m_offset + j - Len(m_StreamBuffer) - Len(wire)>>
    <3>1. PICK i \in 1..(Len(wire) + n) : i = m_offset + j - Len(m_StreamBuffer)
      BY <2>1
    <3>2. wire'[i] = <<new, i - Len(wire)>>
      BY <1>4, <2>1, <3>1
    <3> QED BY <1>0, <1>2, <1>3, <3>1, <3>2
  <2> QED BY <2>1, <2>2, <2>3
<1>8. \/ n = HeaderLen + package.len /\ cut' = cut
      \/ cut' = cut \union {new}
  <2>1. HeaderLen + package.len \in Nat
    BY LengthsAssumption DEF Package
  <2> QED BY <1>1, <1>3, <2>1
<1>9. wire' # <<>>
  <2>1. Len(wire') # 0
    BY <1>0, <1>2, <1>3, <1>4
  <2> QED BY <2>1, EmptySeq
<1> HIDE DEF new
<1> QED BY <1>3, <1>5, <1>6, <1>7, <1>8, <1>9 DEF new
-----------------------------------------------------------------------------
\* Pop leaves the blocks that are still there as they were.
LEMMA BlocksPop ==
    ASSUME Types, Blocks, NEW n \in Nat, n <= Size \/ m_offset + n <= BuffLen, Pop(n),
           UNCHANGED <<packages, wire, cut>>
    PROVE  Blocks'
<1>1. /\ RestLen' = RestLen - n /\ RestLen \in Int
      /\ \A j \in 1..RestLen : j + n <= RestLen => At(j)' = At(j + n)
  <2>1. UNCHANGED <<packages, wire>>
    OBVIOUS
  <2> QED BY <2>1, AtPop, Numbers
<1>2. \A p : Total(p)' = Total(p)
  BY DEF Total
<1>3. ASSUME NEW j \in 1..RestLen', NEW p \in DOMAIN packages, At(j)' = <<p, 1>>, p \notin cut
      PROVE  /\ j + Total(p) - 1 <= RestLen'
             /\ \A i \in 1..Total(p) : At(j + i - 1)' = <<p, i>>
             /\ j + Total(p) <= RestLen' => At(j + Total(p))' = <<p + 1, 1>>
             /\ j + Total(p) > RestLen' => p = Len(packages)
  <2>0. Total(p) \in Nat \ {0}
    BY Totals
  <2>1. PICK k \in 1..RestLen : k = j + n
    BY <1>1
  <2>2. At(k) = <<p, 1>>
    BY <1>1, <1>3, <2>1
  <2>3. /\ k + Total(p) - 1 <= RestLen
        /\ \A i \in 1..Total(p) : At(k + i - 1) = <<p, i>>
        /\ k + Total(p) <= RestLen => At(k + Total(p)) = <<p + 1, 1>>
        /\ k + Total(p) > RestLen => p = Len(packages)
    BY <1>3, <2>2 DEF Blocks
  <2>4. ASSUME NEW i \in 1..Total(p) PROVE At(j + i - 1)' = <<p, i>>
    <3>1. PICK m \in 1..RestLen : m = j + i - 1 /\ m + n <= RestLen /\ m + n = k + i - 1
      BY <1>1, <2>0, <2>1, <2>3
    <3>2. At(m)' = At(m + n) /\ At(k + i - 1) = <<p, i>>
      BY <1>1, <2>3, <3>1
    <3> QED BY <3>1, <3>2
  <2>5. ASSUME j + Total(p) <= RestLen' PROVE At(j + Total(p))' = <<p + 1, 1>>
    <3>1. PICK m \in 1..RestLen : m = j + Total(p) /\ m + n <= RestLen /\ m + n = k + Total(p)
      BY <1>1, <2>0, <2>1, <2>5
    <3>2. At(m)' = At(m + n) /\ At(k + Total(p)) = <<p + 1, 1>>
      BY <1>1, <2>3, <3>1
    <3> QED BY <1>2, <3>1, <3>2
  <2> QED BY <1>1, <2>0, <2>1, <2>3, <2>4, <2>5
<1> QED BY <1>2, <1>3 DEF Blocks

\* A reader that pops the package at the head is at the head of the next one.
LEMMA HeadPop ==
    ASSUME Types, Blocks, NEW p \in DOMAIN packages, RestLen > 0, At(1) = <<p, 1>>,
           p \notin cut, NEW n \in Nat, n = Total(p), n <= Size \/ m_offset + n <= BuffLen,
           Pop(n), UNCHANGED <<packages, wire>>
    PROVE  /\ RestLen' >= 0
           /\ RestLen' = 0 => p = Len(packages)
           /\ RestLen' > 0 => At(1)' = <<p + 1, 1>> /\ p + 1 \in DOMAIN packages
<1>1. /\ RestLen' = RestLen - n /\ RestLen \in Int
      /\ \A j \in 1..RestLen : j + n <= RestLen => At(j)' = At(j + n)
  BY AtPop, Numbers
<1>2. /\ 1 \in 1..RestLen /\ n \in Nat \ {0}
  BY <1>1, Totals
<1>3. /\ 1 + n - 1 <= RestLen
      /\ 1 + n <= RestLen => At(1 + n) = <<p + 1, 1>>
      /\ 1 + n > RestLen => p = Len(packages)
  BY <1>2 DEF Blocks
<1>4. ASSUME RestLen' > 0 PROVE At(1)' = <<p + 1, 1>> /\ p + 1 \in DOMAIN packages
  <2>1. 1 + n \in 1..RestLen
    BY <1>1, <1>2, <1>4
  <2>2. At(1)' = At(1 + n) /\ At(1 + n) = <<p + 1, 1>>
    BY <1>1, <1>2, <1>3, <2>1
  <2>3. At(1 + n)[1] \in DOMAIN packages
    BY <2>1, AtType
  <2> QED BY <2>2, <2>3
<1> QED BY <1>1, <1>2, <1>3, <1>4

\* Bytes that a reader peeks at are bytes of the stream.
LEMMA PeekAt ==
    ASSUME Types, NEW k \in Nat, NEW n \in Nat, k + n <= Size
    PROVE  /\ Peek(k, n) \in Seq(Nat \X Nat)
           /\ Len(Peek(k, n)) = n
           /\ \A i \in 1..n : Peek(k, n)[i] = At(k + i)
<1>0. /\ m_offset \in Nat /\ Len(m_StreamBuffer) \in Nat
      /\ Size = Len(m_StreamBuffer) - m_offset
  BY Numbers
<1>1. \A i \in (m_offset + k + 1)..(m_offset + k + n) : i \in 1..Len(m_StreamBuffer)
  BY <1>0
<1>2. \A i \in (m_offset + k + 1)..(m_offset + k + n) : m_StreamBuffer[i] \in Nat \X Nat
  BY <1>1 DEF Types, Sent
<1> DEFINE a == m_offset + k + 1
           b == m_offset + k + n
<1>3. a \in Nat /\ b \in Nat /\ b - a + 1 = n /\ (a <= b <=> n # 0)
  BY <1>0
<1>4. /\ SubSeq(m_StreamBuffer, a, b) \in Seq(Nat \X Nat)
      /\ Len(SubSeq(m_StreamBuffer, a, b)) = IF a <= b THEN b - a + 1 ELSE 0
      /\ \A i \in 1..(b - a + 1) : SubSeq(m_StreamBuffer, a, b)[i] = m_StreamBuffer[a + i - 1]
  <2>1. \A i \in a..b : m_StreamBuffer[i] \in Nat \X Nat
    BY <1>2
  <2> HIDE DEF a, b
  <2> QED BY <1>3, <2>1, SubSeqProperties
<1>5. Peek(k, n) = SubSeq(m_StreamBuffer, a, b)
  BY DEF Peek
<1>6. ASSUME NEW i \in 1..n PROVE m_StreamBuffer[a + i - 1] = At(k + i)
  <2>1. m_offset + (k + i) = a + i - 1 /\ m_offset + (k + i) <= Len(m_StreamBuffer)
    BY <1>0
  <2> QED BY <1>0, <2>1 DEF At
<1> HIDE DEF a, b
<1> QED BY <1>3, <1>4, <1>5, <1>6

\* What a reader finds that is at the head of a package that was not cut.
LEMMA Front ==
    ASSUME Types, Blocks, NEW p \in DOMAIN packages, At(1) = <<p, 1>>, p \notin cut,
           HasHeader
    PROVE  /\ RestLen > 0 /\ Total(p) <= RestLen
           /\ First = p /\ Length = packages[p].len /\ HeaderLen + Length = Total(p)
           /\ Intact
           /\ \A k, n \in Nat : k + n <= Size /\ k + n <= Total(p) =>
                Peek(k, n) = [j \in 1..n |-> <<p, k + j>>]
<1>0. /\ m_offset \in Nat /\ Len(m_StreamBuffer) \in Nat /\ Len(wire) \in Nat
      /\ Size = Len(m_StreamBuffer) - m_offset
      /\ RestLen = Len(m_StreamBuffer) - m_offset + Len(wire)
      /\ HeaderLen \in Nat \ {0} /\ Total(p) \in Nat /\ Total(p) >= HeaderLen
  BY Numbers, Totals
<1>1. RestLen > 0 /\ Size >= HeaderLen /\ 1 \in 1..RestLen
  BY <1>0 DEF HasHeader
<1>2. /\ 1 + Total(p) - 1 <= RestLen
      /\ \A i \in 1..Total(p) : At(1 + i - 1) = <<p, i>>
  BY <1>1 DEF Blocks
<1>3. \A i \in 1..Total(p) : At(i) = <<p, i>>
  BY <1>0, <1>2
<1>4. First = p
  <2>1. m_offset + 1 <= Len(m_StreamBuffer)
    BY <1>0, <1>1
  <2>2. At(1) = m_StreamBuffer[m_offset + 1]
    BY <2>1 DEF At
  <2> QED BY <2>2 DEF First
<1>5. Length = packages[p].len /\ HeaderLen + Length = Total(p)
  BY <1>4 DEF Length, Total
<1>6. ASSUME NEW k \in Nat, NEW n \in Nat, k + n <= Size, k + n <= Total(p)
      PROVE  Peek(k, n) = [j \in 1..n |-> <<p, k + j>>]
  <2>1. /\ Peek(k, n) \in Seq(Nat \X Nat)
        /\ Len(Peek(k, n)) = n
        /\ \A i \in 1..n : Peek(k, n)[i] = At(k + i)
    BY <1>6, PeekAt
  <2>2. \A i \in 1..n : k + i \in 1..Total(p)
    BY <1>0, <1>6
  <2>3. \A i \in 1..n : Peek(k, n)[i] = <<p, k + i>>
    BY <1>3, <2>1, <2>2
  <2>4. DOMAIN Peek(k, n) = 1..n /\ Peek(k, n) = [i \in DOMAIN Peek(k, n) |-> Peek(k, n)[i]]
    BY <2>1
  <2> QED BY <2>3, <2>4
<1>7. Intact
  <2>1. Peek(0, HeaderLen) = [j \in 1..HeaderLen |-> <<p, 0 + j>>]
    BY <1>0, <1>1, <1>6
  <2>2. [j \in 1..HeaderLen |-> <<p, 0 + j>>] = [j \in 1..HeaderLen |-> <<p, j>>]
    BY <1>0
  <2> QED BY <1>4, <2>1, <2>2 DEF Intact
<1> QED BY <1>0, <1>1, <1>2, <1>4, <1>5, <1>6, <1>7
-----------------------------------------------------------------------------
\* The body of a package is what follows its header.
LEMMA BytesBody ==
    ASSUME Types, NEW p \in DOMAIN packages, packages[p].len = UserInfoLen
    PROVE  SubSeq(Bytes(p), HeaderLen + 1, HeaderLen + UserInfoLen)
             = [j \in 1..UserInfoLen |-> <<p, HeaderLen + j>>]
<1> DEFINE a == HeaderLen + 1
           b == HeaderLen + UserInfoLen
           body == SubSeq(Bytes(p), a, b)
<1>1. HeaderLen \in Nat /\ UserInfoLen \in Nat /\ p \in Nat
  BY Totals
<1>2. \A i \in 1..b : Bytes(p)[i] = <<p, i>>
  BY DEF Bytes
<1>3. \A i \in a..b : i \in 1..b /\ <<p, i>> \in Nat \X Nat
  BY <1>1
<1>4. a \in Int /\ b \in Int /\ b - a + 1 = UserInfoLen /\ (a <= b <=> UserInfoLen # 0)
  BY <1>1
<1>5. /\ body \in Seq(Nat \X Nat)
      /\ Len(body) = IF a <= b THEN b - a + 1 ELSE 0
      /\ \A i \in 1..(b - a + 1) : body[i] = Bytes(p)[a + i - 1]
  <2>1. \A i \in a..b : Bytes(p)[i] \in Nat \X Nat
    BY <1>2, <1>3
  <2> HIDE DEF a, b
  <2> QED BY <1>4, <2>1, SubSeqProperties
<1>6. ASSUME NEW j \in 1..UserInfoLen PROVE body[j] = <<p, HeaderLen + j>>
  <2>1. a + j - 1 = HeaderLen + j /\ HeaderLen + j \in 1..b
    BY <1>1
  <2> HIDE DEF a, b, body
  <2> QED BY <1>2, <1>4, <1>5, <2>1
<1> HIDE DEF a, b, body
<1>7. Len(body) = UserInfoLen
  BY <1>1, <1>4, <1>5
<1>8. DOMAIN body = 1..UserInfoLen /\ body = [i \in DOMAIN body |-> body[i]]
  BY <1>5, <1>7
<1>9. body = [j \in 1..UserInfoLen |-> <<p, HeaderLen + j>>]
  BY <1>6, <1>8
<1> QED BY <1>9 DEF body, a, b

\* As long as nothing was cut, a reader that has a header is at the head of a
\* package.
LEMMA AtHead ==
    ASSUME Types, Stream, HasHeader
    PROVE  /\ RestLen > 0
           /\ reader = "cpp" /\ (\A i \in cut : Len(out) < i) =>
                At(1) = <<Len(out) + 1, 1>> /\ Len(out) + 1 \in DOMAIN packages
           /\ cut = {} => \E p \in DOMAIN packages : At(1) = <<p, 1>>
<1>1. RestLen > 0 /\ 1 \in 1..RestLen
  BY Numbers, Totals DEF HasHeader
<1>2. At(1)[1] \in DOMAIN packages
  BY <1>1, AtType
<1>3. reader = "cpp" /\ (\A i \in cut : Len(out) < i) =>
         At(1) = <<Len(out) + 1, 1>> /\ Len(out) + 1 \in DOMAIN packages
  BY <1>1, <1>2 DEF Stream, CppHead
<1>4. cut = {} => \E p \in DOMAIN packages : At(1) = <<p, 1>>
  BY <1>1, <1>3 DEF Stream, StreamTypes, CapsuleHead
<1> QED BY <1>1, <1>3, <1>4

\* Send: the new block ends the stream.
LEMMA SendStream ==
    ASSUME Inv, Inv', Stream, NEW package \in Package, Send(package)
    PROVE  Stream'
<1>0. /\ Types /\ Len(packages) \in Nat /\ DOMAIN packages = 1..Len(packages)
      /\ RestLen \in Int
      /\ \A p \in DOMAIN packages : Total(p) \in Nat /\ Total(p) >= HeaderLen
      /\ HeaderLen \in Nat \ {0}
  BY Numbers, Totals DEF Inv
<1>1. PICK n \in Nat \ {0} :
        /\ RestLen' = RestLen + n
        /\ \A j \in 1..RestLen : At(j)' = At(j)
        /\ \A j \in 1..(RestLen + n) : j > RestLen =>
             At(j)' = <<Len(packages) + 1, j - RestLen>>
        /\ \/ n = HeaderLen + package.len /\ cut' = cut
           \/ cut' = cut \union {Len(packages) + 1}
        /\ wire' # <<>>
  BY AtSend
<1>2. packages' = Append(packages, package) /\ UNCHANGED <<reader, pc, out>>
  BY DEF Send
<1>3. PICK new \in Nat : new = Len(packages) + 1
  BY <1>0
<1>4. /\ Len(packages') = new /\ DOMAIN packages' = 1..new
      /\ packages'[new] = package
      /\ \A p \in DOMAIN packages : packages'[p] = packages[p]
  BY <1>0, <1>2, <1>3, AppendProperties DEF Types
<1>5. /\ \A p \in DOMAIN packages : Total(p)' = Total(p)
      /\ Total(new)' = HeaderLen + package.len
  BY <1>4 DEF Total
<1>6. cut \subseteq cut' /\ new \notin cut /\ cut' \subseteq 1..new
  <2>1. cut \subseteq 1..Len(packages)
    BY DEF Stream, StreamTypes
  <2>2. new \notin 1..Len(packages) /\ new \in 1..new /\ 1..Len(packages) \subseteq 1..new
    BY <1>0, <1>3
  <2>3. cut' = cut \/ cut' = cut \union {new}
    BY <1>1, <1>3
  <2> QED BY <2>1, <2>2, <2>3
<1>7. StreamTypes'
  BY <1>2, <1>4, <1>6 DEF Stream, StreamTypes
<1>8. Blocks'
  <2> SUFFICES ASSUME NEW j \in 1..RestLen', NEW p \in DOMAIN packages',
                      At(j)' = <<p, 1>>, p \notin cut'
               PROVE  /\ j + Total(p)' - 1 <= RestLen'
                      /\ \A i \in 1..Total(p)' : At(j + i - 1)' = <<p, i>>
                      /\ j + Total(p)' <= RestLen' => At(j + Total(p))' = <<p + 1, 1>>
                      /\ j + Total(p)' > RestLen' => p = Len(packages')
    BY DEF Blocks
  <2>1. CASE j <= RestLen
    <3>1. j \in 1..RestLen /\ At(j) = <<p, 1>>
      BY <1>0, <1>1, <2>1
    <3>2. p \in DOMAIN packages /\ p \notin cut
      <4>1. At(j)[1] \in DOMAIN packages
        BY <1>0, <3>1, AtType
      <4>2. At(j)[1] = p
        BY <3>1
      <4> QED BY <1>6, <4>1, <4>2
    <3>3. /\ j + Total(p) - 1 <= RestLen
          /\ \A i \in 1..Total(p) : At(j + i - 1) = <<p, i>>
          /\ j + Total(p) <= RestLen => At(j + Total(p)) = <<p + 1, 1>>
          /\ j + Total(p) > RestLen => p = Len(packages)
      BY <3>1, <3>2 DEF Stream, Blocks
    <3>4. Total(p)' = Total(p) /\ Total(p) \in Nat \ {0}
      BY <1>0, <1>5, <3>2
    <3>5. ASSUME NEW i \in 1..Total(p) PROVE At(j + i - 1)' = <<p, i>>
      <4>1. j + i - 1 \in 1..RestLen
        BY <1>0, <3>1, <3>3, <3>4
      <4> QED BY <1>1, <3>3, <4>1
    <3>6. CASE j + Total(p) <= RestLen
      <4>1. PICK m \in 1..RestLen : m = j + Total(p)
        BY <1>0, <3>1, <3>4, <3>6
      <4>2. At(m)' = At(m)
        BY <1>1, <4>1
      <4>3. At(m) = <<p + 1, 1>>
        BY <3>3, <3>6, <4>1
      <4>4. j + Total(p)' = m
        BY <3>4, <4>1
      <4> QED BY <1>0, <1>1, <3>3, <3>4, <3>5, <3>6, <4>2, <4>3, <4>4
    <3>7. CASE j + Total(p) > RestLen
      <4>0. j + Total(p) = RestLen + 1 /\ RestLen + 1 \in 1..(RestLen + n)
        <5>1. j \in Int /\ Total(p) \in Int /\ RestLen \in Int /\ RestLen >= 1
          BY <1>0, <3>1, <3>4
        <5>2. j + Total(p) - 1 <= RestLen /\ j + Total(p) > RestLen
          BY <3>3, <3>7
        <5> QED BY <5>1, <5>2
      <4>1. PICK m \in 1..(RestLen + n) : m = j + Total(p) /\ m = RestLen + 1
        BY <4>0
      <4>2. At(m)' = <<new, m - RestLen>>
        BY <1>0, <1>1, <1>3, <4>1
      <4>3. m - RestLen = 1 /\ p + 1 = new
        BY <1>0, <1>3, <3>3, <3>7, <4>1
      <4>4. j + Total(p)' = m /\ ~ (m > RestLen')
        BY <1>0, <1>1, <3>4, <4>1
      <4> QED BY <1>0, <1>1, <3>3, <3>4, <3>5, <4>2, <4>3, <4>4
    <3> QED BY <1>0, <3>4, <3>6, <3>7
  <2>2. CASE j > RestLen
    <3>1. At(j)' = <<new, j - RestLen>>
      BY <1>1, <1>3, <2>2
    <3>2. p = new /\ j = RestLen + 1
      BY <1>0, <1>1, <3>1
    <3>3. n = Total(p)'
      BY <1>1, <1>3, <1>5, <3>2
    <3>4. ASSUME NEW i \in 1..n PROVE At(j + i - 1)' = <<p, i>>
      <4>1. PICK m \in 1..(RestLen + n) : m = j + i - 1 /\ m > RestLen /\ m - RestLen = i
        BY <1>0, <1>1, <3>2
      <4> QED BY <1>1, <1>3, <3>2, <4>1
    <3>5. /\ j + n - 1 <= RestLen' /\ ~ (j + n <= RestLen') /\ p = Len(packages')
      BY <1>0, <1>1, <1>4, <3>2
    <3> QED BY <3>3, <3>4, <3>5
  <2> QED BY <1>0, <1>1, <2>1, <2>2
<1>9. RestLen >= 0 => 1 \in 1..(RestLen + n)
  BY <1>0, <1>1
<1>10. RestLen = 0 => At(1)' = <<new, 1>>
  BY <1>0, <1>1, <1>3, <1>9
<1>11. RestLen > 0 => At(1)' = At(1)
  BY <1>0, <1>1
<1>12. CppHead'
  <2> SUFFICES ASSUME reader = "cpp", \A i \in cut' : Len(out) < i
               PROVE  RestLen' > 0 /\ At(1)' = <<Len(out) + 1, 1>>
    BY <1>0, <1>1, <1>2 DEF CppHead
  <2>1. /\ RestLen >= 0
        /\ RestLen = 0 => Len(out) = Len(packages)
        /\ RestLen > 0 => At(1) = <<Len(out) + 1, 1>>
    BY <1>6 DEF Stream, CppHead
  <2> QED BY <1>0, <1>1, <1>3, <1>10, <1>11, <2>1
<1>13. CapsuleHead'
  <2> SUFFICES ASSUME reader = "capsule", cut' = {}
               PROVE  RestLen' > 0 /\ \E p \in DOMAIN packages' : At(1)' = <<p, 1>>
    BY <1>0, <1>1, <1>2 DEF CapsuleHead
  <2>1. RestLen >= 0 /\ (RestLen > 0 => \E p \in DOMAIN packages : At(1) = <<p, 1>>)
    BY <1>6 DEF Stream, CapsuleHead
  <2>2. new \in DOMAIN packages' /\ DOMAIN packages \subseteq DOMAIN packages'
    BY <1>0, <1>3, <1>4
  <2> QED BY <1>0, <1>1, <1>10, <1>11, <2>1, <2>2
<1>14. OutInv'
  <2>1. \A p \in DOMAIN packages : Bytes(p)' = Bytes(p)
    BY <1>4 DEF Bytes
  <2>2. ASSUME reader = "cpp", NEW k \in DOMAIN out, \A i \in cut' : k < i
        PROVE  k <= Len(packages') /\ out[k] = Bytes(k)'
    <3>1. k <= Len(packages) /\ out[k] = Bytes(k)
      BY <1>6, <2>2 DEF Stream, OutInv
    <3>2. k \in DOMAIN packages
      BY <1>0, <3>1 DEF Stream, StreamTypes
    <3> QED BY <1>0, <1>3, <1>4, <2>1, <3>1, <3>2
  <2>3. ASSUME reader = "capsule", cut' = {}, NEW k \in DOMAIN out
        PROVE  \E i \in DOMAIN packages' :
                 /\ packages'[i].answer
                 /\ out[k] = SubSeq(Bytes(i)', HeaderLen + 1, HeaderLen + UserInfoLen)
    <3>1. PICK i \in DOMAIN packages :
            /\ packages[i].answer
            /\ out[k] = SubSeq(Bytes(i), HeaderLen + 1, HeaderLen + UserInfoLen)
      BY <1>6, <2>3 DEF Stream, OutInv
    <3>2. i \in DOMAIN packages' /\ packages'[i] = packages[i] /\ Bytes(i)' = Bytes(i)
      BY <1>0, <1>3, <1>4, <2>1
    <3> QED BY <3>1, <3>2
  <2> QED BY <1>2, <2>2, <2>3 DEF OutInv
<1>15. StaysInSync'
  BY <1>1, <1>2, <1>6 DEF Stream, StaysInSync
<1> QED BY <1>7, <1>8, <1>12, <1>13, <1>14, <1>15 DEF Stream

\* Read: the stream is what it was.
LEMMA ReadStream ==
    ASSUME Inv, Stream, Read
    PROVE  Stream'
<1>1. /\ RestLen' = RestLen /\ RestLen \in Int
      /\ \A j \in 1..RestLen : At(j)' = At(j)
  BY AtRead, Numbers DEF Inv
<1>2. /\ pc = "idle" /\ pc' = "reading"
      /\ UNCHANGED <<reader, packages, cut, out>>
  BY DEF Read, sendVars
<1>3. StreamTypes'
  BY <1>2 DEF Stream, StreamTypes
<1>4. Blocks'
  <2>0. \A p : Total(p)' = Total(p)
    BY <1>2 DEF Total
  <2> SUFFICES ASSUME NEW j \in 1..RestLen, NEW p \in DOMAIN packages,
                      At(j) = <<p, 1>>, p \notin cut
               PROVE  /\ j + Total(p) - 1 <= RestLen
                      /\ \A i \in 1..Total(p) : At(j + i - 1)' = <<p, i>>
                      /\ j + Total(p) <= RestLen => At(j + Total(p))' = <<p + 1, 1>>
                      /\ j + Total(p) > RestLen => p = Len(packages)
    BY <1>1, <1>2, <2>0 DEF Blocks
  <2>1. /\ j + Total(p) - 1 <= RestLen
        /\ \A i \in 1..Total(p) : At(j + i - 1) = <<p, i>>
        /\ j + Total(p) <= RestLen => At(j + Total(p)) = <<p + 1, 1>>
        /\ j + Total(p) > RestLen => p = Len(packages)
    BY DEF Stream, Blocks
  <2>2. Total(p) \in Nat
    BY Totals DEF Inv
  <2>3. ASSUME NEW i \in 1..Total(p) PROVE At(j + i - 1)' = <<p, i>>
    <3>1. j + i - 1 \in 1..RestLen
      BY <1>1, <2>1, <2>2
    <3> QED BY <1>1, <2>1, <3>1
  <2>4. ASSUME j + Total(p) <= RestLen PROVE At(j + Total(p))' = <<p + 1, 1>>
    <3>1. PICK m \in 1..RestLen : m = j + Total(p)
      BY <1>1, <2>2, <2>4
    <3> QED BY <1>1, <2>0, <2>1, <2>4, <3>1
  <2> QED BY <2>1, <2>3, <2>4
<1>5. RestLen > 0 => At(1)' = At(1)
  BY <1>1
<1>6. CppHead' /\ CapsuleHead'
  BY <1>1, <1>2, <1>5 DEF Stream, CppHead, CapsuleHead
<1>7. OutInv'
  <2>1. \A k : Bytes(k)' = Bytes(k)
    BY <1>2 DEF Bytes
  <2> QED BY <1>2, <2>1 DEF Stream, OutInv
<1>8. StaysInSync'
  BY <1>2 DEF Stream, StaysInSync
<1> QED BY <1>3, <1>4, <1>6, <1>7, <1>8 DEF Stream

\* A reader that stops is in step, and fails for want of bytes only.
LEMMA ReturnsStream ==
    ASSUME Types, Stream, NEW where, Returns(where), pc = "reading",
           cut = {} => where # "lost" /\ (where = "threw" => wire # <<>>)
    PROVE  Stream'
<1>1. pc' = where /\ UNCHANGED <<reader, packages, cut, wire, m_StreamBuffer, m_offset, out>>
  BY DEF Returns, sendVars, bufVars
<1>2. RestLen' = RestLen /\ (\A j : At(j)' = At(j)) /\ (\A p : Total(p)' = Total(p) /\ Bytes(p)' = Bytes(p))
  BY <1>1 DEF RestLen, Size, At, Total, Bytes
<1>3. StreamTypes'
  BY <1>1 DEF Stream, StreamTypes
<1>4. Blocks'
  <2>1. \A j, p : At(j + Total(p))' = At(j + Total(p))
    BY <1>2
  <2> QED BY <1>1, <1>2, <2>1 DEF Stream, Blocks
<1>5. CppHead' /\ CapsuleHead' /\ OutInv'
  BY <1>1, <1>2 DEF Stream, CppHead, CapsuleHead, OutInv
<1>6. StaysInSync'
  BY <1>1 DEF StaysInSync
<1> QED BY <1>3, <1>4, <1>5, <1>6 DEF Stream

\* ReadPackage: the package at the head is handed over.
LEMMA ReadPackageStream ==
    ASSUME Inv, Stream, ReadPackage
    PROVE  Stream'
<1> DEFINE pack == Peek(0, HeaderLen + Length)
<1>0. /\ Types /\ pc = "reading" /\ reader = "cpp" /\ HasHeader
      /\ Pop(HeaderLen + Length) /\ out' = Append(out, pack)
      /\ UNCHANGED <<reader, packages, cut, wire, pc>>
  BY DEF Inv, ReadPackage, NextHeader, sendVars
<1>1. /\ HeaderLen + Length \in Nat /\ HeaderLen + Length <= Size /\ Size \in Int
      /\ Len(packages) \in Nat /\ DOMAIN packages = 1..Len(packages)
  <2>1. Length \in Nat
    BY <1>0, LengthType, LengthsAssumption
  <2>2. HeaderLen \in Nat /\ Len(packages) \in Nat /\ DOMAIN packages = 1..Len(packages)
    BY <1>0, Totals
  <2>3. Size \in Int
    BY <1>0, Numbers
  <2> QED BY <2>1, <2>2, <2>3 DEF ReadPackage, Whole
<1>2. /\ pack \in Seq(Nat \X Nat) /\ out \in Seq(Seq(Nat \X Nat))
      /\ out' \in Seq(Seq(Nat \X Nat)) /\ Len(out') = Len(out) + 1 /\ Len(out) \in Nat
      /\ DOMAIN out' = 1..(Len(out) + 1) /\ DOMAIN out = 1..Len(out)
      /\ \A k \in 1..Len(out) : out'[k] = out[k]
      /\ out'[Len(out) + 1] = pack
  <2>1. pack \in Seq(Nat \X Nat)
    BY <1>0, <1>1, PeekAt
  <2>2. out \in Seq(Seq(Nat \X Nat))
    BY DEF Stream, StreamTypes
  <2> HIDE DEF pack
  <2> QED BY <1>0, <2>1, <2>2, AppendProperties
<1>3. ASSUME \A i \in cut : Len(out) < i, Len(out) + 1 \notin cut
      PROVE  /\ Len(out) + 1 <= Len(packages)
             /\ pack = Bytes(Len(out) + 1)
             /\ RestLen' >= 0
             /\ RestLen' = 0 => Len(out) + 1 = Len(packages)
             /\ RestLen' > 0 => At(1)' = <<Len(out) + 2, 1>>
  <2>1. PICK p \in DOMAIN packages : p = Len(out) + 1
    BY <1>0, <1>3, AtHead
  <2>2. At(1) = <<p, 1>> /\ p \notin cut /\ RestLen > 0
    BY <1>0, <1>3, <2>1, AtHead
  <2>3. Blocks
    BY DEF Stream
  <2>4. /\ HeaderLen + Length = Total(p)
        /\ \A k, n \in Nat : k + n <= Size /\ k + n <= Total(p) =>
                Peek(k, n) = [j \in 1..n |-> <<p, k + j>>]
    BY <1>0, <2>2, <2>3, Front
  <2>5. Total(p) \in Nat /\ 0 + Total(p) <= Size
    BY <1>1, <2>4
  <2>6. Peek(0, Total(p)) = [j \in 1..Total(p) |-> <<p, 0 + j>>]
    BY <2>4, <2>5
  <2>7. Bytes(p) = [j \in 1..Total(p) |-> <<p, j>>]
    BY DEF Bytes, Total
  <2>8. pack = Bytes(p)
    <3>1. \A j \in 1..Total(p) : 0 + j = j
      BY <2>5
    <3>2. [j \in 1..Total(p) |-> <<p, 0 + j>>] = [j \in 1..Total(p) |-> <<p, j>>]
      BY <3>1
    <3>3. pack = Peek(0, Total(p))
      BY <2>4
    <3> QED BY <2>6, <2>7, <3>2, <3>3
  <2>9. /\ RestLen' >= 0
        /\ RestLen' = 0 => p = Len(packages)
        /\ RestLen' > 0 => At(1)' = <<p + 1, 1>>
    <3>1. Pop(Total(p)) /\ Total(p) <= Size /\ UNCHANGED <<packages, wire>>
      BY <1>0, <1>1, <2>4
    <3> QED BY <1>0, <2>2, <2>3, <2>5, <3>1, HeadPop
  <2>10. p + 1 = Len(out) + 2 /\ p <= Len(packages)
    BY <1>1, <1>2, <2>1
  <2> HIDE DEF pack
  <2> QED BY <2>1, <2>8, <2>9, <2>10
<1> HIDE DEF pack
<1>4. StreamTypes'
  BY <1>0, <1>2 DEF Stream, StreamTypes
<1>5. Blocks'
  BY <1>0, <1>1, BlocksPop DEF Stream
<1>6. CppHead'
  <2> SUFFICES ASSUME \A i \in cut : Len(out') < i
               PROVE  /\ RestLen' >= 0
                      /\ RestLen' = 0 => Len(out') = Len(packages)
                      /\ RestLen' > 0 => At(1)' = <<Len(out') + 1, 1>>
    BY <1>0 DEF CppHead
  <2>1. \A i \in cut : i \in Nat
    BY <1>1 DEF Stream, StreamTypes
  <2>2. (\A i \in cut : Len(out) < i) /\ Len(out) + 1 \notin cut
    BY <1>2, <2>1
  <2>3. Len(out') + 1 = Len(out) + 2
    BY <1>2
  <2> QED BY <1>2, <1>3, <2>2, <2>3
<1>7. CapsuleHead'
  BY <1>0 DEF CapsuleHead
<1>8. OutInv'
  <2> SUFFICES ASSUME NEW k \in DOMAIN out', \A i \in cut : k < i
               PROVE  k <= Len(packages) /\ out'[k] = Bytes(k)
    <3>1. \A k : Bytes(k)' = Bytes(k)
      BY <1>0 DEF Bytes
    <3> QED BY <1>0, <3>1 DEF OutInv
  <2>1. CASE k \in DOMAIN out
    BY <1>0, <1>2, <2>1 DEF Stream, OutInv
  <2>2. CASE k = Len(out) + 1
    <3>1. \A i \in cut : i \in Nat
      BY <1>1 DEF Stream, StreamTypes
    <3>2. (\A i \in cut : Len(out) < i) /\ Len(out) + 1 \notin cut
      BY <1>2, <2>2, <3>1
    <3> QED BY <1>2, <1>3, <2>2, <3>2
  <2> QED BY <1>2, <2>1, <2>2
<1>9. StaysInSync'
  BY <1>0 DEF Stream, StaysInSync
<1> QED BY <1>4, <1>5, <1>6, <1>7, <1>8, <1>9 DEF Stream

\* What the capsule finds, when nothing was cut.
LEMMA CapsuleFront ==
    ASSUME Types, Stream, CapsuleHeader, cut = {}
    PROVE  /\ Blocks /\ RestLen > 0 /\ First \in DOMAIN packages
           /\ At(1) = <<First, 1>> /\ First \notin cut
           /\ HeaderLen + Length = Total(First) /\ Total(First) \in Nat
           /\ Total(First) <= Size + Len(wire)
           /\ \A k, n \in Nat : k + n <= Size /\ k + n <= Total(First) =>
                Peek(k, n) = [j \in 1..n |-> <<First, k + j>>]
<1>1. HasHeader /\ Blocks
  BY DEF CapsuleHeader, Stream
<1>2. PICK p \in DOMAIN packages : At(1) = <<p, 1>>
  BY <1>1, AtHead
<1>3. p \notin cut
  OBVIOUS
<1>4. /\ RestLen > 0 /\ Total(p) <= RestLen
      /\ First = p /\ HeaderLen + Length = Total(p)
      /\ \A k, n \in Nat : k + n <= Size /\ k + n <= Total(p) =>
           Peek(k, n) = [j \in 1..n |-> <<p, k + j>>]
  BY <1>1, <1>2, <1>3, Front
<1>5. Total(p) \in Nat
  BY Totals
<1> QED BY <1>1, <1>2, <1>3, <1>4, <1>5 DEF RestLen

\* Pop, by the capsule, of the package whose header it has.
LEMMA CapsulePop ==
    ASSUME Types, Stream, CapsuleHeader, Pop(HeaderLen + Length),
           HeaderLen + Length <= Size \/ m_offset + (HeaderLen + Length) <= BuffLen,
           UNCHANGED <<reader, packages, cut, wire>>
    PROVE  Blocks' /\ CppHead' /\ CapsuleHead'
<1>0. reader = "capsule" /\ HasHeader /\ Blocks
  BY DEF CapsuleHeader, Stream
<1>1. HeaderLen + Length \in Nat
  <2>1. Length \in Nat
    BY <1>0, LengthType, LengthsAssumption
  <2> QED BY <2>1, Totals
<1>2. Blocks'
  <2>1. UNCHANGED <<packages, wire, cut>>
    OBVIOUS
  <2> QED BY <1>0, <1>1, <2>1, BlocksPop
<1>3. ASSUME cut = {}
      PROVE  RestLen' >= 0 /\ (RestLen' > 0 => \E p \in DOMAIN packages : At(1)' = <<p, 1>>)
  <2>1. PICK p \in DOMAIN packages : p = First
    BY <1>3, CapsuleFront
  <2>2. /\ RestLen > 0 /\ At(1) = <<p, 1>> /\ p \notin cut
        /\ HeaderLen + Length = Total(p)
    BY <1>3, <2>1, CapsuleFront
  <2>3. UNCHANGED <<packages, wire>>
    OBVIOUS
  <2> QED BY <1>0, <1>1, <2>2, <2>3, HeadPop
<1> QED BY <1>0, <1>2, <1>3 DEF CppHead, CapsuleHead

\* The capsule skips a message, whether its body is there or not.
LEMMA SkipOtherStream ==
    ASSUME Inv, Stream, SkipOther
    PROVE  Stream'
<1>0. Types /\ CapsuleHeader /\ pc = "reading" /\ reader = "capsule" /\ HasHeader
  BY DEF Inv, SkipOther, CapsuleHeader
<1>1. Size \in Int /\ HeaderLen + Length \in Nat /\ Len(wire) \in Nat /\ m_offset \in Nat
  <2>1. Length \in Nat
    BY <1>0, LengthType, LengthsAssumption
  <2> QED BY <1>0, <2>1, Numbers, Totals
<1>2. CASE Throws(HeaderLen + Length)
  <2>1. ASSUME cut = {} PROVE wire # <<>>
    <3>1. HeaderLen + Length <= Size + Len(wire)
      BY <1>0, <2>1, CapsuleFront
    <3>2. Len(wire) # 0
      BY <1>1, <1>2, <3>1 DEF Throws
    <3> QED BY <3>2, EmptySeq
  <2>2. Returns("threw")
    BY <1>2 DEF SkipOther
  <2> QED BY <1>0, <2>1, <2>2, ReturnsStream
<1>3. CASE ~ Throws(HeaderLen + Length)
  <2>1. /\ Pop(HeaderLen + Length)
        /\ UNCHANGED <<reader, packages, cut, wire>> /\ UNCHANGED <<pc, out>>
    BY <1>3 DEF SkipOther, sendVars
  <2>2. HeaderLen + Length <= Size \/ m_offset + (HeaderLen + Length) <= BuffLen
    BY <1>1, <1>3, LengthsAssumption DEF Throws
  <2>3. Blocks' /\ CppHead' /\ CapsuleHead'
    BY <1>0, <2>1, <2>2, CapsulePop
  <2>4. \A k : Bytes(k)' = Bytes(k)
    BY <2>1 DEF Bytes
  <2>5. StreamTypes' /\ OutInv' /\ StaysInSync'
    BY <2>1, <2>4 DEF Stream, StreamTypes, OutInv, StaysInSync
  <2> QED BY <2>3, <2>5 DEF Stream
<1> QED BY <1>2, <1>3

\* The capsule takes the body behind the header of its answer.
LEMMA TakeAnswerStream ==
    ASSUME Inv, Stream, TakeAnswer
    PROVE  Stream'
<1>0. /\ Types /\ CapsuleHeader /\ pc = "reading" /\ reader = "capsule" /\ HasHeader
      /\ packages[First].answer
  BY DEF Inv, TakeAnswer, CapsuleHeader
<1>1. /\ Size \in Int /\ Len(wire) \in Nat /\ HeaderLen \in Nat /\ UserInfoLen \in Nat
  BY <1>0, Numbers, Totals
<1>2. First \in DOMAIN packages /\ packages[First].len = UserInfoLen
  BY <1>0, LengthType DEF Types
<1>3. Length = UserInfoLen
  BY <1>2 DEF Length
<1>4. CASE Size < HeaderLen + UserInfoLen
  <2>1. ASSUME cut = {} PROVE wire # <<>>
    <3>1. HeaderLen + UserInfoLen <= Size + Len(wire)
      BY <1>0, <1>3, <2>1, CapsuleFront
    <3>2. Len(wire) # 0
      BY <1>1, <1>4, <3>1
    <3> QED BY <3>2, EmptySeq
  <2>2. Returns("threw")
    BY <1>4 DEF TakeAnswer
  <2> QED BY <1>0, <2>1, <2>2, ReturnsStream
<1>5. CASE ~ (Size < HeaderLen + UserInfoLen)
  <2>1. /\ Pop(HeaderLen + Length)
        /\ pc' = "done" /\ out' = <<Peek(HeaderLen, UserInfoLen)>>
        /\ UNCHANGED <<reader, packages, cut, wire>>
    BY <1>5 DEF TakeAnswer, sendVars
  <2>2. HeaderLen + Length <= Size /\ HeaderLen + UserInfoLen <= Size
    BY <1>1, <1>3, <1>5
  <2>3. Blocks' /\ CppHead' /\ CapsuleHead'
    BY <1>0, <2>1, <2>2, CapsulePop
  <2>4. StreamTypes'
    <3>1. Peek(HeaderLen, UserInfoLen) \in Seq(Nat \X Nat)
      BY <1>0, <1>1, <2>2, PeekAt
    <3> QED BY <2>1, <3>1 DEF Stream, StreamTypes
  <2>5. ASSUME cut = {}
        PROVE  Peek(HeaderLen, UserInfoLen)
                 = SubSeq(Bytes(First), HeaderLen + 1, HeaderLen + UserInfoLen)
    <3>1. Peek(HeaderLen, UserInfoLen) = [j \in 1..UserInfoLen |-> <<First, HeaderLen + j>>]
      <4>1. HeaderLen + UserInfoLen <= Total(First)
        BY <1>0, <1>1, <1>3, <2>5, CapsuleFront
      <4> QED BY <1>0, <1>1, <2>2, <2>5, <4>1, CapsuleFront
    <3> QED BY <1>0, <1>2, <3>1, BytesBody
  <2>6. OutInv'
    <3>1. \A k : Bytes(k)' = Bytes(k)
      BY <2>1 DEF Bytes
    <3>2. \A k \in DOMAIN out' : out'[k] = Peek(HeaderLen, UserInfoLen)
      BY <2>1
    <3>3. ASSUME cut = {}
          PROVE  \A k \in DOMAIN out' : \E i \in DOMAIN packages :
                   /\ packages[i].answer
                   /\ out'[k] = SubSeq(Bytes(i), HeaderLen + 1, HeaderLen + UserInfoLen)
      BY <1>0, <1>2, <2>5, <3>2, <3>3
    <3> QED BY <1>0, <2>1, <3>1, <3>3 DEF OutInv
  <2>7. StaysInSync'
    BY <2>1 DEF StaysInSync
  <2> QED BY <2>3, <2>4, <2>6, <2>7 DEF Stream
<1> QED BY <1>4, <1>5

\* A reader whose stream was not cut always finds a header.
LEMMA FindsHeader ==
    ASSUME Types, Stream, HasHeader, cut = {}
    PROVE  Intact
<1>1. PICK p \in DOMAIN packages : At(1) = <<p, 1>>
  BY AtHead
<1>2. p \notin cut /\ Blocks
  BY DEF Stream
<1> QED BY <1>1, <1>2, Front

LEMMA InitStream == Init => Stream
<1> SUFFICES ASSUME Init PROVE Stream
  OBVIOUS
<1>1. Len(m_StreamBuffer) = 0 /\ Len(wire) = 0 /\ m_offset = 0 /\ Len(packages) = 0
      /\ Len(out) = 0 /\ out = <<>> /\ cut = {} /\ pc = "idle"
  BY DEF Init
<1>2. RestLen = 0
  BY <1>1 DEF RestLen, Size
<1>3. StreamTypes
  BY DEF Init, StreamTypes
<1>4. Blocks
  BY <1>2 DEF Blocks
<1>5. CppHead /\ CapsuleHead
  BY <1>1, <1>2 DEF CppHead, CapsuleHead
<1>6. OutInv
  BY <1>1 DEF OutInv
<1>7. StaysInSync
  BY <1>1 DEF StaysInSync
<1> QED BY <1>3, <1>4, <1>5, <1>6, <1>7 DEF Stream

LEMMA NextStream == Inv /\ Inv' /\ Stream /\ [Next]_vars => Stream'
<1> SUFFICES ASSUME Inv, Inv', Stream, [Next]_vars PROVE Stream'
  OBVIOUS
<1>0. Types
  BY DEF Inv
<1>1. CASE UNCHANGED vars
  <2>1. UNCHANGED <<reader, packages, cut, wire, m_StreamBuffer, m_offset, out, pc>>
    BY <1>1 DEF vars, sendVars, bufVars
  <2>2. RestLen' = RestLen /\ (\A j : At(j)' = At(j)) /\ (\A p : Total(p)' = Total(p) /\ Bytes(p)' = Bytes(p))
    BY <2>1 DEF RestLen, Size, At, Total, Bytes
  <2>3. \A j, p : At(j + Total(p))' = At(j + Total(p))
    BY <2>2
  <2>4. StreamTypes' /\ StaysInSync'
    BY <2>1 DEF Stream, StreamTypes, StaysInSync
  <2>5. Blocks'
    BY <2>1, <2>2, <2>3 DEF Stream, Blocks
  <2>6. CppHead' /\ CapsuleHead' /\ OutInv'
    BY <2>1, <2>2 DEF Stream, CppHead, CapsuleHead, OutInv
  <2> QED BY <2>4, <2>5, <2>6 DEF Stream
<1>2. CASE \E package \in Package : Send(package)
  BY <1>2, SendStream
<1>3. CASE Read
  BY <1>3, ReadStream
<1>4. CASE WaitsForHeader
  BY <1>0, <1>4, ReturnsStream DEF WaitsForHeader
<1>5. CASE Desynchronised
  BY <1>0, <1>5, FindsHeader, ReturnsStream DEF Desynchronised
<1>6. CASE ReadPackage
  BY <1>6, ReadPackageStream
<1>7. CASE WaitsForBody
  BY <1>0, <1>7, ReturnsStream DEF WaitsForBody, NextHeader
<1>8. CASE SkipOther
  BY <1>8, SkipOtherStream
<1>9. CASE TakeAnswer
  BY <1>9, TakeAnswerStream
<1> QED
  BY <1>1, <1>2, <1>3, <1>4, <1>5, <1>6, <1>7, <1>8, <1>9 DEF Next, ReaderStep

LEMMA StreamAlways == Spec => []Stream
BY InitInv, NextInv, InitStream, NextStream, PTL DEF Spec

\* The application gets exactly what was sent, package by package, however the
\* bytes were cut on their way and whatever the lengths are, up to the first
\* package that a full socket has cut; the capsule's answer is its answer.
THEOREM HandsOverAsSent == Spec => []OutAsSent
<1>1. Stream => OutAsSent
  BY DEF Stream, StreamTypes, OutInv, OutAsSent
<1> QED BY <1>1, StreamAlways, PTL

\* No reader loses its place while every package goes out whole, and the
\* capsule fails only while bytes it needs are on their way.
THEOREM ReadersStayInSync == Spec => []StaysInSync
<1>1. Stream => StaysInSync
  BY DEF Stream
<1> QED BY <1>1, StreamAlways, PTL
=============================================================================

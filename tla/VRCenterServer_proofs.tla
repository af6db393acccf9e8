------------------------ MODULE VRCenterServer_proofs ------------------------
(***************************************************************************)
(* For any scene servers, whichever of them send, leave or come, any bound *)
(* of the send queue and any number of senders, in whatever order they     *)
(* send what they took: no scene server gets a message twice, its own      *)
(* ones never, and each whole, as long as no two threads were in one       *)
(* m_msgPack at the same time.                                             *)
(*                                                                         *)
(* A message that goes to s is at one place only: an event that the center *)
(* server has not yet forwarded to s, the send queue or a sender (Way), the *)
(* link to s, or s itself (Once).  That it is never put into the send queue twice needs    *)
(* that no user is listed twice (Joined), and that a new message is unlike *)
(* any that is on its way needs that each of these is the whole message of *)
(* a sender that is done with it (Traced), which it is as long as no other *)
(* thread uses m_msgPack (Clients).                                        *)
(***************************************************************************)
EXTENDS VRCenterServer, SequenceTheorems, TLAPS

Pack == [head : Messages \union {Nothing}, body : Messages \union {Nothing}]
From == [from : Scenes, pack : Pack]
Event == [kind : {"connected", "disconnected"}] \union [kind : {"message"}, pack : Pack]

Types ==
    /\ link \in [Scenes -> {"down", "up", "lost"}]
    /\ sending \in [Messages -> {"not yet", "header", "body", "sent"}]
    /\ net \subseteq Scenes /\ shared \subseteq Scenes
    /\ \A s \in net : fromCenter[s] # <<>>
    /\ m_msgPack \in [Scenes -> Pack]
    /\ received \in [Scenes -> Seq(From)]
    /\ fromCenter \in [Scenes -> Seq(From)]
    /\ events \in Seq([from : Scenes, event : Event])
    /\ users \in Seq(Scenes) /\ rest \in Seq(Scenes)
    /\ m_linkid \in Scenes \union {Nothing}
    /\ sendQueue \in Seq([to : Scenes, from : Scenes, pack : Pack])
    /\ taken \in Seq([to : Scenes, from : Scenes, pack : Pack])

\* What the center server has put and not sent, the oldest message first.
Way == taken \o sendQueue

\* The m_msgPack of s has one user at a time, and is what that user has written.
Busy(m, s) == m[1] = s /\ sending[m] \in {"header", "body"}
Client(s) ==
    /\ s \in net => m_msgPack[s] = Head(fromCenter[s]).pack
    /\ \A m \in Messages : Busy(m, s) =>
            /\ s \notin net
            /\ m_msgPack[s].head = m
            /\ sending[m] = "body" => m_msgPack[s].body = m
            /\ \A n \in Messages : Busy(n, s) => n = m
Clients == \A s \in Scenes \ shared : Client(s)

\* While a message is forwarded it is the next event.
Forwarding == m_linkid # Nothing => events # <<>> /\ Head(events).event.kind = "message"

\* A user is listed once, for it connects once.
Connects(k, s) == events[k].from = s /\ events[k].event.kind = "connected"
Distinct(q) == \A j, k \in DOMAIN q : q[j] = q[k] => j = k
Joined ==
    /\ Distinct(users) /\ Distinct(rest)
    /\ \A s \in Scenes : \A k \in DOMAIN events : Connects(k, s) =>
            /\ link[s] # "down" /\ ~ Known(s)
            /\ \A j \in DOMAIN events : Connects(j, s) => j = k
    /\ \A s \in Scenes : Known(s) => link[s] # "down"

\* What f wrote, pack, is whole, and f is done with it.
Origin(f, pack) ==
    f \notin shared =>
        \E m \in Messages : m[1] = f /\ pack = Whole(m) /\ sending[m] = "sent"
Traced ==
    /\ \A k \in DOMAIN events : events[k].event.kind = "message" =>
            Origin(events[k].from, events[k].event.pack)
    /\ \A k \in DOMAIN Way : Origin(Way[k].from, Way[k].pack)
    /\ \A s \in Scenes : \A k \in DOMAIN fromCenter[s] :
            Origin(fromCenter[s][k].from, fromCenter[s][k].pack)
    /\ \A s \in Scenes \ shared : \A k \in DOMAIN received[s] :
            Origin(received[s][k].from, received[s][k].pack)

\* Nothing goes back to where it came from.
NotBack ==
    /\ \A k \in DOMAIN Way : Way[k].to # Way[k].from
    /\ \A s \in Scenes : \A k \in DOMAIN fromCenter[s] : fromCenter[s][k].from # s
    /\ \A s \in Scenes : \A k \in DOMAIN received[s] : received[s][k].from # s

\* The places of the package pack of f on its way to s.
InEvents(f, pack) == {k \in DOMAIN events :
    /\ events[k].from = f
    /\ events[k].event.kind = "message" /\ events[k].event.pack = pack}
InQueue(s, f, pack) == {k \in DOMAIN Way :
    Way[k].to = s /\ Way[k].from = f /\ Way[k].pack = pack}
OnLink(s, f, pack) == {k \in DOMAIN fromCenter[s] :
    fromCenter[s][k].from = f /\ fromCenter[s][k].pack = pack}
InScene(s, f, pack) == {k \in DOMAIN received[s] :
    received[s][k].from = f /\ received[s][k].pack = pack}

\* The k-th event is still to be forwarded to s.
Awaits(k, s) == k # 1 \/ m_linkid = Nothing \/ \E i \in DOMAIN rest : rest[i] = s

One(S) == \A j, k \in S : j = k
OnceAt(s, f, pack) ==
    /\ One(InEvents(f, pack)) /\ One(InQueue(s, f, pack))
    /\ One(OnLink(s, f, pack)) /\ One(InScene(s, f, pack))
    /\ (\E k \in InEvents(f, pack) : Awaits(k, s)) => InQueue(s, f, pack) = {}
    /\ (\E k \in InEvents(f, pack) : Awaits(k, s)) => OnLink(s, f, pack) = {}
    /\ (\E k \in InEvents(f, pack) : Awaits(k, s)) => InScene(s, f, pack) = {}
    /\ InQueue(s, f, pack) # {} => OnLink(s, f, pack) = {} /\ InScene(s, f, pack) = {}
    /\ OnLink(s, f, pack) # {} => InScene(s, f, pack) = {}
Once == \A s, f \in Scenes \ shared : \A pack \in Pack : OnceAt(s, f, pack)

Inv == Types /\ Clients /\ Forwarding /\ Joined /\ Traced /\ NotBack /\ Once
-----------------------------------------------------------------------------
\* A sequence with one more element, and without its first.
LEMMA AppendShape ==
    ASSUME NEW S, NEW q \in Seq(S), NEW e \in S
    PROVE  /\ Append(q, e) \in Seq(S) /\ Append(q, e) # <<>> /\ Len(q) \in Nat
           /\ DOMAIN q = 1..Len(q) /\ DOMAIN Append(q, e) = 1..(Len(q) + 1)
           /\ \A k \in DOMAIN q : Append(q, e)[k] = q[k]
           /\ Append(q, e)[Len(q) + 1] = e
           /\ q # <<>> => Head(Append(q, e)) = Head(q)
<1>1. Append(q, e) \in Seq(S) /\ Len(Append(q, e)) = Len(q) + 1 /\ Append(q, e) # <<>>
  BY AppendProperties
<1> QED BY <1>1, AppendProperties

LEMMA TailShape ==
    ASSUME NEW S, NEW q \in Seq(S), q # <<>>
    PROVE  /\ Tail(q) \in Seq(S) /\ Head(q) \in S /\ Head(q) = q[1] /\ 1 \in DOMAIN q
           /\ Len(q) \in Nat \ {0} /\ DOMAIN q = 1..Len(q) /\ DOMAIN Tail(q) = 1..(Len(q) - 1)
           /\ \A k \in DOMAIN Tail(q) : k + 1 \in DOMAIN q /\ Tail(q)[k] = q[k + 1]
<1>1. Tail(q) \in Seq(S) /\ Len(Tail(q)) = Len(q) - 1 /\ Head(q) \in S
      /\ Len(q) \in Nat \ {0}
  BY HeadTailProperties, EmptySeq, LenProperties
<1> QED BY <1>1, HeadTailProperties

\* An element less.
Erased(q, k) == SubSeq(q, 1, k - 1) \o SubSeq(q, k + 1, Len(q))
Erasure(r, q, k) ==
    /\ Len(q) \in Nat /\ DOMAIN q = 1..Len(q) /\ DOMAIN r = 1..(Len(q) - 1)
    /\ \A i \in DOMAIN r : (i < k => r[i] = q[i]) /\ (k <= i => r[i] = q[i + 1])

LEMMA EraseShape ==
    ASSUME NEW S, NEW q \in Seq(S), NEW k \in DOMAIN q
    PROVE  Erased(q, k) \in Seq(S) /\ Erasure(Erased(q, k), q, k)
<1>0. PICK r : r = SubSeq(q, 1, k - 1) \o SubSeq(q, k + 1, Len(q))
  OBVIOUS
<1>1. Len(q) \in Nat /\ DOMAIN q = 1..Len(q) /\ k \in 1..Len(q)
  OBVIOUS
<1>2. /\ SubSeq(q, 1, k - 1) \in Seq(S) /\ Len(SubSeq(q, 1, k - 1)) = k - 1
      /\ \A i \in 1..(k - 1) : SubSeq(q, 1, k - 1)[i] = q[i]
  BY <1>1
<1>3. /\ SubSeq(q, k + 1, Len(q)) \in Seq(S) /\ Len(SubSeq(q, k + 1, Len(q))) = Len(q) - k
      /\ \A i \in 1..(Len(q) - k) : SubSeq(q, k + 1, Len(q))[i] = q[k + i]
  BY <1>1
<1>4. r \in Seq(S) /\ DOMAIN r = 1..(Len(q) - 1)
  BY <1>0, <1>1, <1>2, <1>3
<1>5. ASSUME NEW i \in DOMAIN r
      PROVE  (i < k => r[i] = q[i]) /\ (k <= i => r[i] = q[i + 1])
  <2>1. CASE i < k
    BY <1>0, <1>1, <1>2, <1>3, <1>4, <2>1, SMTT(30)
  <2>2. CASE ~ i < k
    <3>1. i - (k - 1) \in 1..(Len(q) - k) /\ r[i] = SubSeq(q, k + 1, Len(q))[i - (k - 1)]
      <4>1. PICK a \in Seq(S), b \in Seq(S) :
                /\ a = SubSeq(q, 1, k - 1) /\ b = SubSeq(q, k + 1, Len(q))
                /\ Len(a) = k - 1 /\ Len(b) = Len(q) - k
        BY <1>2, <1>3
      <4>2. i \in 1..(Len(a) + Len(b)) /\ ~ i <= Len(a) /\ k \in Nat
        BY <1>1, <1>4, <2>2, <4>1, SMTT(30)
      <4>3. r[i] = b[i - Len(a)]
        BY <1>0, <4>1, <4>2, ConcatProperties
      <4> QED BY <1>1, <1>4, <2>2, <4>1, <4>3, SMTT(30)
    <3>2. k + (i - (k - 1)) = i + 1
      BY <1>1, <1>4
    <3> QED BY <1>3, <2>2, <3>1, <3>2
  <2> QED BY <2>1, <2>2
<1> QED BY <1>0, <1>1, <1>4, <1>5 DEF Erased, Erasure

\* What Erasure says of the elements.
LEMMA ErasureShape ==
    ASSUME NEW q, NEW r, NEW k \in DOMAIN q, Erasure(r, q, k)
    PROVE  \A i \in DOMAIN r :
              /\ i \in Nat /\ (i < k \/ k <= i)
              /\ i < k => i \in DOMAIN q /\ r[i] = q[i]
              /\ k <= i => i + 1 \in DOMAIN q /\ r[i] = q[i + 1] /\ i + 1 # k
BY DEF Erasure

\* Two sequences, one behind the other: one more at the end, an element that
\* goes from the second to the first, and one less in the first.
LEMMA ConcatShape ==
    ASSUME NEW S, NEW p \in Seq(S), NEW q \in Seq(S)
    PROVE  /\ p \o q \in Seq(S) /\ Len(p) \in Nat /\ Len(q) \in Nat
           /\ DOMAIN p = 1..Len(p) /\ DOMAIN q = 1..Len(q)
           /\ Len(p \o q) = Len(p) + Len(q) /\ DOMAIN (p \o q) = 1..(Len(p) + Len(q))
           /\ \A i \in 1..Len(p) : (p \o q)[i] = p[i]
           /\ \A i \in 1..Len(q) : (p \o q)[Len(p) + i] = q[i]
<1>1. Len(p) \in Nat /\ Len(q) \in Nat /\ DOMAIN p = 1..Len(p) /\ DOMAIN q = 1..Len(q)
  BY LenProperties
<1>2. /\ p \o q \in Seq(S) /\ Len(p \o q) = Len(p) + Len(q)
      /\ \A i \in 1..(Len(p) + Len(q)) :
            (p \o q)[i] = IF i <= Len(p) THEN p[i] ELSE q[i - Len(p)]
  BY ConcatProperties
<1>3. DOMAIN (p \o q) = 1..(Len(p) + Len(q))
  BY <1>2, LenProperties
<1>4. ASSUME NEW i \in 1..Len(p) PROVE (p \o q)[i] = p[i]
  <2>1. i \in 1..(Len(p) + Len(q)) /\ i <= Len(p)
    BY <1>1
  <2> QED BY <1>2, <2>1
<1>5. ASSUME NEW i \in 1..Len(q) PROVE (p \o q)[Len(p) + i] = q[i]
  <2>1. /\ Len(p) + i \in 1..(Len(p) + Len(q)) /\ ~ Len(p) + i <= Len(p)
        /\ (Len(p) + i) - Len(p) = i
    BY <1>1
  <2>2. (p \o q)[Len(p) + i] = q[(Len(p) + i) - Len(p)]
    BY <1>2, <2>1
  <2> QED BY <2>1, <2>2
<1> QED BY <1>1, <1>2, <1>3, <1>4, <1>5

LEMMA ConcatPut ==
    ASSUME NEW S, NEW p \in Seq(S), NEW q \in Seq(S), NEW e \in S
    PROVE  p \o Append(q, e) = Append(p \o q, e)
<1>1. p \o q \in Seq(S) /\ <<e>> \in Seq(S)
  BY ConcatProperties
<1>2. Append(q, e) = q \o <<e>> /\ Append(p \o q, e) = (p \o q) \o <<e>>
  BY <1>1, AppendIsConcat
<1>3. (p \o q) \o <<e>> = p \o (q \o <<e>>)
  BY <1>1, ConcatAssociative
<1> QED BY <1>2, <1>3

LEMMA ConcatTake ==
    ASSUME NEW S, NEW p \in Seq(S), NEW q \in Seq(S), q # <<>>
    PROVE  Append(p, Head(q)) \o Tail(q) = p \o q
<1>1. PICK e \in S, t \in Seq(S) : /\ e = Head(q) /\ t = Tail(q) /\ Len(t) = Len(q) - 1
                                   /\ e = q[1] /\ \A i \in 1..Len(t) : t[i] = q[i + 1]
  <2>1. /\ Head(q) \in S /\ Tail(q) \in Seq(S) /\ Len(Tail(q)) = Len(q) - 1 /\ Head(q) = q[1]
        /\ \A i \in 1..Len(Tail(q)) : Tail(q)[i] = q[i + 1]
    BY HeadTailProperties
  <2> QED BY <2>1
<1>2. <<e>> \in Seq(S) /\ Append(p, e) = p \o <<e>>
  BY AppendIsConcat
<1>3. (p \o <<e>>) \o t = p \o (<<e>> \o t)
  BY <1>2, ConcatAssociative
<1>4. <<e>> \o t = q
  <2>1. Len(q) \in Nat \ {0} /\ Len(t) \in Nat /\ Len(<<e>>) = 1 /\ <<e>>[1] = e
    BY EmptySeq, LenProperties
  <2>2. /\ <<e>> \o t \in Seq(S) /\ Len(<<e>> \o t) = 1 + Len(t)
        /\ (<<e>> \o t)[1] = e
        /\ \A i \in 1..Len(t) : (<<e>> \o t)[1 + i] = t[i]
    <3>1. 1 \in 1..Len(<<e>>)
      BY <2>1
    <3> QED BY <1>2, <2>1, <3>1, ConcatShape
  <2>3. ASSUME NEW i \in 1..Len(q) PROVE (<<e>> \o t)[i] = q[i]
    <3>1. CASE i = 1
      BY <1>1, <2>2, <3>1
    <3>2. CASE i # 1
      <4>1. i - 1 \in 1..Len(t) /\ 1 + (i - 1) = i /\ (i - 1) + 1 = i
        BY <1>1, <2>1, <3>2
      <4> QED BY <1>1, <2>2, <4>1
    <3> QED BY <3>1, <3>2
  <2>4. Len(<<e>> \o t) = Len(q)
    BY <1>1, <2>1, <2>2
  <2>5. PICK x \in Seq(S) : x = <<e>> \o t
    BY <2>2
  <2>6. Len(x) = Len(q) /\ \A i \in 1..Len(x) : x[i] = q[i]
    BY <2>3, <2>4, <2>5
  <2>7. x = q
    BY <2>6, SeqEqual
  <2> QED BY <2>5, <2>7
<1> QED BY <1>1, <1>2, <1>3, <1>4

LEMMA ConcatLess ==
    ASSUME NEW S, NEW p \in Seq(S), NEW q \in Seq(S), NEW k \in DOMAIN p
    PROVE  /\ k \in DOMAIN (p \o q) /\ Erasure(RemoveAt(p, k) \o q, p \o q, k)
           /\ RemoveAt(p, k) \in Seq(S) /\ RemoveAt(p, k) \o q \in Seq(S)
           /\ \A j \in 1..k : j \in DOMAIN p /\ (p \o q)[j] = p[j]
<1>1. PICK r \in Seq(S), n \in Nat, l \in Nat :
          /\ r = RemoveAt(p, k) /\ n = Len(p) /\ l = Len(q)
          /\ k \in 1..n /\ DOMAIN p = 1..n /\ DOMAIN r = 1..(n - 1)
          /\ \A i \in 1..(k - 1) : r[i] = p[i]
          /\ \A i \in k..(n - 1) : r[i] = p[i + 1]
  <2>1. /\ RemoveAt(p, k) \in Seq(S) /\ Len(p) \in Nat /\ DOMAIN p = 1..Len(p) /\ k \in 1..Len(p)
        /\ DOMAIN RemoveAt(p, k) = 1..(Len(p) - 1)
        /\ \A i \in 1..(k - 1) : RemoveAt(p, k)[i] = p[i]
        /\ \A i \in k..(Len(p) - 1) : RemoveAt(p, k)[i] = p[i + 1]
    <3>1. PICK e \in Seq(S) : e = RemoveAt(p, k) /\ Erasure(e, p, k)
      <4>1. Erased(p, k) \in Seq(S) /\ Erasure(Erased(p, k), p, k)
        BY EraseShape
      <4>2. RemoveAt(p, k) = Erased(p, k)
        BY DEF RemoveAt, Erased
      <4> QED BY <4>1, <4>2
    <3>2. /\ Len(p) \in Nat /\ DOMAIN p = 1..Len(p) /\ k \in 1..Len(p)
          /\ DOMAIN e = 1..(Len(p) - 1)
          /\ \A i \in 1..(k - 1) : e[i] = p[i]
          /\ \A i \in k..(Len(p) - 1) : e[i] = p[i + 1]
      <4>1. /\ Len(p) \in Nat /\ DOMAIN p = 1..Len(p) /\ DOMAIN e = 1..(Len(p) - 1)
            /\ \A i \in DOMAIN e : (i < k => e[i] = p[i]) /\ (k <= i => e[i] = p[i + 1])
        BY <3>1 DEF Erasure
      <4>2. k \in 1..Len(p)
        BY <4>1
      <4>3. ASSUME NEW i \in 1..(k - 1) PROVE e[i] = p[i]
        <5>1. i \in DOMAIN e /\ i < k
          BY <4>1, <4>2
        <5> QED BY <4>1, <5>1
      <4>4. ASSUME NEW i \in k..(Len(p) - 1) PROVE e[i] = p[i + 1]
        <5>1. i \in DOMAIN e /\ k <= i
          BY <4>1, <4>2
        <5> QED BY <4>1, <5>1
      <4> QED BY <4>1, <4>2, <4>3, <4>4
    <3> QED BY <3>1, <3>2
  <2>2. Len(q) \in Nat
    BY LenProperties
  <2> QED BY <2>1, <2>2
<1>2. Len(r) = n - 1
  <2>1. Len(r) \in Nat /\ DOMAIN r = 1..Len(r) /\ n - 1 \in Nat
    BY <1>1, LenProperties
  <2> QED BY <1>1, <2>1
<1>3. PICK w \in Seq(S) : /\ w = p \o q /\ Len(w) = n + l /\ DOMAIN w = 1..(n + l)
                          /\ \A i \in 1..n : w[i] = p[i]
                          /\ \A i \in 1..l : w[n + i] = q[i]
  <2>1. /\ p \o q \in Seq(S) /\ Len(p \o q) = n + l /\ DOMAIN (p \o q) = 1..(n + l)
        /\ \A i \in 1..n : (p \o q)[i] = p[i]
        /\ \A i \in 1..l : (p \o q)[n + i] = q[i]
    BY <1>1, ConcatShape
  <2> QED BY <2>1
<1>4. PICK v \in Seq(S) : /\ v = r \o q /\ DOMAIN v = 1..((n - 1) + l)
                          /\ \A i \in 1..(n - 1) : v[i] = r[i]
                          /\ \A i \in 1..l : v[(n - 1) + i] = q[i]
  <2>1. /\ r \o q \in Seq(S) /\ DOMAIN (r \o q) = 1..((n - 1) + l)
        /\ \A i \in 1..(n - 1) : (r \o q)[i] = r[i]
        /\ \A i \in 1..l : (r \o q)[(n - 1) + i] = q[i]
    <3>1. /\ r \o q \in Seq(S) /\ DOMAIN (r \o q) = 1..(Len(r) + Len(q))
          /\ \A i \in 1..Len(r) : (r \o q)[i] = r[i]
          /\ \A i \in 1..Len(q) : (r \o q)[Len(r) + i] = q[i]
      BY ConcatShape
    <3> QED BY <1>1, <1>2, <3>1
  <2> QED BY <2>1
<1>5. (n - 1) + l = (n + l) - 1 /\ k \in 1..(n + l)
  BY <1>1
<1>6. ASSUME NEW i \in 1..(k - 1) PROVE v[i] = w[i]
  <2>1. i \in 1..(n - 1) /\ i \in 1..n
    BY <1>1
  <2> QED BY <1>1, <1>3, <1>4, <2>1
<1>7. ASSUME NEW i \in k..((n + l) - 1) PROVE v[i] = w[i + 1]
  <2>1. CASE i <= n - 1
    <3>1. i \in 1..(n - 1) /\ i \in k..(n - 1) /\ i + 1 \in 1..n
      BY <1>1, <2>1
    <3> QED BY <1>1, <1>3, <1>4, <3>1
  <2>2. CASE ~ i <= n - 1
    <3>1. PICK j \in 1..l : i = (n - 1) + j /\ i + 1 = n + j
      <4>1. i - (n - 1) \in 1..l /\ i = (n - 1) + (i - (n - 1)) /\ i + 1 = n + (i - (n - 1))
        BY <1>1, <2>2
      <4> QED BY <4>1
    <3> QED BY <1>3, <1>4, <3>1
  <2> QED BY <2>1, <2>2
<1>8. k \in DOMAIN w /\ Erasure(v, w, k)
  <2>1. n + l \in Nat /\ Len(w) = n + l /\ DOMAIN w = 1..(n + l) /\ DOMAIN v = 1..((n + l) - 1)
    BY <1>1, <1>3, <1>4, <1>5
  <2>2. ASSUME NEW i \in DOMAIN v
        PROVE  (i < k => v[i] = w[i]) /\ (k <= i => v[i] = w[i + 1])
    <3>1. (i < k => i \in 1..(k - 1)) /\ (k <= i => i \in k..((n + l) - 1))
      BY <1>1, <2>1
    <3> QED BY <1>6, <1>7, <3>1
  <2> QED BY <1>5, <2>1, <2>2 DEF Erasure
<1>9. \A j \in 1..k : j \in DOMAIN p /\ w[j] = p[j]
  BY <1>1, <1>3
<1> QED BY <1>1, <1>3, <1>4, <1>8, <1>9

LEMMA MessageShape ==
    /\ \A m \in Messages : m[1] \in Scenes /\ m # Nothing
    /\ \A m, n \in Messages : Whole(m) = Whole(n) => m = n
    /\ \A m \in Messages : Whole(m) \in Pack
    /\ Nothing \notin Scenes
BY ScenesAssumption DEF Messages, Whole, Pack

LEMMA WayShape ==
    Types => Way \in Seq([to : Scenes, from : Scenes, pack : Pack])
BY ConcatProperties DEF Types, Way

LEMMA EventShape ==
    ASSUME Types, events # <<>>
    PROVE  /\ Head(events) = events[1] /\ 1 \in DOMAIN events
           /\ Head(events).from \in Scenes /\ Head(events).event \in Event
           /\ Head(events).event.kind = "message" => Head(events).event.pack \in Pack
<1>1. Head(events) \in [from : Scenes, event : Event] /\ Head(events) = events[1] /\ 1 \in DOMAIN events
  BY TailShape DEF Types
<1> QED BY <1>1 DEF Event

LEMMA InitInv == Init => Inv
<1> SUFFICES ASSUME Init PROVE Inv
  OBVIOUS
<1>0. \A S : <<>> \in Seq(S) /\ DOMAIN <<>> = {}
  OBVIOUS
<1>a. Way = <<>>
  <2>1. <<>> \o <<>> = <<>>
    BY <1>0, ConcatEmptySeq
  <2> QED BY <2>1 DEF Init, Way
<1>1. Types
  <2>1. m_msgPack \in [Scenes -> Pack]
    BY DEF Init, Pack
  <2>2. received \in [Scenes -> Seq(From)] /\ fromCenter \in [Scenes -> Seq(From)]
    BY <1>0 DEF Init
  <2>3. /\ events \in Seq([from : Scenes, event : Event])
        /\ users \in Seq(Scenes) /\ rest \in Seq(Scenes)
        /\ sendQueue \in Seq([to : Scenes, from : Scenes, pack : Pack])
        /\ taken \in Seq([to : Scenes, from : Scenes, pack : Pack])
    BY <1>0 DEF Init
  <2> QED BY <2>1, <2>2, <2>3 DEF Init, Types
<1>2. Clients /\ Forwarding
  BY DEF Init, Clients, Client, Busy, Forwarding
<1>3. Joined
  BY <1>0 DEF Init, Joined, Distinct, Connects, Known
<1>4. Traced
  BY <1>0, <1>a DEF Init, Traced
<1>5. NotBack
  BY <1>0, <1>a DEF Init, NotBack
<1>6. Once
  <2>1. \A s \in Scenes : \A f, pack :
           /\ InEvents(f, pack) = {} /\ InQueue(s, f, pack) = {}
           /\ OnLink(s, f, pack) = {} /\ InScene(s, f, pack) = {}
    BY <1>0, <1>a DEF Init, InEvents, InQueue, OnLink, InScene
  <2> QED BY <2>1 DEF Once, OnceAt, One
<1> QED BY <1>1, <1>2, <1>3, <1>4, <1>5, <1>6 DEF Inv

\* What a step of the center server leaves alone.
LEMMA CenterKeeps ==
    HandleNetEvent => UNCHANGED <<clientVars, wireVars>>
BY DEF HandleNetEvent, AddUser, DeleteUser, ForwardBegins, ForwardMsg, ForwardEnds

\* What TakeMessage does: nothing, to what is on its way.
LEMMA TakeShape ==
    ASSUME Types, TakeMessage
    PROVE  /\ sendQueue' \in Seq([to : Scenes, from : Scenes, pack : Pack])
           /\ taken' \in Seq([to : Scenes, from : Scenes, pack : Pack])
           /\ UNCHANGED Way
           /\ UNCHANGED <<clientVars, wireVars, events, users, rest, m_linkid>>
<1> DEFINE M == [to : Scenes, from : Scenes, pack : Pack]
<1>1. sendQueue \in Seq(M) /\ taken \in Seq(M)
  BY DEF Types
<1>2. /\ sendQueue # <<>> /\ sendQueue' = Tail(sendQueue) /\ taken' = Append(taken, Head(sendQueue))
      /\ UNCHANGED <<clientVars, wireVars, events, users, rest, m_linkid>>
  BY DEF TakeMessage
<1> HIDE DEF M
<1>3. Tail(sendQueue) \in Seq(M) /\ Head(sendQueue) \in M
  BY <1>1, <1>2, TailShape
<1>4. Append(taken, Head(sendQueue)) \in Seq(M)
  BY <1>1, <1>3, AppendShape
<1>5. Append(taken, Head(sendQueue)) \o Tail(sendQueue) = taken \o sendQueue
  BY <1>1, <1>2, ConcatTake
<1>6. Way' = Way
  BY <1>2, <1>5 DEF Way
<1> QED BY <1>2, <1>3, <1>4, <1>6 DEF M

\* What DoSend does: a message that was taken goes to its link, if that is up.
LEMMA DoSendShape ==
    ASSUME Types, NEW k, DoSend(k)
    PROVE  \E s \in Scenes, x \in From :
              /\ k \in DOMAIN Way /\ Erasure(Way', Way, k)
              /\ taken' \in Seq([to : Scenes, from : Scenes, pack : Pack])
              /\ Way[k].to = s /\ Way[k].from = x.from /\ Way[k].pack = x.pack
              /\ \/ UNCHANGED fromCenter
                 \/ fromCenter' = [fromCenter EXCEPT ![s] = Append(fromCenter[s], x)]
<1> DEFINE M == [to : Scenes, from : Scenes, pack : Pack]
<1>1. taken \in Seq(M) /\ sendQueue \in Seq(M) /\ k \in DOMAIN taken
  BY DEF Types, DoSend
<1> HIDE DEF M
<1>2. /\ k \in DOMAIN (taken \o sendQueue)
      /\ Erasure(RemoveAt(taken, k) \o sendQueue, taken \o sendQueue, k)
      /\ RemoveAt(taken, k) \in Seq(M)
      /\ \A j \in 1..k : (taken \o sendQueue)[j] = taken[j]
  BY <1>1, ConcatLess
<1>3. k \in 1..k
  BY <1>1
<1>4. taken' = RemoveAt(taken, k) /\ sendQueue' = sendQueue
  BY DEF DoSend
<1>5. Way' = RemoveAt(taken, k) \o sendQueue
  BY <1>4 DEF Way
<1>6. /\ k \in DOMAIN Way /\ Erasure(Way', Way, k)
      /\ taken' \in Seq(M) /\ Way[k] = taken[k]
  BY <1>2, <1>3, <1>4, <1>5 DEF Way
<1>7. taken[k] \in M
  BY <1>1
<1>8. PICK s \in Scenes, f \in Scenes, p \in Pack : taken[k] = [to |-> s, from |-> f, pack |-> p]
  BY <1>7 DEF M
<1>9. taken[k].to = s /\ taken[k].from = f /\ taken[k].pack = p
  BY <1>8
<1>10. fromCenter' = IF link[s] = "up"
                     THEN [fromCenter EXCEPT ![s] = Append(@, [from |-> f, pack |-> p])]
                     ELSE fromCenter
  BY <1>9 DEF DoSend
<1>11. PICK x \in From : x = [from |-> f, pack |-> p]
  BY DEF From
<1>12. x.from = f /\ x.pack = p
  BY <1>11
<1>13. \/ UNCHANGED fromCenter
       \/ fromCenter' = [fromCenter EXCEPT ![s] = Append(fromCenter[s], x)]
  BY <1>10, <1>11
<1>14. Way[k].to = s /\ Way[k].from = x.from /\ Way[k].pack = x.pack
  BY <1>6, <1>9, <1>12
<1> QED BY <1>6, <1>13, <1>14 DEF M

\* What PushPack does: the first package of the link goes to the scene server.
LEMMA PushShape ==
    ASSUME Types, NEW s \in Scenes, PushPack(s)
    PROVE  \E x \in From :
              /\ fromCenter[s] # <<>> /\ x.from = Head(fromCenter[s]).from /\ x.pack = m_msgPack[s]
              /\ received' = [received EXCEPT ![s] = Append(received[s], x)]
              /\ fromCenter' = [fromCenter EXCEPT ![s] = Tail(fromCenter[s])]
              /\ UNCHANGED Way
<1>1. fromCenter[s] \in Seq(From) /\ fromCenter[s] # <<>> /\ m_msgPack[s] \in Pack
  BY DEF Types, PushPack
<1>2. Head(fromCenter[s]) \in From
  BY <1>1, TailShape
<1>3. PICK x \in From : x = [from |-> Head(fromCenter[s]).from, pack |-> m_msgPack[s]]
  BY <1>1, <1>2 DEF From
<1>4. x.from = Head(fromCenter[s]).from /\ x.pack = m_msgPack[s]
  BY <1>3
<1> QED BY <1>1, <1>3, <1>4 DEF PushPack, centerVars, Way

\* What ForwardMsg does for a user who is not the source: one more message to send.
LEMMA ForwardShape ==
    ASSUME Types, Forwarding, ForwardMsg, Head(rest) # Head(events).from
    PROVE  \E x \in [to : Scenes, from : Scenes, pack : Pack] :
              /\ x.to = Head(rest) /\ x.from = Head(events).from /\ x.pack = Head(events).event.pack
              /\ x.to # x.from
              /\ Way' = Append(Way, x) /\ m_linkid' = x.to
<1>1. events # <<>> /\ Head(events).event.kind = "message" /\ rest # <<>>
  BY DEF ForwardMsg, Forwarding
<1>2. Head(events).from \in Scenes /\ Head(events).event.pack \in Pack /\ Head(rest) \in Scenes
  BY <1>1, EventShape, TailShape DEF Types
<1>3. PICK x \in [to : Scenes, from : Scenes, pack : Pack] :
          x = [to |-> Head(rest), from |-> Head(events).from, pack |-> Head(events).event.pack]
  BY <1>2
<1>4. x.to = Head(rest) /\ x.from = Head(events).from /\ x.pack = Head(events).event.pack
  BY <1>3
<1>5. sendQueue' = Append(sendQueue, x) /\ UNCHANGED taken /\ m_linkid' = x.to
  BY <1>3, <1>4 DEF ForwardMsg, SendTo
<1>6. Way' = Append(Way, x)
  <2>1. taken \o Append(sendQueue, x) = Append(taken \o sendQueue, x)
    <3>1. /\ taken \in Seq([to : Scenes, from : Scenes, pack : Pack])
          /\ sendQueue \in Seq([to : Scenes, from : Scenes, pack : Pack])
      BY DEF Types
    <3> QED BY <3>1, ConcatPut
  <2> QED BY <1>5, <2>1 DEF Way
<1> QED BY <1>3, <1>4, <1>5, <1>6

LEMMA TypesStep ==
    ASSUME Types, Forwarding, Next
    PROVE  Types'
<1>1. ASSUME NEW s \in Scenes, Connect(s) \/ Leave(s)
      PROVE  Types'
  <2>1. link' \in [Scenes -> {"down", "up", "lost"}]
    BY <1>1 DEF Types, Connect, Leave
  <2>2. PICK e \in Event : events' = Append(events, [from |-> s, event |-> e])
    BY <1>1 DEF Connect, Leave, ToCenter, Event
  <2>3. events' \in Seq([from : Scenes, event : Event])
    BY <2>2, AppendShape DEF Types
  <2> QED BY <1>1, <2>1, <2>3 DEF Types, Connect, Leave, clientVars
<1>2. ASSUME NEW m \in Messages, WriteHeader(m) \/ WriteBody(m)
      PROVE  Types'
  <2>1. m[1] \in Scenes
    BY MessageShape
  <2>2. m_msgPack' \in [Scenes -> Pack]
    <3>1. m_msgPack[m[1]] \in Pack
      BY <2>1 DEF Types
    <3>2. [m_msgPack[m[1]] EXCEPT !.head = m] \in Pack /\ [m_msgPack[m[1]] EXCEPT !.body = m] \in Pack
      BY <3>1 DEF Pack
    <3>3. \/ m_msgPack' = [m_msgPack EXCEPT ![m[1]] = [m_msgPack[m[1]] EXCEPT !.head = m]]
          \/ m_msgPack' = [m_msgPack EXCEPT ![m[1]] = [m_msgPack[m[1]] EXCEPT !.body = m]]
      BY <1>2 DEF WriteHeader, WriteBody
    <3> QED BY <3>2, <3>3 DEF Types
  <2>3. shared' \subseteq Scenes
    BY <1>2, <2>1, ZenonT(30) DEF Types, WriteHeader, WriteBody, Overlaps
  <2>4. sending' \in [Messages -> {"not yet", "header", "body", "sent"}]
    BY <1>2 DEF Types, WriteHeader, WriteBody
  <2>5. UNCHANGED <<net, received, wireVars, centerVars>>
    BY <1>2 DEF WriteHeader, WriteBody
  <2> QED BY <2>2, <2>3, <2>4, <2>5 DEF Types, wireVars, centerVars
<1>3. ASSUME NEW m \in Messages, Send(m)
      PROVE  Types'
  <2>1. m[1] \in Scenes
    BY MessageShape
  <2>2. [kind |-> "message", pack |-> m_msgPack[m[1]]] \in Event
    BY <2>1 DEF Types, Event
  <2>3. events' \in Seq([from : Scenes, event : Event])
    <3>1. CASE link[m[1]] = "up"
      <4> DEFINE e == [from |-> m[1], event |-> [kind |-> "message", pack |-> m_msgPack[m[1]]]]
      <4>1. events' = Append(events, e)
        BY <1>3, <3>1 DEF Send, ToCenter
      <4>2. e \in [from : Scenes, event : Event]
        BY <2>1, <2>2
      <4> HIDE DEF e
      <4> QED BY <4>1, <4>2, AppendShape DEF Types
    <3>2. CASE link[m[1]] # "up"
      BY <1>3, <3>2 DEF Send, Types
    <3> QED BY <3>1, <3>2
  <2>4. sending' \in [Messages -> {"not yet", "header", "body", "sent"}]
    BY <1>3 DEF Types, Send
  <2> QED BY <1>3, <2>3, <2>4 DEF Types, Send, wireVars
<1>4. ASSUME NEW s \in Scenes, ReadPack(s)
      PROVE  Types'
  <2>1. fromCenter[s] \in Seq(From) /\ fromCenter[s] # <<>>
    BY <1>4 DEF Types, ReadPack
  <2>2. Head(fromCenter[s]) \in From
    BY <2>1, TailShape
  <2>3. Head(fromCenter[s]).pack \in Pack
    BY <2>2 DEF From
  <2> QED BY <1>4, <2>3 DEF Types, ReadPack, Overlaps, wireVars, centerVars
<1>5. ASSUME NEW s \in Scenes, PushPack(s)
      PROVE  Types'
  <2>1. fromCenter[s] \in Seq(From) /\ fromCenter[s] # <<>> /\ received[s] \in Seq(From)
    BY <1>5 DEF Types, PushPack
  <2>2. Head(fromCenter[s]) \in From /\ Tail(fromCenter[s]) \in Seq(From)
    BY <2>1, TailShape
  <2> DEFINE got == [from |-> Head(fromCenter[s]).from, pack |-> m_msgPack[s]]
  <2>3. got \in From
    BY <2>2 DEF From, Types
  <2>4. received' = [received EXCEPT ![s] = Append(received[s], got)]
    BY <1>5 DEF PushPack
  <2> HIDE DEF got
  <2>5. received' \in [Scenes -> Seq(From)]
    BY <2>1, <2>3, <2>4, AppendShape DEF Types
  <2>6. fromCenter' \in [Scenes -> Seq(From)]
    BY <1>5, <2>2 DEF Types, PushPack
  <2>7. \A r \in net' : fromCenter'[r] # <<>>
    BY <1>5 DEF Types, PushPack
  <2> QED BY <1>5, <2>5, <2>6, <2>7 DEF Types, PushPack, centerVars
<1>6. CASE AddUser \/ DeleteUser
  <2>1. events # <<>> /\ events' = Tail(events)
    BY <1>6 DEF AddUser, DeleteUser, Handles
  <2>2. events' \in Seq([from : Scenes, event : Event]) /\ Head(events).from \in Scenes
    BY <2>1, TailShape, EventShape DEF Types
  <2>3. users' \in Seq(Scenes)
    <3>1. CASE AddUser
      BY <2>2, <3>1, AppendShape DEF AddUser, Types
    <3>2. CASE DeleteUser
      <4>1. CASE UNCHANGED users
        BY <4>1 DEF Types
      <4>2. ASSUME NEW k \in DOMAIN users,
                   users' = Erased(users, k)
            PROVE  users' \in Seq(Scenes)
        BY <4>2, EraseShape DEF Types
      <4> QED BY <3>2, <4>1, <4>2 DEF DeleteUser, Erased
    <3> QED BY <1>6, <3>1, <3>2
  <2> QED BY <1>6, <2>2, <2>3 DEF Types, AddUser, DeleteUser, clientVars, wireVars
<1>7. CASE ForwardBegins \/ ForwardEnds
  <2>1. events # <<>>
    BY <1>7 DEF ForwardBegins, ForwardEnds, Handles, Forwarding
  <2>2. Tail(events) \in Seq([from : Scenes, event : Event]) /\ Head(events).from \in Scenes
    BY <2>1, TailShape, EventShape DEF Types
  <2> QED BY <1>7, <2>2 DEF Types, ForwardBegins, ForwardEnds, clientVars, wireVars
<1>8. CASE ForwardMsg
  <2>1. events # <<>> /\ Head(events).event.kind = "message" /\ rest # <<>>
    BY <1>8 DEF ForwardMsg, Forwarding
  <2>2. Head(events).from \in Scenes /\ Head(events).event.pack \in Pack
    BY <2>1, EventShape
  <2>3. Head(rest) \in Scenes /\ Tail(rest) \in Seq(Scenes)
    BY <2>1, TailShape DEF Types
  <2> DEFINE msg == [to |-> Head(rest), from |-> Head(events).from, pack |-> Head(events).event.pack]
  <2>4. msg \in [to : Scenes, from : Scenes, pack : Pack]
    BY <2>2, <2>3
  <2>5. \/ sendQueue' = Append(sendQueue, msg) /\ m_linkid' = Head(rest)
        \/ UNCHANGED <<sendQueue, m_linkid>>
    BY <1>8 DEF ForwardMsg, SendTo
  <2> HIDE DEF msg
  <2>6. sendQueue' \in Seq([to : Scenes, from : Scenes, pack : Pack])
    <3>1. CASE sendQueue' = Append(sendQueue, msg)
      BY <2>4, <3>1, AppendShape DEF Types
    <3>2. CASE sendQueue' = sendQueue
      BY <3>2 DEF Types
    <3> QED BY <2>5, <3>1, <3>2
  <2> QED BY <1>8, <2>3, <2>5, <2>6 DEF Types, ForwardMsg, clientVars, wireVars
<1>9. ASSUME NEW g \in DOMAIN taken, DoSend(g)
      PROVE  Types'
  <2>1. PICK s \in Scenes, x \in From :
            /\ taken' \in Seq([to : Scenes, from : Scenes, pack : Pack])
            /\ \/ UNCHANGED fromCenter
               \/ fromCenter' = [fromCenter EXCEPT ![s] = Append(fromCenter[s], x)]
    BY <1>9, DoSendShape
  <2>2. fromCenter[s] \in Seq(From)
    BY DEF Types
  <2>3. Append(fromCenter[s], x) \in Seq(From) /\ Append(fromCenter[s], x) # <<>>
    BY <2>2, AppendShape
  <2>4. fromCenter' \in [Scenes -> Seq(From)]
    BY <2>1, <2>3 DEF Types
  <2>5. \A r \in net : fromCenter'[r] # <<>>
    BY <2>1, <2>3 DEF Types
  <2> QED BY <1>9, <2>1, <2>4, <2>5 DEF Types, DoSend, clientVars
<1>10. CASE TakeMessage
  BY <1>10, TakeShape DEF Types, clientVars, wireVars
<1> QED
  BY <1>1, <1>2, <1>3, <1>4, <1>5, <1>6, <1>7, <1>8, <1>9, <1>10
     DEF Next, SceneStep, SendStep, HandleNetEvent

\* What a step of a scene server does to the events: it adds one, or none.
LEMMA EventsOfScene ==
    ASSUME Types, (\E s \in Scenes : Connect(s) \/ Leave(s)) \/ (\E m \in Messages : Send(m))
    PROVE  /\ UNCHANGED <<users, rest, m_linkid, sendQueue, taken, net, received, fromCenter, m_msgPack, shared>>
           /\ \/ UNCHANGED events
              \/ \E s \in Scenes, e \in Event : events' = Append(events, [from |-> s, event |-> e])
<1>1. ASSUME NEW s \in Scenes, Connect(s) \/ Leave(s)
      PROVE  /\ UNCHANGED <<users, rest, m_linkid, sendQueue, taken, clientVars, fromCenter>>
             /\ \E e \in Event : events' = Append(events, [from |-> s, event |-> e])
  BY <1>1 DEF Connect, Leave, ToCenter, Event
<1>2. ASSUME NEW m \in Messages, Send(m)
      PROVE  /\ UNCHANGED <<users, rest, m_linkid, sendQueue, taken, net, received, fromCenter, m_msgPack, shared>>
             /\ \/ UNCHANGED events
                \/ \E s \in Scenes, e \in Event : events' = Append(events, [from |-> s, event |-> e])
  <2>1. m[1] \in Scenes
    BY MessageShape
  <2>2. [kind |-> "message", pack |-> m_msgPack[m[1]]] \in Event
    BY <2>1 DEF Types, Event
  <2> QED BY <1>2, <2>1, <2>2 DEF Send, ToCenter, wireVars
<1> QED BY <1>1, <1>2 DEF clientVars

LEMMA ForwardingStep ==
    ASSUME Types, Forwarding, Next
    PROVE  Forwarding'
<1>1. CASE (\E s \in Scenes : Connect(s) \/ Leave(s)) \/ (\E m \in Messages : Send(m))
  <2>1. CASE UNCHANGED events
    BY <1>1, <2>1, EventsOfScene DEF Forwarding
  <2>2. ASSUME NEW s \in Scenes, NEW e \in Event, events' = Append(events, [from |-> s, event |-> e])
        PROVE  Forwarding'
    <3>1. [from |-> s, event |-> e] \in [from : Scenes, event : Event]
      OBVIOUS
    <3>2. events \in Seq([from : Scenes, event : Event])
      BY DEF Types
    <3> DEFINE x == [from |-> s, event |-> e]
    <3>3. x \in [from : Scenes, event : Event] /\ events' = Append(events, x)
      BY <2>2, <3>1
    <3> HIDE DEF x
    <3>4. events' # <<>> /\ (events # <<>> => Head(events') = Head(events))
      BY <3>2, <3>3, AppendShape
    <3> QED BY <1>1, <3>4, EventsOfScene DEF Forwarding
  <2> QED BY <1>1, <2>1, <2>2, EventsOfScene
<1>2. CASE \/ \E m \in Messages : WriteHeader(m) \/ WriteBody(m)
           \/ \E s \in Scenes : SceneStep(s)
           \/ TakeMessage \/ \E k \in DOMAIN taken : DoSend(k)
  BY <1>2 DEF WriteHeader, WriteBody, SceneStep, ReadPack, PushPack, TakeMessage, DoSend, centerVars,
              Forwarding
<1>3. CASE AddUser \/ DeleteUser
  BY <1>3 DEF AddUser, DeleteUser, Handles, Forwarding
<1>4. CASE ForwardBegins \/ ForwardMsg \/ ForwardEnds
  BY <1>4 DEF ForwardBegins, ForwardMsg, ForwardEnds, Handles, Forwarding
<1> QED
  BY <1>1, <1>2, <1>3, <1>4 DEF Next, SendStep, HandleNetEvent

\* A step that does not concern the threads of s.
LEMMA ClientStays ==
    ASSUME NEW s \in Scenes, Client(s), m_msgPack'[s] = m_msgPack[s],
           s \in net' => s \in net /\ Head(fromCenter'[s]) = Head(fromCenter[s]),
           \A n \in Messages : n[1] = s => sending'[n] \in {sending[n], "sent"}
    PROVE  Client(s)'
<1>1. \A n \in Messages : Busy(n, s)' => Busy(n, s) /\ sending'[n] = sending[n]
  BY DEF Busy
<1> QED BY <1>1 DEF Client

LEMMA ClientsStep ==
    ASSUME Types, Clients, Next
    PROVE  Clients'
<1>1. CASE (\E s \in Scenes : Connect(s) \/ Leave(s)) \/ HandleNetEvent \/ TakeMessage
  <2>1. UNCHANGED <<sending, net, m_msgPack, shared, fromCenter>>
    BY <1>1, CenterKeeps DEF Connect, Leave, TakeMessage, wireVars, clientVars
  <2> QED BY <2>1, ClientStays DEF Clients
<1>2. ASSUME NEW m \in Messages, WriteHeader(m)
      PROVE  Clients'
  <2>1. m[1] \in Scenes /\ m # Nothing
    BY MessageShape
  <2>2. /\ sending' = [sending EXCEPT ![m] = "header"] /\ UNCHANGED net /\ UNCHANGED fromCenter
        /\ m_msgPack' = [m_msgPack EXCEPT ![m[1]] = [m_msgPack[m[1]] EXCEPT !.head = m]]
        /\ shared' = shared \union (IF Using(m[1], m) THEN {m[1]} ELSE {})
    BY <1>2 DEF WriteHeader, Overlaps, wireVars
  <2> SUFFICES ASSUME NEW s \in Scenes, s \notin shared'
               PROVE  Client(s)'
    BY DEF Clients
  <2>3. CASE s # m[1]
    <3>1. m_msgPack'[s] = m_msgPack[s] /\ \A n \in Messages : n[1] = s => sending'[n] = sending[n]
      BY <2>1, <2>2, <2>3 DEF Types
    <3> QED BY <2>2, <3>1, ClientStays DEF Clients
  <2>4. CASE s = m[1]
    <3>1. s \notin net /\ \A n \in Messages : Busy(n, s) => n = m
      BY <2>1, <2>2, <2>4 DEF Using, Busy
    <3>2. m_msgPack[s] \in Pack /\ m_msgPack'[s] = [m_msgPack[s] EXCEPT !.head = m]
      BY <2>1, <2>2, <2>4 DEF Types
    <3>3. m_msgPack'[s].head = m
      BY <3>2 DEF Pack
    <3>4. sending'[m] = "header" /\ \A n \in Messages : n # m => sending'[n] = sending[n]
      BY <2>2 DEF Types
    <3>5. \A n \in Messages : Busy(n, s)' => n = m
      BY <3>1, <3>4 DEF Busy
    <3> QED BY <2>2, <3>1, <3>3, <3>4, <3>5 DEF Client
  <2> QED BY <2>3, <2>4
<1>3. ASSUME NEW m \in Messages, WriteBody(m)
      PROVE  Clients'
  <2>1. m[1] \in Scenes
    BY MessageShape
  <2>2. /\ sending[m] = "header" /\ sending' = [sending EXCEPT ![m] = "body"]
        /\ m_msgPack' = [m_msgPack EXCEPT ![m[1]] = [m_msgPack[m[1]] EXCEPT !.body = m]]
        /\ UNCHANGED net /\ UNCHANGED fromCenter /\ UNCHANGED shared
    BY <1>3 DEF WriteBody, wireVars
  <2> SUFFICES ASSUME NEW s \in Scenes, s \notin shared
               PROVE  Client(s)'
    BY <2>2 DEF Clients
  <2>3. CASE s # m[1]
    <3>1. m_msgPack'[s] = m_msgPack[s] /\ \A n \in Messages : n[1] = s => sending'[n] = sending[n]
      BY <2>1, <2>2, <2>3 DEF Types
    <3> QED BY <2>2, <3>1, ClientStays DEF Clients
  <2>4. CASE s = m[1]
    <3>1. Busy(m, s) /\ Client(s)
      BY <2>2, <2>4 DEF Clients, Busy
    <3>2. m_msgPack[s].head = m /\ s \notin net /\ \A n \in Messages : Busy(n, s) => n = m
      BY <3>1 DEF Client
    <3>3. m_msgPack[s] \in Pack /\ m_msgPack'[s] = [m_msgPack[s] EXCEPT !.body = m]
      BY <2>1, <2>2, <2>4 DEF Types
    <3>4. m_msgPack'[s].head = m /\ m_msgPack'[s].body = m
      BY <3>2, <3>3 DEF Pack
    <3>5. \A n \in Messages : n # m => sending'[n] = sending[n]
      BY <2>2 DEF Types
    <3>6. \A n \in Messages : Busy(n, s)' => n = m
      BY <3>2, <3>5 DEF Busy
    <3> QED BY <2>2, <3>2, <3>4, <3>6 DEF Client
  <2> QED BY <2>3, <2>4
<1>4. ASSUME NEW m \in Messages, Send(m)
      PROVE  Clients'
  <2>1. \A n \in Messages : sending'[n] \in {sending[n], "sent"}
    BY <1>4 DEF Send, Types
  <2>2. UNCHANGED <<net, m_msgPack, shared, fromCenter>>
    BY <1>4 DEF Send, wireVars
  <2> QED BY <2>1, <2>2, ClientStays DEF Clients
<1>5. ASSUME NEW s \in Scenes, ReadPack(s)
      PROVE  Clients'
  <2>1. /\ m_msgPack' = [m_msgPack EXCEPT ![s] = Head(fromCenter[s]).pack]
        /\ net' = net \union {s} /\ UNCHANGED sending /\ UNCHANGED fromCenter
        /\ shared' = shared \union (IF Using(s, Nothing) THEN {s} ELSE {})
    BY <1>5 DEF ReadPack, Overlaps, wireVars
  <2> SUFFICES ASSUME NEW r \in Scenes, r \notin shared'
               PROVE  Client(r)'
    BY DEF Clients
  <2>2. CASE r # s
    <3>1. m_msgPack'[r] = m_msgPack[r]
      BY <2>1, <2>2 DEF Types
    <3> QED BY <2>1, <2>2, <3>1, ClientStays DEF Clients
  <2>3. CASE r = s
    <3>1. \A n \in Messages : ~ Busy(n, s)
      BY <2>1, <2>3, MessageShape DEF Using, Busy
    <3>2. m_msgPack'[s] = Head(fromCenter[s]).pack /\ \A n \in Messages : ~ Busy(n, s)'
      BY <2>1, <3>1 DEF Types, Busy
    <3> QED BY <2>1, <2>3, <3>2 DEF Client
  <2> QED BY <2>2, <2>3
<1>6. ASSUME NEW s \in Scenes, PushPack(s)
      PROVE  Clients'
  <2>1. /\ net' = net \ {s} /\ UNCHANGED sending /\ UNCHANGED m_msgPack /\ UNCHANGED shared
        /\ \A r \in Scenes : r # s => fromCenter'[r] = fromCenter[r]
    BY <1>6 DEF PushPack, Types
  <2> SUFFICES ASSUME NEW r \in Scenes, r \notin shared
               PROVE  Client(r)'
    BY <2>1 DEF Clients
  <2> QED BY <2>1, ClientStays DEF Clients
<1>7. ASSUME NEW g \in DOMAIN taken, DoSend(g)
      PROVE  Clients'
  <2>1. UNCHANGED <<sending, net, m_msgPack, shared>>
    BY <1>7 DEF DoSend, clientVars
  <2>2. PICK to \in Scenes, x \in From :
            \/ UNCHANGED fromCenter
            \/ fromCenter' = [fromCenter EXCEPT ![to] = Append(fromCenter[to], x)]
    BY <1>7, DoSendShape
  <2> SUFFICES ASSUME NEW r \in Scenes, r \notin shared
               PROVE  Client(r)'
    BY <2>1 DEF Clients
  <2>3. r \in net => Head(fromCenter'[r]) = Head(fromCenter[r])
    <3>1. r \in net => fromCenter[r] # <<>>
      BY DEF Types
    <3>2. fromCenter[to] \in Seq(From)
      BY DEF Types
    <3>3. CASE r = to /\ fromCenter' = [fromCenter EXCEPT ![to] = Append(fromCenter[to], x)]
      <4>1. fromCenter'[r] = Append(fromCenter[r], x)
        BY <3>3 DEF Types
      <4> QED BY <3>1, <3>2, <3>3, <4>1, AppendShape
    <3>4. CASE ~ (r = to /\ fromCenter' = [fromCenter EXCEPT ![to] = Append(fromCenter[to], x)])
      BY <2>2, <3>4 DEF Types
    <3> QED BY <3>3, <3>4
  <2> QED BY <2>1, <2>3, ClientStays DEF Clients
<1> QED
  BY <1>1, <1>2, <1>3, <1>4, <1>5, <1>6, <1>7 DEF Next, SceneStep, SendStep

LEMMA DistinctStays ==
    ASSUME NEW S, NEW q \in Seq(S), Distinct(q)
    PROVE  /\ \A e \in S : (\A k \in DOMAIN q : q[k] # e) => Distinct(Append(q, e))
           /\ q # <<>> => Distinct(Tail(q))
           /\ \A k \in DOMAIN q : Distinct(Erased(q, k))
<1>1. ASSUME NEW e \in S, \A k \in DOMAIN q : q[k] # e
      PROVE  Distinct(Append(q, e))
  BY <1>1, AppendShape DEF Distinct
<1>2. ASSUME q # <<>>
      PROVE  Distinct(Tail(q))
  BY <1>2, TailShape DEF Distinct
<1>3. ASSUME NEW k \in DOMAIN q
      PROVE  Distinct(Erased(q, k))
  <2>1. PICK r : r = Erased(q, k)
    OBVIOUS
  <2>2. Erasure(r, q, k) /\ k \in DOMAIN q
    BY <2>1, EraseShape
  <2>3. \A i \in DOMAIN r : i \in DOMAIN q /\ i + 1 \in DOMAIN q
    BY <2>2 DEF Erasure
  <2>4. Distinct(r)
    BY <2>2, <2>3 DEF Distinct, Erasure
  <2> QED BY <2>1, <2>4
<1> QED BY <1>1, <1>2, <1>3

\* One more event, and the first event gone.
LEMMA MoreEvents ==
    ASSUME Types, NEW s \in Scenes, NEW e \in Event,
           events' = Append(events, [from |-> s, event |-> e])
    PROVE  /\ Len(events) \in Nat /\ DOMAIN events = 1..Len(events)
           /\ DOMAIN events' = 1..(Len(events) + 1)
           /\ \A k \in DOMAIN events : events'[k] = events[k]
           /\ events'[Len(events) + 1].from = s /\ events'[Len(events) + 1].event = e
<1> DEFINE x == [from |-> s, event |-> e]
<1>1. x \in [from : Scenes, event : Event] /\ events' = Append(events, x) /\ x.from = s /\ x.event = e
  OBVIOUS
<1> HIDE DEF x
<1>2. events \in Seq([from : Scenes, event : Event])
  BY DEF Types
<1> QED BY <1>1, <1>2, AppendShape

LEMMA LessEvents ==
    ASSUME Types, events # <<>>, events' = Tail(events)
    PROVE  /\ Len(events) \in Nat \ {0} /\ DOMAIN events = 1..Len(events)
           /\ DOMAIN events' = 1..(Len(events) - 1)
           /\ \A k \in DOMAIN events' : k + 1 \in DOMAIN events /\ events'[k] = events[k + 1]
BY TailShape DEF Types

LEMMA JoinedStep ==
    ASSUME Types, Forwarding, Joined, Next
    PROVE  Joined'
<1>0. /\ Distinct(users) /\ users \in Seq(Scenes) /\ Distinct(rest) /\ rest \in Seq(Scenes)
  BY DEF Types, Joined
<1>1. ASSUME NEW s \in Scenes, Connect(s)
      PROVE  Joined'
  <2>1. UNCHANGED users /\ UNCHANGED rest /\ link[s] = "down" /\ link' = [link EXCEPT ![s] = "up"]
    BY <1>1 DEF Connect
  <2>2. PICK e \in Event : e.kind = "connected" /\ events' = Append(events, [from |-> s, event |-> e])
    BY <1>1 DEF Connect, ToCenter, Event
  <2>3. \A k \in DOMAIN events : ~ Connects(k, s)
    BY <2>1 DEF Joined
  <2>4. \A r \in Scenes : \A k \in DOMAIN events' : Connects(k, r)' =>
            (k = Len(events) + 1 /\ r = s) \/ (k \in DOMAIN events /\ Connects(k, r))
    BY <2>2, MoreEvents DEF Connects
  <2>5. \A r \in Scenes : (link'[r] # "down" <=> link[r] # "down" \/ r = s) /\ (Known(r)' <=> Known(r))
    BY <2>1 DEF Types, Known
  <2> QED BY <1>0, <2>1, <2>3, <2>4, <2>5 DEF Joined
<1>2. CASE (\E s \in Scenes : Leave(s)) \/ (\E m \in Messages : Send(m))
  <2>1. UNCHANGED users /\ UNCHANGED rest
    BY <1>2 DEF Leave, Send
  <2>2. \/ UNCHANGED events
        \/ \E s \in Scenes, e \in Event : e.kind # "connected" /\ events' = Append(events, [from |-> s, event |-> e])
    <3>1. ASSUME NEW s \in Scenes, Leave(s)
          PROVE  \E e \in Event : e.kind # "connected" /\ events' = Append(events, [from |-> s, event |-> e])
      BY <3>1 DEF Leave, ToCenter, Event
    <3>2. ASSUME NEW m \in Messages, Send(m)
          PROVE  \/ UNCHANGED events
                 \/ \E s \in Scenes, e \in Event : e.kind # "connected" /\ events' = Append(events, [from |-> s, event |-> e])
      <4>1. m[1] \in Scenes
        BY MessageShape
      <4>2. PICK e \in Event : e = [kind |-> "message", pack |-> m_msgPack[m[1]]]
        BY <4>1 DEF Types, Event
      <4>3. e.kind # "connected"
        BY <4>2
      <4> QED BY <3>2, <4>1, <4>2, <4>3 DEF Send, ToCenter
    <3> QED BY <1>2, <3>1, <3>2
  <2>3. \A r \in Scenes : \A k \in DOMAIN events' : Connects(k, r)' => k \in DOMAIN events /\ Connects(k, r)
    <3>1. CASE UNCHANGED events
      BY <3>1 DEF Connects
    <3>2. ASSUME NEW s \in Scenes, NEW e \in Event, e.kind # "connected",
                 events' = Append(events, [from |-> s, event |-> e])
          PROVE  \A r \in Scenes : \A k \in DOMAIN events' : Connects(k, r)' => k \in DOMAIN events /\ Connects(k, r)
      <4>1. /\ Len(events) \in Nat /\ DOMAIN events = 1..Len(events)
            /\ DOMAIN events' = 1..(Len(events) + 1)
            /\ \A k \in DOMAIN events : events'[k] = events[k]
            /\ events'[Len(events) + 1].event.kind # "connected"
        BY <3>2, MoreEvents
      <4> QED BY <4>1 DEF Connects
    <3> QED BY <2>2, <3>1, <3>2
  <2>4. \A r \in Scenes : (link[r] # "down" => link'[r] # "down") /\ (Known(r)' <=> Known(r))
    BY <1>2, <2>1 DEF Types, Known, Leave, Send, wireVars
  <2> QED BY <1>0, <2>1, <2>3, <2>4 DEF Joined
<1>3. CASE \/ \E m \in Messages : WriteHeader(m) \/ WriteBody(m)
           \/ \E s \in Scenes : SceneStep(s)
           \/ TakeMessage \/ \E k \in DOMAIN taken : DoSend(k)
  <2>1. UNCHANGED <<link, events, users, rest>>
    BY <1>3 DEF WriteHeader, WriteBody, SceneStep, ReadPack, PushPack, TakeMessage, DoSend, centerVars,
                wireVars
  <2> QED BY <2>1 DEF Joined, Connects, Known
<1>4. CASE AddUser
  <2>1. /\ events # <<>> /\ Head(events).event.kind = "connected" /\ events' = Tail(events)
        /\ users' = Append(users, Head(events).from) /\ UNCHANGED link /\ UNCHANGED rest
    BY <1>4 DEF AddUser, Handles, wireVars
  <2>2. PICK u \in Scenes : u = Head(events).from
    BY <2>1, EventShape
  <2>3. 1 \in DOMAIN events /\ Connects(1, u)
    BY <2>1, <2>2, EventShape DEF Connects
  <2>4. ~ Known(u) /\ link[u] # "down" /\ \A k \in DOMAIN events : Connects(k, u) => k = 1
    BY <2>3 DEF Joined
  <2>5. Distinct(users')
    BY <1>0, <2>1, <2>2, <2>4, DistinctStays DEF Known
  <2>6. \A r \in Scenes : Known(r)' => Known(r) \/ r = u
    BY <1>0, <2>1, <2>2, AppendShape DEF Known
  <2>7. \A r \in Scenes : \A k \in DOMAIN events' : Connects(k, r)' =>
            k + 1 \in DOMAIN events /\ Connects(k + 1, r) /\ k \in Nat \ {0}
    BY <2>1, LessEvents DEF Connects
  <2>8. ASSUME NEW r \in Scenes, NEW k \in DOMAIN events', Connects(k, r)'
        PROVE  /\ link'[r] # "down" /\ ~ Known(r)'
               /\ \A j \in DOMAIN events' : Connects(j, r)' => j = k
    <3>1. k + 1 \in DOMAIN events /\ Connects(k + 1, r) /\ k \in Nat \ {0}
      BY <2>7, <2>8
    <3>2. r # u
      BY <2>4, <3>1
    <3> QED BY <2>1, <2>6, <2>7, <3>1, <3>2 DEF Joined
  <2>9. \A r \in Scenes : Known(r)' => link'[r] # "down"
    BY <2>1, <2>4, <2>6 DEF Joined
  <2> QED BY <1>0, <2>1, <2>5, <2>8, <2>9 DEF Joined
<1>5. CASE DeleteUser \/ ForwardEnds
  <2>1. /\ events # <<>> /\ events' = Tail(events) /\ UNCHANGED link /\ UNCHANGED rest
    BY <1>5 DEF DeleteUser, ForwardEnds, Handles, wireVars, Forwarding
  <2>2. Distinct(users') /\ \A r \in Scenes : Known(r)' => Known(r)
    <3>1. CASE UNCHANGED users
      BY <1>0, <3>1 DEF Known
    <3>2. ASSUME NEW k \in DOMAIN users,
                 users' = Erased(users, k)
          PROVE  Distinct(users') /\ \A r \in Scenes : Known(r)' => Known(r)
      <4>1. Distinct(users')
        BY <1>0, <3>2, DistinctStays
      <4>2. Erasure(users', users, k)
        BY <1>0, <3>2, EraseShape
      <4>3. \A i \in DOMAIN users' : i \in DOMAIN users /\ i + 1 \in DOMAIN users
        BY <4>2, <3>2 DEF Erasure
      <4>4. \A i \in DOMAIN users' : users'[i] = users[i] \/ users'[i] = users[i + 1]
        BY <4>2, <3>2 DEF Erasure
      <4> QED BY <4>1, <4>3, <4>4 DEF Known
    <3> QED BY <1>5, <3>1, <3>2 DEF DeleteUser, ForwardEnds, Erased
  <2>3. \A r \in Scenes : \A k \in DOMAIN events' : Connects(k, r)' =>
            k + 1 \in DOMAIN events /\ Connects(k + 1, r) /\ k \in Nat \ {0}
    BY <2>1, LessEvents DEF Connects
  <2> QED BY <1>0, <2>1, <2>2, <2>3 DEF Joined
<1>6. CASE ForwardBegins \/ ForwardMsg
  <2>1. UNCHANGED link /\ UNCHANGED events /\ UNCHANGED users
    BY <1>6 DEF ForwardBegins, ForwardMsg, wireVars
  <2>2. Distinct(rest')
    BY <1>0, <1>6, DistinctStays DEF ForwardBegins, ForwardMsg
  <2> QED BY <2>1, <2>2 DEF Joined, Connects, Known
<1> QED
  BY <1>1, <1>2, <1>3, <1>4, <1>5, <1>6 DEF Next, SendStep, HandleNetEvent

LEMMA NotBackStep ==
    ASSUME Types, Forwarding, NotBack, Next
    PROVE  NotBack'
<1>1. CASE ForwardMsg
  <2>1. UNCHANGED <<fromCenter, received>>
    BY <1>1 DEF ForwardMsg, clientVars, wireVars
  <2>2. CASE UNCHANGED sendQueue
    <3>1. UNCHANGED Way
      BY <1>1, <2>2 DEF ForwardMsg, Way
    <3> QED BY <2>1, <3>1 DEF NotBack
  <2>3. CASE Head(rest) # Head(events).from /\ SendTo(Head(rest))
    <3>1. PICK x \in [to : Scenes, from : Scenes, pack : Pack] :
              x.to # x.from /\ Way' = Append(Way, x)
      BY <1>1, <2>3, ForwardShape
    <3>2. Way \in Seq([to : Scenes, from : Scenes, pack : Pack])
      BY WayShape
    <3>3. \A k \in DOMAIN Way' : Way'[k].to # Way'[k].from
      BY <3>1, <3>2, AppendShape DEF NotBack
    <3> QED BY <2>1, <3>3 DEF NotBack
  <2> QED BY <1>1, <2>2, <2>3 DEF ForwardMsg
<1>2. ASSUME NEW g \in DOMAIN taken, DoSend(g)
      PROVE  NotBack'
  <2>1. PICK s \in Scenes, x \in From :
              /\ g \in DOMAIN Way /\ Erasure(Way', Way, g)
              /\ Way[g].to = s /\ Way[g].from = x.from
              /\ \/ UNCHANGED fromCenter
                 \/ fromCenter' = [fromCenter EXCEPT ![s] = Append(fromCenter[s], x)]
    BY <1>2, DoSendShape
  <2>2. UNCHANGED received
    BY <1>2 DEF DoSend, clientVars
  <2>3. x.from # s /\ \A k \in DOMAIN Way' : Way'[k].to # Way'[k].from
    <3>1. \A k \in DOMAIN Way' : \E j \in DOMAIN Way : Way'[k] = Way[j]
      BY <2>1, ErasureShape
    <3> QED BY <2>1, <3>1 DEF NotBack
  <2>4. ASSUME NEW r \in Scenes, NEW k \in DOMAIN fromCenter'[r]
        PROVE  fromCenter'[r][k].from # r
    <3>1. fromCenter[s] \in Seq(From)
      BY DEF Types
    <3>2. \A i \in DOMAIN Append(fromCenter[s], x) : Append(fromCenter[s], x)[i].from # s
      BY <2>3, <3>1, AppendShape DEF NotBack
    <3>3. fromCenter'[r] = fromCenter[r] \/ (r = s /\ fromCenter'[s] = Append(fromCenter[s], x))
      BY <2>1 DEF Types
    <3> QED BY <2>4, <3>2, <3>3 DEF NotBack
  <2> QED BY <2>2, <2>3, <2>4 DEF NotBack
<1>3. ASSUME NEW s \in Scenes, PushPack(s)
      PROVE  NotBack'
  <2>1. PICK x \in From :
              /\ fromCenter[s] # <<>> /\ x.from = Head(fromCenter[s]).from
              /\ received' = [received EXCEPT ![s] = Append(received[s], x)]
              /\ fromCenter' = [fromCenter EXCEPT ![s] = Tail(fromCenter[s])]
              /\ UNCHANGED Way
    BY <1>3, PushShape
  <2>2. fromCenter[s] \in Seq(From) /\ received[s] \in Seq(From)
    BY DEF Types
  <2>3. x.from # s /\ \A k \in DOMAIN Tail(fromCenter[s]) : Tail(fromCenter[s])[k].from # s
    BY <2>1, <2>2, TailShape DEF NotBack
  <2>4. \A k \in DOMAIN Append(received[s], x) : Append(received[s], x)[k].from # s
    BY <2>2, <2>3, AppendShape DEF NotBack
  <2>5. \A r \in Scenes : /\ r # s => fromCenter'[r] = fromCenter[r] /\ received'[r] = received[r]
                          /\ fromCenter'[s] = Tail(fromCenter[s]) /\ received'[s] = Append(received[s], x)
    BY <2>1 DEF Types
  <2>6. ASSUME NEW r \in Scenes
        PROVE  /\ \A k \in DOMAIN fromCenter'[r] : fromCenter'[r][k].from # r
               /\ \A k \in DOMAIN received'[r] : received'[r][k].from # r
    <3>1. CASE r = s
      BY <2>3, <2>4, <2>5, <3>1
    <3>2. CASE r # s
      BY <2>5, <3>2 DEF NotBack
    <3> QED BY <3>1, <3>2
  <2> QED BY <2>1, <2>6 DEF NotBack
<1>4. CASE \/ \E s \in Scenes : Connect(s) \/ Leave(s) \/ ReadPack(s)
           \/ \E m \in Messages : SendStep(m)
           \/ AddUser \/ DeleteUser \/ ForwardBegins \/ ForwardEnds
  <2>1. UNCHANGED <<fromCenter, received, Way>>
    BY <1>4 DEF Connect, Leave, ReadPack, SendStep, WriteHeader, WriteBody, Send, AddUser, DeleteUser,
                ForwardBegins, ForwardEnds, clientVars, wireVars, centerVars, Way
  <2> QED BY <2>1 DEF NotBack
<1>5. CASE TakeMessage
  <2>1. UNCHANGED <<fromCenter, received, Way>>
    BY <1>5, TakeShape DEF clientVars, wireVars
  <2> QED BY <2>1 DEF NotBack
<1> QED BY <1>1, <1>2, <1>3, <1>4, <1>5 DEF Next, SceneStep, HandleNetEvent

\* Whose m_msgPack was shared stays known, and what is sent is sent.
LEMMA Monotone ==
    ASSUME Types, Next
    PROVE  /\ shared \subseteq shared'
           /\ \A m \in Messages : sending[m] = "sent" => sending'[m] = "sent"
<1>1. CASE (\E s \in Scenes : Connect(s) \/ Leave(s)) \/ HandleNetEvent \/ TakeMessage
           \/ \E k \in DOMAIN taken : DoSend(k)
  BY <1>1, CenterKeeps DEF Connect, Leave, TakeMessage, DoSend, clientVars
<1>2. CASE \E s \in Scenes : SceneStep(s)
  BY <1>2 DEF SceneStep, ReadPack, PushPack, Overlaps
<1>3. CASE \E m \in Messages : SendStep(m)
  BY <1>3 DEF SendStep, WriteHeader, WriteBody, Send, Overlaps, Types
<1> QED BY <1>1, <1>2, <1>3 DEF Next

LEMMA OriginStays ==
    ASSUME Types, Next, NEW f, NEW pack, Origin(f, pack)
    PROVE  Origin(f, pack)'
<1>1. CASE f \in shared'
  BY <1>1 DEF Origin
<1>2. CASE f \notin shared'
  <2>1. PICK m \in Messages : m[1] = f /\ pack = Whole(m) /\ sending[m] = "sent"
    BY <1>2, Monotone DEF Origin
  <2>2. sending'[m] = "sent"
    BY <2>1, Monotone
  <2> QED BY <2>1, <2>2 DEF Origin, Whole
<1> QED BY <1>1, <1>2

\* What Send sends.
LEMMA SendsWhole ==
    ASSUME Types, Clients, NEW m \in Messages, Send(m), m[1] \notin shared
    PROVE  m_msgPack[m[1]] = Whole(m)
<1>1. m[1] \in Scenes /\ Busy(m, m[1]) /\ sending[m] = "body"
  BY MessageShape DEF Send, Busy
<1>2. m_msgPack[m[1]].head = m /\ m_msgPack[m[1]].body = m /\ m_msgPack[m[1]] \in Pack
  <2>1. Client(m[1])
    BY <1>1 DEF Clients
  <2> QED BY <1>1, <2>1 DEF Client, Types
<1> QED BY <1>2 DEF Pack, Whole

LEMMA TracedStep ==
    ASSUME Types, Clients, Forwarding, Traced, Next
    PROVE  Traced'
<1> DEFINE T1 == \A k \in DOMAIN events : events[k].event.kind = "message" =>
                    Origin(events[k].from, events[k].event.pack)
           T2 == \A k \in DOMAIN Way : Origin(Way[k].from, Way[k].pack)
           T3 == \A s \in Scenes : \A k \in DOMAIN fromCenter[s] :
                    Origin(fromCenter[s][k].from, fromCenter[s][k].pack)
           T4 == \A s \in Scenes \ shared : \A k \in DOMAIN received[s] :
                    Origin(received[s][k].from, received[s][k].pack)
<1>0. T1 /\ T2 /\ T3 /\ T4 /\ (T1' /\ T2' /\ T3' /\ T4' => Traced')
  BY DEF Traced
<1>a. UNCHANGED events => T1'
  BY <1>0, OriginStays
<1>b. UNCHANGED Way => T2'
  BY <1>0, OriginStays
<1>c. UNCHANGED fromCenter => T3'
  BY <1>0, OriginStays
<1>d. UNCHANGED received => T4'
  BY <1>0, OriginStays, Monotone
<1> HIDE DEF T1, T2, T3, T4
<1>1. ASSUME NEW s \in Scenes, Connect(s) \/ Leave(s)
      PROVE  Traced'
  <2>1. PICK e \in Event : e.kind # "message" /\ events' = Append(events, [from |-> s, event |-> e])
    BY <1>1 DEF Connect, Leave, ToCenter, Event
  <2>2. /\ Len(events) \in Nat /\ DOMAIN events = 1..Len(events)
        /\ DOMAIN events' = 1..(Len(events) + 1)
        /\ \A k \in DOMAIN events : events'[k] = events[k]
        /\ events'[Len(events) + 1].event.kind # "message"
    BY <2>1, MoreEvents
  <2>3. T1'
    BY <1>0, <2>2, OriginStays DEF T1
  <2> QED BY <1>0, <1>1, <1>b, <1>c, <1>d, <2>3 DEF Connect, Leave, clientVars, Way
<1>2. CASE \/ \E m \in Messages : WriteHeader(m) \/ WriteBody(m)
           \/ \E s \in Scenes : ReadPack(s)
           \/ ForwardBegins
  <2>1. UNCHANGED <<events, Way, fromCenter, received>>
    BY <1>2 DEF WriteHeader, WriteBody, ReadPack, ForwardBegins, centerVars, wireVars, clientVars, Way
  <2> QED BY <1>0, <1>a, <1>b, <1>c, <1>d, <2>1
<1>3. ASSUME NEW m \in Messages, Send(m)
      PROVE  Traced'
  <2>1. T1'
    <3>1. CASE UNCHANGED events
      BY <1>a, <3>1
    <3>2. CASE link[m[1]] = "up"
      <4>1. m[1] \in Scenes /\ m_msgPack[m[1]] \in Pack
        BY MessageShape DEF Types
      <4>2. PICK e \in Event : e = [kind |-> "message", pack |-> m_msgPack[m[1]]]
        BY <4>1 DEF Event
      <4>3. events' = Append(events, [from |-> m[1], event |-> e]) /\ e.pack = m_msgPack[m[1]]
        BY <1>3, <3>2, <4>2 DEF Send, ToCenter
      <4>4. /\ Len(events) \in Nat /\ DOMAIN events = 1..Len(events)
            /\ DOMAIN events' = 1..(Len(events) + 1)
            /\ \A k \in DOMAIN events : events'[k] = events[k]
            /\ events'[Len(events) + 1].from = m[1]
            /\ events'[Len(events) + 1].event.pack = m_msgPack[m[1]]
        BY <4>1, <4>3, MoreEvents
      <4>5. Origin(m[1], m_msgPack[m[1]])'
        <5>1. sending'[m] = "sent" /\ m_msgPack' = m_msgPack /\ shared' = shared
          BY <1>3 DEF Send, Types
        <5>2. m[1] \notin shared => m_msgPack[m[1]] = Whole(m)
          BY <1>3, SendsWhole
        <5> QED BY <5>1, <5>2 DEF Origin, Whole
      <4>6. m_msgPack' = m_msgPack
        BY <1>3 DEF Send
      <4> QED BY <1>0, <4>4, <4>5, <4>6, OriginStays DEF T1
    <3> QED BY <1>3, <3>1, <3>2 DEF Send
  <2> QED BY <1>0, <1>3, <1>b, <1>c, <1>d, <2>1 DEF Send, wireVars, Way
<1>4. CASE AddUser \/ DeleteUser \/ ForwardEnds
  <2>1. events # <<>> /\ events' = Tail(events) /\ UNCHANGED <<Way, fromCenter, received>>
    BY <1>4 DEF AddUser, DeleteUser, ForwardEnds, Handles, Forwarding, clientVars, wireVars, Way
  <2>2. \A k \in DOMAIN events' : k + 1 \in DOMAIN events /\ events'[k] = events[k + 1]
    BY <2>1, LessEvents
  <2>3. T1'
    BY <1>0, <2>2, OriginStays DEF T1
  <2> QED BY <1>0, <1>b, <1>c, <1>d, <2>1, <2>3
<1>5. CASE ForwardMsg
  <2>1. UNCHANGED <<events, fromCenter, received>>
    BY <1>5 DEF ForwardMsg, clientVars, wireVars
  <2>2. T2'
    <3>1. CASE UNCHANGED sendQueue
      BY <1>5, <1>b, <3>1 DEF ForwardMsg, Way
    <3>2. CASE Head(rest) # Head(events).from
      <4>1. PICK x \in [to : Scenes, from : Scenes, pack : Pack] :
              /\ x.from = Head(events).from /\ x.pack = Head(events).event.pack
              /\ Way' = Append(Way, x)
        BY <1>5, <3>2, ForwardShape
      <4>2. Head(events) = events[1] /\ 1 \in DOMAIN events /\ events[1].event.kind = "message"
        BY <1>5, EventShape DEF ForwardMsg, Forwarding
      <4>3. Origin(x.from, x.pack)
        BY <1>0, <4>1, <4>2 DEF T1
      <4>4. Way \in Seq([to : Scenes, from : Scenes, pack : Pack])
        BY WayShape
      <4>5. \A k \in DOMAIN Way' : Origin(Way'[k].from, Way'[k].pack)
        BY <1>0, <4>1, <4>3, <4>4, AppendShape DEF T2
      <4> QED BY <4>5, OriginStays DEF T2
    <3> QED BY <1>5, <3>1, <3>2 DEF ForwardMsg
  <2> QED BY <1>0, <1>a, <1>c, <1>d, <2>1, <2>2
<1>6. ASSUME NEW g \in DOMAIN taken, DoSend(g)
      PROVE  Traced'
  <2>1. PICK s \in Scenes, x \in From :
              /\ g \in DOMAIN Way /\ Erasure(Way', Way, g)
              /\ Way[g].from = x.from /\ Way[g].pack = x.pack
              /\ \/ UNCHANGED fromCenter
                 \/ fromCenter' = [fromCenter EXCEPT ![s] = Append(fromCenter[s], x)]
    BY <1>6, DoSendShape
  <2>3. \A k \in DOMAIN Way' : \E j \in DOMAIN Way : Way'[k] = Way[j]
    BY <2>1, ErasureShape
  <2>4. T2'
    <3>1. \A k \in DOMAIN Way' : Origin(Way'[k].from, Way'[k].pack)
      BY <1>0, <2>3 DEF T2
    <3> QED BY <3>1, OriginStays DEF T2
  <2>5. T3'
    <3>1. fromCenter[s] \in Seq(From) /\ Origin(x.from, x.pack)
      BY <1>0, <2>1 DEF Types, T2
    <3>2. \A i \in DOMAIN Append(fromCenter[s], x) :
              Origin(Append(fromCenter[s], x)[i].from, Append(fromCenter[s], x)[i].pack)
      BY <1>0, <3>1, AppendShape DEF T3
    <3>3. \A r \in Scenes : fromCenter'[r] = fromCenter[r] \/ (r = s /\ fromCenter'[s] = Append(fromCenter[s], x))
      BY <2>1 DEF Types
    <3>4. \A r \in Scenes : \A k \in DOMAIN fromCenter'[r] :
              Origin(fromCenter'[r][k].from, fromCenter'[r][k].pack)
      BY <1>0, <3>2, <3>3 DEF T3
    <3> QED BY <3>4, OriginStays DEF T3
  <2> QED BY <1>0, <1>6, <1>a, <1>d, <2>4, <2>5 DEF DoSend, clientVars
<1>7. ASSUME NEW s \in Scenes, PushPack(s)
      PROVE  Traced'
  <2>1. PICK x \in From :
              /\ fromCenter[s] # <<>> /\ x.from = Head(fromCenter[s]).from /\ x.pack = m_msgPack[s]
              /\ received' = [received EXCEPT ![s] = Append(received[s], x)]
              /\ fromCenter' = [fromCenter EXCEPT ![s] = Tail(fromCenter[s])]
    BY <1>7, PushShape
  <2>2. fromCenter[s] \in Seq(From) /\ received[s] \in Seq(From)
    BY DEF Types
  <2>3. UNCHANGED <<events, Way, shared>>
    BY <1>7 DEF PushPack, centerVars, Way
  <2>4. T3'
    <3>1. \A k \in DOMAIN Tail(fromCenter[s]) :
              Origin(Tail(fromCenter[s])[k].from, Tail(fromCenter[s])[k].pack)
      BY <1>0, <2>1, <2>2, TailShape DEF T3
    <3>2. \A r \in Scenes : fromCenter'[r] = fromCenter[r] \/ (r = s /\ fromCenter'[s] = Tail(fromCenter[s]))
      BY <2>1 DEF Types
    <3>3. \A r \in Scenes : \A k \in DOMAIN fromCenter'[r] :
              Origin(fromCenter'[r][k].from, fromCenter'[r][k].pack)
      BY <1>0, <3>1, <3>2 DEF T3
    <3> QED BY <3>3, OriginStays DEF T3
  <2>5. T4'
    <3>1. ASSUME s \notin shared
          PROVE  \A k \in DOMAIN Append(received[s], x) :
                    Origin(Append(received[s], x)[k].from, Append(received[s], x)[k].pack)
      <4>1. m_msgPack[s] = Head(fromCenter[s]).pack
        BY <1>7, <3>1 DEF PushPack, Clients, Client
      <4>2. Origin(x.from, x.pack)
        BY <1>0, <2>1, <2>2, <4>1, TailShape DEF T3
      <4> QED BY <1>0, <2>2, <3>1, <4>2, AppendShape DEF T4
    <3>2. \A r \in Scenes : received'[r] = received[r] \/ (r = s /\ received'[s] = Append(received[s], x))
      BY <2>1 DEF Types
    <3>3. \A r \in Scenes \ shared : \A k \in DOMAIN received'[r] :
              Origin(received'[r][k].from, received'[r][k].pack)
      BY <1>0, <3>1, <3>2 DEF T4
    <3> QED BY <2>3, <3>3, OriginStays DEF T4
  <2> QED BY <1>0, <1>a, <1>b, <2>3, <2>4, <2>5
<1>8. CASE TakeMessage
  <2>1. UNCHANGED <<events, Way, fromCenter, received>>
    BY <1>8, TakeShape DEF clientVars, wireVars
  <2> QED BY <1>0, <1>a, <1>b, <1>c, <1>d, <2>1
<1> QED
  BY <1>1, <1>2, <1>3, <1>4, <1>5, <1>6, <1>7, <1>8 DEF Next, SceneStep, SendStep, HandleNetEvent

LEMMA OnceStep ==
    ASSUME Inv, Next, Traced'
    PROVE  Once'
<1> SUFFICES ASSUME NEW s \in Scenes, NEW f \in Scenes, s \notin shared', f \notin shared',
                    NEW pack \in Pack
             PROVE  OnceAt(s, f, pack)'
  BY DEF Once
<1>0. /\ Types /\ Clients /\ Forwarding /\ Joined /\ Traced
      /\ s \notin shared /\ f \notin shared /\ OnceAt(s, f, pack)
  BY Monotone DEF Inv, Once
<1>a. UNCHANGED events => UNCHANGED InEvents(f, pack)
  BY DEF InEvents
<1>b. UNCHANGED Way => UNCHANGED InQueue(s, f, pack)
  BY DEF InQueue
<1>c. fromCenter'[s] = fromCenter[s] => UNCHANGED OnLink(s, f, pack)
  BY DEF OnLink
<1>d. received'[s] = received[s] => UNCHANGED InScene(s, f, pack)
  BY DEF InScene
<1>e. UNCHANGED <<m_linkid, rest>> => \A k : Awaits(k, s)' <=> Awaits(k, s)
  BY DEF Awaits
<1>1. ASSUME NEW r \in Scenes, Connect(r) \/ Leave(r)
      PROVE  OnceAt(s, f, pack)'
  <2>1. PICK e \in Event : e.kind # "message" /\ events' = Append(events, [from |-> r, event |-> e])
    BY <1>1 DEF Connect, Leave, ToCenter, Event
  <2>2. /\ Len(events) \in Nat /\ DOMAIN events = 1..Len(events)
        /\ DOMAIN events' = 1..(Len(events) + 1)
        /\ \A k \in DOMAIN events : events'[k] = events[k]
        /\ events'[Len(events) + 1].event.kind # "message"
    BY <1>0, <2>1, MoreEvents
  <2>3. InEvents(f, pack)' = InEvents(f, pack)
    BY <2>2 DEF InEvents
  <2>4. UNCHANGED <<Way, fromCenter, received>> /\ UNCHANGED <<m_linkid, rest>>
    BY <1>1 DEF Connect, Leave, clientVars, Way
  <2> QED BY <1>0, <1>b, <1>c, <1>d, <1>e, <2>3, <2>4 DEF OnceAt
<1>2. CASE \/ \E m \in Messages : WriteHeader(m) \/ WriteBody(m)
           \/ \E r \in Scenes : ReadPack(r)
           \/ TakeMessage
  <2>1. UNCHANGED events /\ UNCHANGED <<Way, fromCenter, received>> /\ UNCHANGED <<m_linkid, rest>>
    <3>1. CASE TakeMessage
      BY <1>0, <3>1, TakeShape DEF clientVars, wireVars
    <3> QED BY <1>2, <3>1 DEF WriteHeader, WriteBody, ReadPack, centerVars, wireVars, Way
  <2> QED BY <1>0, <1>a, <1>b, <1>c, <1>d, <1>e, <2>1 DEF OnceAt
<1>3. ASSUME NEW m \in Messages, Send(m)
      PROVE  OnceAt(s, f, pack)'
  <2>1. UNCHANGED <<Way, fromCenter, received>> /\ UNCHANGED <<m_linkid, rest>>
    BY <1>3 DEF Send, wireVars, Way
  <2>2. CASE UNCHANGED events
    BY <1>0, <1>a, <1>b, <1>c, <1>d, <1>e, <2>1, <2>2 DEF OnceAt
  <2>3. CASE link[m[1]] = "up"
    <3>1. m[1] \in Scenes /\ m_msgPack[m[1]] \in Pack
      BY <1>0, MessageShape DEF Types
    <3>2. PICK e \in Event : e = [kind |-> "message", pack |-> m_msgPack[m[1]]]
      BY <3>1 DEF Event
    <3>3. events' = Append(events, [from |-> m[1], event |-> e]) /\ e.pack = m_msgPack[m[1]]
      BY <1>3, <2>3, <3>2 DEF Send, ToCenter
    <3>4. /\ Len(events) \in Nat /\ DOMAIN events = 1..Len(events)
          /\ DOMAIN events' = 1..(Len(events) + 1)
          /\ \A k \in DOMAIN events : events'[k] = events[k]
          /\ events'[Len(events) + 1].from = m[1]
          /\ events'[Len(events) + 1].event.pack = m_msgPack[m[1]]
      BY <1>0, <3>1, <3>3, MoreEvents
    <3>5. CASE m[1] = f /\ m_msgPack[f] = pack
      <4>1. pack = Whole(m) /\ sending[m] = "body"
        BY <1>0, <1>3, <3>5, SendsWhole DEF Send
      <4>2. ~ Origin(f, pack)
        BY <1>0, <4>1, MessageShape DEF Origin
      <4>3. /\ InEvents(f, pack) = {} /\ InQueue(s, f, pack) = {}
            /\ OnLink(s, f, pack) = {} /\ InScene(s, f, pack) = {}
        BY <1>0, <4>2 DEF Traced, InEvents, InQueue, OnLink, InScene
      <4>4. \A k \in InEvents(f, pack)' : k = Len(events) + 1
        BY <3>4, <4>3 DEF InEvents
      <4> QED BY <1>b, <1>c, <1>d, <2>1, <4>3, <4>4 DEF OnceAt, One
    <3>6. CASE ~ (m[1] = f /\ m_msgPack[f] = pack)
      <4>1. InEvents(f, pack)' = InEvents(f, pack)
        BY <3>4, <3>6 DEF InEvents
      <4> QED BY <1>0, <1>b, <1>c, <1>d, <1>e, <2>1, <4>1 DEF OnceAt
    <3> QED BY <3>5, <3>6
  <2> QED BY <1>3, <2>2, <2>3 DEF Send
<1>4. CASE AddUser \/ DeleteUser \/ ForwardEnds
  <2>1. events # <<>> /\ events' = Tail(events) /\ UNCHANGED <<Way, fromCenter, received>>
    BY <1>0, <1>4 DEF AddUser, DeleteUser, ForwardEnds, Handles, Forwarding, clientVars, wireVars, Way
  <2>2. \A k \in DOMAIN events' : k \in Nat \ {0} /\ k + 1 \in DOMAIN events /\ events'[k] = events[k + 1]
    BY <1>0, <2>1, LessEvents
  <2>3. \A k \in InEvents(f, pack)' : k \in Nat \ {0} /\ k + 1 \in InEvents(f, pack) /\ Awaits(k + 1, s)
    BY <2>2 DEF InEvents, Awaits
  <2> QED BY <1>0, <1>b, <1>c, <1>d, <2>1, <2>3 DEF OnceAt, One
<1>5. CASE ForwardBegins
  <2>1. UNCHANGED events /\ UNCHANGED <<Way, fromCenter, received>> /\ m_linkid = Nothing
    BY <1>5 DEF ForwardBegins, Handles, clientVars, wireVars, Way
  <2>2. \A k : Awaits(k, s)
    BY <2>1 DEF Awaits
  <2> QED BY <1>0, <1>a, <1>b, <1>c, <1>d, <2>1, <2>2 DEF OnceAt
<1>6. CASE ForwardMsg
  <2>1. /\ UNCHANGED events /\ UNCHANGED <<fromCenter, received>>
        /\ m_linkid # Nothing /\ rest # <<>> /\ rest' = Tail(rest)
    BY <1>6 DEF ForwardMsg, clientVars, wireVars
  <2>2. rest \in Seq(Scenes) /\ Distinct(rest)
    BY <1>0 DEF Types, Joined
  <2>3. /\ Head(rest) = rest[1] /\ 1 \in DOMAIN rest /\ Head(rest) \in Scenes
        /\ \A i \in DOMAIN rest' : i \in Nat \ {0} /\ i + 1 \in DOMAIN rest /\ rest'[i] = rest[i + 1]
    BY <2>1, <2>2, TailShape
  <2>4. \A k : m_linkid' # Nothing => (Awaits(k, s)' => Awaits(k, s))
    BY <2>1, <2>3 DEF Awaits
  <2>5. CASE UNCHANGED <<sendQueue, m_linkid>>
    <3>1. UNCHANGED Way
      BY <1>6, <2>5 DEF ForwardMsg, Way
    <3> QED BY <1>0, <1>a, <1>b, <1>c, <1>d, <2>1, <2>4, <2>5, <3>1 DEF OnceAt
  <2>6. CASE Head(rest) # Head(events).from
    <3>1. PICK x \in [to : Scenes, from : Scenes, pack : Pack] :
              /\ x.to = Head(rest) /\ x.from = Head(events).from /\ x.pack = Head(events).event.pack
              /\ Way' = Append(Way, x) /\ m_linkid' = x.to
      BY <1>0, <1>6, <2>6, ForwardShape
    <3>2. m_linkid' # Nothing
      BY <3>1, <2>3, MessageShape
    <3>3. Way \in Seq([to : Scenes, from : Scenes, pack : Pack])
      BY <1>0, WayShape
    <3>4. /\ Len(Way) \in Nat /\ DOMAIN Way = 1..Len(Way)
          /\ DOMAIN Way' = 1..(Len(Way) + 1)
          /\ \A k \in DOMAIN Way : Way'[k] = Way[k]
          /\ Way'[Len(Way) + 1] = x
      BY <3>1, <3>3, AppendShape
    <3>5. CASE x.to = s /\ x.from = f /\ x.pack = pack
      <4>1. 1 \in InEvents(f, pack) /\ Awaits(1, s)
        <5>1. Head(events) = events[1] /\ 1 \in DOMAIN events /\ events[1].event.kind = "message"
          BY <1>0, <2>1, EventShape DEF Forwarding
        <5> QED BY <2>3, <3>1, <3>5, <5>1 DEF InEvents, Awaits
      <4>2. InQueue(s, f, pack) = {} /\ OnLink(s, f, pack) = {} /\ InScene(s, f, pack) = {}
            /\ \A k \in InEvents(f, pack) : k = 1
        BY <1>0, <4>1 DEF OnceAt, One
      <4>3. \A k \in InQueue(s, f, pack)' : k = Len(Way) + 1
        BY <3>4, <4>2 DEF InQueue
      <4>4. ~ Awaits(1, s)'
        <5>1. ASSUME NEW i \in DOMAIN rest', rest'[i] = s
              PROVE  FALSE
          <6>1. i + 1 \in DOMAIN rest /\ rest[i + 1] = rest[1] /\ i + 1 # 1
            BY <2>3, <3>1, <3>5, <5>1
          <6> QED BY <2>2, <2>3, <6>1 DEF Distinct
        <5> QED BY <3>2, <5>1 DEF Awaits
      <4> QED BY <1>0, <1>a, <1>c, <1>d, <2>1, <4>2, <4>3, <4>4 DEF OnceAt, One
    <3>6. CASE ~ (x.to = s /\ x.from = f /\ x.pack = pack)
      <4>1. InQueue(s, f, pack)' = InQueue(s, f, pack)
        BY <3>4, <3>6 DEF InQueue
      <4> QED BY <1>0, <1>a, <1>c, <1>d, <2>1, <2>4, <3>2, <4>1 DEF OnceAt
    <3> QED BY <3>5, <3>6
  <2> QED BY <1>6, <2>5, <2>6 DEF ForwardMsg
<1>7. ASSUME NEW g \in DOMAIN taken, DoSend(g)
      PROVE  OnceAt(s, f, pack)'
  <2>1. PICK to \in Scenes, x \in From :
              /\ g \in DOMAIN Way /\ Erasure(Way', Way, g)
              /\ Way[g].to = to /\ Way[g].from = x.from /\ Way[g].pack = x.pack
              /\ \/ UNCHANGED fromCenter
                 \/ fromCenter' = [fromCenter EXCEPT ![to] = Append(fromCenter[to], x)]
    BY <1>0, <1>7, DoSendShape
  <2>2. UNCHANGED events /\ UNCHANGED received /\ UNCHANGED <<m_linkid, rest>>
    BY <1>7 DEF DoSend, clientVars
  <2>3. \A k \in DOMAIN Way' :
              /\ k \in Nat /\ (k < g \/ g <= k)
              /\ k < g => k \in DOMAIN Way /\ Way'[k] = Way[k]
              /\ g <= k => k + 1 \in DOMAIN Way /\ Way'[k] = Way[k + 1] /\ k + 1 # g
    BY <2>1, ErasureShape
  <2>4. \A k \in InQueue(s, f, pack)' :
              /\ k \in Nat /\ (k < g \/ g <= k)
              /\ k < g => k \in InQueue(s, f, pack)
              /\ g <= k => k + 1 \in InQueue(s, f, pack) /\ k + 1 # g
    BY <2>3 DEF InQueue
  <2>5. One(InQueue(s, f, pack)') /\ (InQueue(s, f, pack)' # {} => InQueue(s, f, pack) # {})
    <3>1. g \in Nat
      BY <2>1 DEF Erasure
    <3>2. One(InQueue(s, f, pack))
      BY <1>0 DEF OnceAt
    <3> QED BY <2>4, <3>1, <3>2 DEF One
  <2>6. CASE to = s /\ x.from = f /\ x.pack = pack
    <3>1. g \in InQueue(s, f, pack) /\ g \in Nat
      BY <2>1, <2>6 DEF InQueue, Erasure
    <3>a. \A k \in InQueue(s, f, pack) : k = g
      BY <1>0, <3>1 DEF OnceAt, One
    <3>b. InQueue(s, f, pack)' = {}
      BY <2>4, <3>1, <3>a
    <3>2. /\ InQueue(s, f, pack)' = {} /\ OnLink(s, f, pack) = {} /\ InScene(s, f, pack) = {}
          /\ ~ \E k \in InEvents(f, pack) : Awaits(k, s)
      BY <1>0, <3>1, <3>b DEF OnceAt
    <3>3. One(OnLink(s, f, pack)')
      <4>1. fromCenter[s] \in Seq(From)
        BY <1>0 DEF Types
      <4>2. fromCenter'[s] = fromCenter[s] \/ fromCenter'[s] = Append(fromCenter[s], x)
        BY <1>0, <2>1, <2>6 DEF Types
      <4>a. PICK q \in Seq(From), n \in Nat :
                /\ q = Append(fromCenter[s], x) /\ n = Len(fromCenter[s])
                /\ DOMAIN fromCenter[s] = 1..n /\ DOMAIN q = 1..(n + 1)
                /\ \A k \in 1..n : q[k] = fromCenter[s][k]
        <5>1. /\ Len(fromCenter[s]) \in Nat /\ DOMAIN fromCenter[s] = 1..Len(fromCenter[s])
              /\ Append(fromCenter[s], x) \in Seq(From)
              /\ DOMAIN Append(fromCenter[s], x) = 1..(Len(fromCenter[s]) + 1)
              /\ \A k \in 1..Len(fromCenter[s]) : Append(fromCenter[s], x)[k] = fromCenter[s][k]
          BY <4>1, <2>1, AppendShape
        <5> QED BY <5>1
      <4>b. fromCenter'[s] = fromCenter[s] \/ fromCenter'[s] = q
        BY <4>2, <4>a
      <4>c. \A k \in 1..n : ~ (fromCenter[s][k].from = f /\ fromCenter[s][k].pack = pack)
        BY <3>2, <4>a DEF OnLink
      <4>d. ASSUME NEW k \in OnLink(s, f, pack)'
            PROVE  k = n + 1
        <5>1. k \in DOMAIN fromCenter'[s] /\ fromCenter'[s][k].from = f /\ fromCenter'[s][k].pack = pack
          BY <4>d DEF OnLink
        <5>2. k \notin 1..n
          BY <4>a, <4>b, <4>c, <5>1
        <5>3. k \in 1..(n + 1)
          BY <4>a, <4>b, <5>1
        <5> QED BY <5>2, <5>3
      <4>3. \A k \in OnLink(s, f, pack)' : k = Len(fromCenter[s]) + 1
        BY <4>a, <4>d
      <4> QED BY <4>3 DEF One
    <3> QED BY <1>0, <1>a, <1>d, <1>e, <2>2, <3>2, <3>3 DEF OnceAt, One
  <2>7. CASE ~ (to = s /\ x.from = f /\ x.pack = pack)
    <3>1. OnLink(s, f, pack)' = OnLink(s, f, pack)
      <4>1. CASE fromCenter'[s] = fromCenter[s]
        BY <1>c, <4>1
      <4>2. CASE fromCenter'[s] # fromCenter[s]
        <5>1. to = s /\ fromCenter'[s] = Append(fromCenter[s], x) /\ fromCenter[s] \in Seq(From)
          BY <1>0, <2>1, <4>2 DEF Types
        <5>2. ~ (x.from = f /\ x.pack = pack)
          BY <2>7, <5>1
        <5> QED BY <5>1, <5>2, AppendShape DEF OnLink
      <4> QED BY <4>1, <4>2
    <3> QED BY <1>0, <1>a, <1>d, <1>e, <2>2, <2>5, <3>1 DEF OnceAt, One
  <2> QED BY <2>6, <2>7
<1>8. ASSUME NEW r \in Scenes, PushPack(r)
      PROVE  OnceAt(s, f, pack)'
  <2>1. PICK x \in From :
              /\ fromCenter[r] # <<>> /\ x.from = Head(fromCenter[r]).from /\ x.pack = m_msgPack[r]
              /\ received' = [received EXCEPT ![r] = Append(received[r], x)]
              /\ fromCenter' = [fromCenter EXCEPT ![r] = Tail(fromCenter[r])]
    BY <1>0, <1>8, PushShape
  <2>2. UNCHANGED events /\ UNCHANGED Way /\ UNCHANGED <<m_linkid, rest>>
    BY <1>8 DEF PushPack, centerVars, Way
  <2>3. CASE r # s
    <3>1. fromCenter'[s] = fromCenter[s] /\ received'[s] = received[s]
      BY <1>0, <2>1, <2>3 DEF Types
    <3> QED BY <1>0, <1>a, <1>b, <1>c, <1>d, <1>e, <2>2, <3>1 DEF OnceAt
  <2>4. CASE r = s
    <3>1. /\ fromCenter[s] \in Seq(From) /\ received[s] \in Seq(From)
          /\ fromCenter'[s] = Tail(fromCenter[s]) /\ received'[s] = Append(received[s], x)
      BY <1>0, <2>1, <2>4 DEF Types
    <3>a. fromCenter[s] # <<>>
      BY <2>1, <2>4
    <3>2. /\ 1 \in DOMAIN fromCenter[s] /\ Head(fromCenter[s]) = fromCenter[s][1]
          /\ \A k \in DOMAIN fromCenter'[s] : k \in Nat \ {0} /\ k + 1 \in DOMAIN fromCenter[s]
                                              /\ fromCenter'[s][k] = fromCenter[s][k + 1]
      BY <3>1, <3>a, TailShape
    <3>3. \A k \in OnLink(s, f, pack)' : k \in Nat \ {0} /\ k + 1 \in OnLink(s, f, pack)
      BY <3>2 DEF OnLink
    <3>4. x.from = fromCenter[s][1].from /\ x.pack = fromCenter[s][1].pack
      BY <1>0, <1>8, <2>1, <2>4, <3>2 DEF PushPack, Clients, Client
    <3>5. /\ Len(received[s]) \in Nat /\ DOMAIN received[s] = 1..Len(received[s])
          /\ DOMAIN received'[s] = 1..(Len(received[s]) + 1)
          /\ \A k \in DOMAIN received[s] : received'[s][k] = received[s][k]
          /\ received'[s][Len(received[s]) + 1] = x
      BY <3>1, AppendShape
    <3>6. CASE x.from = f /\ x.pack = pack
      <4>1. 1 \in OnLink(s, f, pack)
        BY <3>2, <3>4, <3>6 DEF OnLink
      <4>2. /\ OnLink(s, f, pack)' = {} /\ InScene(s, f, pack) = {} /\ InQueue(s, f, pack) = {}
            /\ ~ \E k \in InEvents(f, pack) : Awaits(k, s)
        BY <1>0, <3>3, <4>1 DEF OnceAt, One
      <4>3. \A k \in InScene(s, f, pack)' : k = Len(received[s]) + 1
        BY <3>5, <4>2 DEF InScene
      <4> QED BY <1>0, <1>a, <1>b, <1>e, <2>2, <4>2, <4>3 DEF OnceAt, One
    <3>7. CASE ~ (x.from = f /\ x.pack = pack)
      <4>1. InScene(s, f, pack)' = InScene(s, f, pack)
        BY <3>5, <3>7 DEF InScene
      <4> QED BY <1>0, <1>a, <1>b, <1>e, <2>2, <3>3, <4>1 DEF OnceAt, One
    <3> QED BY <3>6, <3>7
  <2> QED BY <2>3, <2>4
<1> QED
  BY <1>1, <1>2, <1>3, <1>4, <1>5, <1>6, <1>7, <1>8 DEF Next, SceneStep, SendStep, HandleNetEvent

LEMMA NextInv == Inv /\ [Next]_vars => Inv'
<1> SUFFICES ASSUME Inv, [Next]_vars PROVE Inv'
  OBVIOUS
<1>1. CASE Next
  <2>1. Types' /\ Clients' /\ Forwarding'
    BY <1>1, TypesStep, ClientsStep, ForwardingStep DEF Inv
  <2>2. Joined' /\ NotBack' /\ Traced'
    BY <1>1, JoinedStep, NotBackStep, TracedStep DEF Inv
  <2>3. Once'
    BY <1>1, <2>2, OnceStep
  <2> QED BY <2>1, <2>2, <2>3 DEF Inv
<1>2. CASE UNCHANGED vars
  <2>1. UNCHANGED <<link, sending, net, m_msgPack, shared, received, fromCenter, events, users, rest,
                    m_linkid, sendQueue, taken, Way>>
    BY <1>2 DEF vars, clientVars, wireVars, centerVars, Way
  <2>2. Types' /\ Forwarding'
    BY <2>1 DEF Inv, Types, Forwarding
  <2>3. Clients'
    BY <2>1, ClientStays DEF Inv, Clients
  <2>4. Joined' /\ NotBack'
    BY <2>1 DEF Inv, Joined, Connects, Known, NotBack
  <2>5. Traced'
    <3>1. \A f, pack : Origin(f, pack)' <=> Origin(f, pack)
      BY <2>1 DEF Origin, Whole
    <3> QED BY <2>1, <3>1 DEF Inv, Traced
  <2>6. Once'
    <3>1. \A s, f, pack : /\ InEvents(f, pack)' = InEvents(f, pack)
                          /\ InQueue(s, f, pack)' = InQueue(s, f, pack)
                          /\ OnLink(s, f, pack)' = OnLink(s, f, pack)
                          /\ InScene(s, f, pack)' = InScene(s, f, pack)
      BY <2>1 DEF InEvents, InQueue, OnLink, InScene
    <3>2. \A k, s : Awaits(k, s)' <=> Awaits(k, s)
      BY <2>1 DEF Awaits
    <3>3. \A s, f, pack : OnceAt(s, f, pack) => OnceAt(s, f, pack)'
      BY <3>1, <3>2 DEF OnceAt
    <3> QED BY <2>1, <3>3 DEF Inv, Once
  <2> QED BY <2>2, <2>3, <2>4, <2>5, <2>6 DEF Inv
<1> QED BY <1>1, <1>2

LEMMA Always == Spec => []Inv
BY InitInv, NextInv, PTL DEF Spec

\* Nothing that a scene server sends comes back to it, and none gets a message
\* twice, whichever scene servers come and go, as long as no two threads are in
\* one m_msgPack.
THEOREM GetsOnce == Spec => []OnceToEachOther
<1>1. Inv => OnceToEachOther
  <2> SUFFICES ASSUME Inv, NEW s \in Scenes
               PROVE  /\ \A k \in DOMAIN received[s] : received[s][k].from # s
                      /\ \A j, k \in GetsWhole(s) : received[s][j] = received[s][k] => j = k
    BY DEF OnceToEachOther
  <2>1. \A k \in DOMAIN received[s] : received[s][k].from # s
    BY DEF Inv, NotBack
  <2>2. ASSUME NEW j \in GetsWhole(s), NEW k \in GetsWhole(s), received[s][j] = received[s][k]
        PROVE  j = k
    <3>1. PICK f, pack : f = received[s][j].from /\ pack = received[s][j].pack
      OBVIOUS
    <3>2. s \notin shared /\ f \notin shared /\ j \in DOMAIN received[s] /\ k \in DOMAIN received[s]
      BY <2>2, <3>1 DEF GetsWhole
    <3>3. received[s][j] \in From
      <4>1. received[s] \in Seq(From)
        BY DEF Inv, Types
      <4> QED BY <3>2, <4>1
    <3>4. f \in Scenes /\ pack \in Pack
      BY <3>1, <3>3 DEF From
    <3>5. One(InScene(s, f, pack))
      BY <3>2, <3>4 DEF Inv, Once, OnceAt
    <3>6. j \in InScene(s, f, pack) /\ k \in InScene(s, f, pack)
      BY <2>2, <3>1, <3>2 DEF InScene
    <3> QED BY <3>5, <3>6 DEF One
  <2> QED BY <2>1, <2>2
<1> QED BY <1>1, Always, PTL

\* What a scene server takes is header and body of one message that its sender
\* wrote, as long as no two threads are in the m_msgPack of one of the two.
THEOREM GetsWholeMessages == Spec => []WholeUnlessShared
<1>1. Inv => WholeUnlessShared
  <2> SUFFICES ASSUME Inv, NEW s \in Scenes, NEW k \in GetsWhole(s)
               PROVE  \E m \in Messages : /\ received[s][k].pack = Whole(m)
                                          /\ received[s][k].from = m[1]
    BY DEF WholeUnlessShared
  <2>1. s \notin shared /\ received[s][k].from \notin shared /\ k \in DOMAIN received[s]
    BY DEF GetsWhole
  <2>2. Origin(received[s][k].from, received[s][k].pack)
    BY <2>1 DEF Inv, Traced
  <2> QED BY <2>1, <2>2 DEF Origin
<1> QED BY <1>1, Always, PTL
=============================================================================

---------------------------- MODULE TcpConn_proofs ----------------------------
(* What the operators of TcpConn return, for every connection: the lemmas    *)
(* the proofs about the servers cite.                                        *)
EXTENDS TcpConn, SequenceTheorems, TLAPS

(* Whatever either end does to a connection, the result is a connection.    *)
LEMMA ConnClosure ==
  ASSUME NEW k \in ConnType
  PROVE  /\ NoConn \in ConnType
         /\ Dial(k) \in ConnType /\ Send(k) \in ConnType
         /\ Receive(k) \in ConnType /\ HangUp(k) \in ConnType
         /\ ErrorSeen(k) \in ConnType
         /\ \A x \in Nat : Written(k, x) \subseteq ConnType
<1>a. /\ k.peer \in PeerStates /\ k.sent \in Nat /\ k.seen \in Nat
      /\ k.in \in Seq(Nat) /\ k.out \in Seq(Nat)
  BY DEF ConnType
<1>b. \A p \in PeerStates : [k EXCEPT !.peer = p] \in ConnType
  BY DEF ConnType
<1>c. \A x \in Nat : [k EXCEPT !.seen = x] \in ConnType
  BY DEF ConnType
<1>d. \A s \in Seq(Nat) : [k EXCEPT !.out = s] \in ConnType
  BY DEF ConnType
<1>e. \A x \in Nat, s \in Seq(Nat) : [k EXCEPT !.sent = x, !.in = s] \in ConnType
  BY DEF ConnType
<1>1. NoConn \in ConnType
  BY DEF NoConn, ConnType, PeerStates
<1>2. Dial(k) \in ConnType /\ ErrorSeen(k) \in ConnType
  BY <1>b DEF Dial, ErrorSeen, PeerStates
<1>3. Receive(k) \in ConnType
  <2>1. k.seen + 1 \in Nat BY <1>a
  <2> QED BY <2>1, <1>c DEF Receive
<1>4. HangUp(k) \in ConnType
  BY <1>b DEF HangUp, PeerStates
<1>5. Send(k) \in ConnType
  <2>1. k.sent + 1 \in Nat BY <1>a
  <2>2. Append(k.in, k.sent + 1) \in Seq(Nat) BY <1>a, <2>1
  <2> QED BY <2>1, <2>2, <1>e DEF Send
<1>6. ASSUME NEW x \in Nat PROVE Written(k, x) \subseteq ConnType
  <2>1. Append(k.out, x) \in Seq(Nat) BY <1>a
  <2>2. [k EXCEPT !.out = Append(k.out, x)] \in ConnType BY <2>1, <1>d
  <2>3. [k EXCEPT !.peer = "rst"] \in ConnType /\ [k EXCEPT !.peer = "pipe"] \in ConnType
    BY <1>b DEF PeerStates
  <2> QED BY <2>2, <2>3 DEF Written
<1> QED BY <1>1, <1>2, <1>3, <1>4, <1>5, <1>6

(* A read returns pieces that had arrived, and leaves the others.           *)
LEMMA ReadClosure ==
  ASSUME NEW k \in ConnType, NEW n \in 1..Len(k.in)
  PROVE  Taken(k, n) \in Seq(Nat) /\ Left(k, n) \in ConnType
<1>1. k.in \in Seq(Nat) BY DEF ConnType
<1>2. \A j \in 1..n : k.in[j] \in Nat BY <1>1
<1>3. \A j \in n+1..Len(k.in) : k.in[j] \in Nat BY <1>1
<1>4. SubSeq(k.in, 1, n) \in Seq(Nat) BY <1>2, SubSeqProperties
<1>5. SubSeq(k.in, n + 1, Len(k.in)) \in Seq(Nat)
  BY <1>1, <1>3, SubSeqProperties
<1> QED BY <1>4, <1>5 DEF Taken, Left, ConnType

(* What happens to out, the messages written to the peer: only a write      *)
(* changes it, and a write changes it only by appending what it writes.     *)
LEMMA OutFrame ==
  ASSUME NEW k \in ConnType
  PROVE  /\ Dial(k).out = k.out /\ Send(k).out = k.out
         /\ Receive(k).out = k.out /\ HangUp(k).out = k.out
         /\ ErrorSeen(k).out = k.out
         /\ \A n : Left(k, n).out = k.out
         /\ \A x : \A w \in Written(k, x) :
              w.out = k.out \/ w.out = Append(k.out, x)
BY DEF Dial, Send, Receive, HangUp, ErrorSeen, Left, Written, ConnType

(* Only the client's writing changes how much it has sent.                  *)
LEMMA SentFrame ==
  ASSUME NEW k \in ConnType
  PROVE  /\ Dial(k).sent = k.sent /\ Receive(k).sent = k.sent
         /\ HangUp(k).sent = k.sent /\ ErrorSeen(k).sent = k.sent
         /\ \A n : Left(k, n).sent = k.sent
BY DEF Dial, Receive, HangUp, ErrorSeen, Left, ConnType

(* Only the client's writing and the server's reading change what is unread.*)
LEMMA InFrame ==
  ASSUME NEW k \in ConnType
  PROVE  /\ Dial(k).in = k.in /\ Receive(k).in = k.in
         /\ HangUp(k).in = k.in /\ ErrorSeen(k).in = k.in
         /\ \A x : \A w \in Written(k, x) : w.in = k.in /\ w.sent = k.sent
BY DEF Dial, Receive, HangUp, ErrorSeen, Written, ConnType

(* A read of n pieces takes the first n and leaves the rest as they were.   *)
LEMMA ReadSplits ==
  ASSUME NEW k \in ConnType, NEW n \in 1..Len(k.in)
  PROVE  /\ Len(Taken(k, n)) = n /\ Len(Left(k, n).in) = Len(k.in) - n
         /\ \A j \in 1..n : Taken(k, n)[j] = k.in[j]
         /\ \A j \in 1..Len(k.in) - n : Left(k, n).in[j] = k.in[j + n]
<1>1. k.in \in Seq(Nat) BY DEF ConnType
<1>2. \A j \in 1..n : k.in[j] \in Nat BY <1>1
<1>3. \A j \in n+1..Len(k.in) : k.in[j] \in Nat BY <1>1
<1> DEFINE t == SubSeq(k.in, 1, n)
           r == SubSeq(k.in, n + 1, Len(k.in))
<1>4. Len(t) = n /\ \A j \in 1..n : t[j] = k.in[j]
  <2>1. Len(t) = n /\ \A j \in 1..n-1+1 : t[j] = k.in[1+j-1]
    BY <1>1, <1>2, SubSeqProperties
  <2> QED BY <1>1, <2>1
<1>5. Len(r) = Len(k.in) - n /\ \A j \in 1..Len(k.in) - n : r[j] = k.in[j + n]
  <2>1. /\ Len(r) = IF n + 1 <= Len(k.in) THEN Len(k.in) - (n + 1) + 1 ELSE 0
        /\ \A j \in 1..Len(k.in)-(n+1)+1 : r[j] = k.in[(n+1)+j-1]
    BY <1>1, <1>3, SubSeqProperties
  <2> QED BY <1>1, <2>1
<1>6. Taken(k, n) = t /\ Left(k, n).in = r
  BY DEF Taken, Left, ConnType
<1> QED BY <1>4, <1>5, <1>6

-----------------------------------------------------------------------------
(* The stream of a client: its writing and the server's reading keep it     *)
(* whole, wherever the server's part of it begins.                          *)
LEMMA TransitSend ==
  ASSUME NEW k \in ConnType, NEW b \in Nat, NEW h \in Seq(Nat), InTransit(k, b, h)
  PROVE  InTransit(Send(k), b, h)
<1> DEFINE l == Send(k)
<1>1. k.in \in Seq(Nat) /\ k.sent + 1 \in Nat
  BY DEF ConnType
<1>2. l.sent = k.sent + 1 /\ l.in = Append(k.in, k.sent + 1)
  BY DEF Send, ConnType
<1>3. /\ Len(l.in) = Len(k.in) + 1
      /\ l.in[Len(k.in) + 1] = k.sent + 1
      /\ \A j \in 1..Len(k.in) : l.in[j] = k.in[j]
  BY <1>1, <1>2
<1> DEFINE m == Len(h)
           q == Len(k.in)
           s == k.sent
           in == k.in
           lin == l.in
<1>4. m \in Nat /\ q \in Nat /\ s \in Nat /\ b + m + q = s
      /\ \A j \in 1..q : in[j] = b + m + j
  BY <1>1 DEF InTransit, ConnType
<1>5. Len(lin) = q + 1 /\ lin[q + 1] = s + 1 /\ \A j \in 1..q : lin[j] = in[j]
  BY <1>3
<1>6. \A j \in 1..m : h[j] = b + j
  BY DEF InTransit
<1> HIDE DEF l, m, q, s, in, lin
<1>7. b + m + (q + 1) = s + 1
  BY <1>4
<1>8. ASSUME NEW j \in 1..q + 1 PROVE lin[j] = b + m + j
  <2>1. CASE j \in 1..q
    BY <1>4, <1>5, <2>1
  <2>2. CASE j = q + 1
    BY <1>5, <1>7, <2>2
  <2> QED BY <1>4, <2>1, <2>2
<1>9. InTransit(l, b, h)
  BY <1>2, <1>5, <1>6, <1>7, <1>8 DEF InTransit, m, s, lin
<1> QED BY <1>9 DEF l

LEMMA TransitRead ==
  ASSUME NEW k \in ConnType, NEW b \in Nat, InTransit(k, b, <<>>),
         NEW n \in 1..Len(k.in)
  PROVE  InTransit(Left(k, n), b, Taken(k, n))
<1> DEFINE l == Left(k, n)
           h == Taken(k, n)
           q == Len(k.in)
           s == k.sent
           in == k.in
           lin == l.in
<1>1. l.sent = s
  BY DEF Left, ConnType
<1>2. q \in Nat /\ s \in Nat /\ n \in 1..q
  BY DEF ConnType
<1>3. b + 0 + q = s /\ \A j \in 1..q : in[j] = b + 0 + j
  BY DEF InTransit
<1>4. /\ Len(h) = n /\ Len(lin) = q - n
      /\ \A j \in 1..n : h[j] = in[j]
      /\ \A j \in 1..q - n : lin[j] = in[j + n]
  BY ReadSplits
<1> HIDE DEF l, h, q, s, in, lin
<1>5. ASSUME NEW j \in 1..n PROVE h[j] = b + j
  <2>1. j \in 1..q BY <1>2
  <2> QED BY <1>2, <1>3, <1>4, <2>1
<1>6. ASSUME NEW j \in 1..q - n PROVE lin[j] = b + n + j
  <2>1. j + n \in 1..q BY <1>2
  <2>2. lin[j] = in[j + n] BY <1>4
  <2>3. in[j + n] = b + (j + n) BY <1>2, <1>3, <2>1
  <2> QED BY <1>2, <2>2, <2>3
<1>7. b + n + (q - n) = s
  BY <1>2, <1>3
<1>8. InTransit(l, b, h)
  BY <1>1, <1>4, <1>5, <1>6, <1>7 DEF InTransit, s, lin
<1> QED BY <1>8 DEF l, h

(* It depends on what was sent and what was not read, and not on the state  *)
(* of the connection.                                                       *)
LEMMA TransitFrame ==
  ASSUME NEW k, NEW l, NEW b, NEW h, InTransit(k, b, h),
         l.in = k.in, l.sent = k.sent
  PROVE  InTransit(l, b, h)
BY DEF InTransit

(* What is held is passed on.                                               *)
LEMMA TransitPass ==
  ASSUME NEW k \in ConnType, NEW b \in Nat, NEW h \in Seq(Nat), InTransit(k, b, h)
  PROVE  /\ b + Len(h) \in 0..k.sent
         /\ InTransit(k, b + Len(h), <<>>)
<1>1. Len(h) \in Nat /\ Len(k.in) \in Nat /\ k.sent \in Nat
  BY DEF ConnType
<1>2. /\ b + Len(h) + Len(k.in) = k.sent
      /\ \A j \in 1..Len(k.in) : k.in[j] = b + Len(h) + j
  BY DEF InTransit
<1>3. b + Len(h) \in 0..k.sent
  BY <1>1, <1>2
<1> DEFINE a == b + Len(h)
<1>a. a \in Nat
  BY <1>1
<1>4. a + 0 + Len(k.in) = k.sent /\ \A j \in 1..Len(k.in) : k.in[j] = a + 0 + j
  <2>1. a + 0 = a BY <1>a
  <2> QED BY <1>2, <2>1, Zenon
<1>5. Len(<<>>) = 0 /\ \A j \in 1..0 : FALSE
  OBVIOUS
<1> HIDE DEF a
<1>6. InTransit(k, a, <<>>)
  BY <1>4, <1>5 DEF InTransit
<1> QED BY <1>3, <1>6 DEF a

(* For an echo server: what the client has sent is what was echoed, then    *)
(* what the server holds, then what was not read yet.                       *)
Stream(k, h) == InTransit(k, Len(k.out), h)

LEMMA StreamSend ==
  ASSUME NEW k \in ConnType, NEW h \in Seq(Nat), Stream(k, h)
  PROVE  Stream(Send(k), h)
<1>1. Send(k).out = k.out BY OutFrame
<1>2. Len(k.out) \in Nat BY DEF ConnType
<1> QED BY <1>1, <1>2, TransitSend DEF Stream

LEMMA StreamRead ==
  ASSUME NEW k \in ConnType, Stream(k, <<>>), NEW n \in 1..Len(k.in)
  PROVE  Stream(Left(k, n), Taken(k, n))
<1>1. Left(k, n).out = k.out BY OutFrame
<1>2. Len(k.out) \in Nat BY DEF ConnType
<1> QED BY <1>1, <1>2, TransitRead DEF Stream

LEMMA StreamEcho ==
  ASSUME NEW k \in ConnType, NEW h \in Seq(Nat), h # <<>>, Stream(k, h)
  PROVE  /\ Head(h) = Len(k.out) + 1 /\ Len(k.out) < k.sent
         /\ Stream([k EXCEPT !.out = Append(@, Head(h))], Tail(h))
<1> DEFINE l == [k EXCEPT !.out = Append(@, Head(h))]
           r == Tail(h)
<1>1. /\ k.out \in Seq(Nat) /\ k.in \in Seq(Nat) /\ k.sent \in Nat
      /\ Len(h) \in Nat /\ Len(h) > 0 /\ Head(h) = h[1] /\ Head(h) \in Nat
  BY DEF ConnType
<1>2. l.out = Append(k.out, Head(h)) /\ l.in = k.in /\ l.sent = k.sent
  BY DEF ConnType
<1>3. Len(r) = Len(h) - 1 /\ \A j \in 1..Len(r) : r[j] = h[j + 1]
  BY HeadTailProperties
<1> DEFINE o == Len(k.out)
           m == Len(h)
           q == Len(k.in)
           s == k.sent
           in == k.in
<1>4. o \in Nat /\ m \in Nat /\ m > 0 /\ q \in Nat /\ s \in Nat
  BY <1>1
<1>5. /\ o + m + q = s /\ \A j \in 1..m : h[j] = o + j
      /\ \A j \in 1..q : in[j] = o + m + j
  BY DEF Stream, InTransit
<1>6. Len(l.out) = o + 1
  BY <1>1, <1>2
<1> HIDE DEF l, r, o, m, q, s, in
<1>7. Head(h) = o + 1 /\ o < s
  BY <1>1, <1>4, <1>5
<1>8. ASSUME NEW j \in 1..Len(r) PROVE r[j] = (o + 1) + j
  <2>1. j + 1 \in 1..m BY <1>3, <1>4 DEF m
  <2>2. r[j] = o + (j + 1) BY <1>3, <1>5, <2>1
  <2> QED BY <1>4, <2>2
<1>9. (o + 1) + Len(r) = o + m
  BY <1>3, <1>4 DEF m
<1>10. Stream(l, r)
  <2> DEFINE e == Len(r)
             a == o + 1
  <2>1. e \in Nat /\ e = m - 1 /\ a \in Nat /\ a + e = o + m
    BY <1>3, <1>4, <1>9 DEF m
  <2>2. a + e + q = s /\ \A j \in 1..q : in[j] = a + e + j
    BY <1>5, <2>1
  <2>3. \A j \in 1..e : r[j] = a + j
    BY <1>8
  <2>4. Len(l.out) = a /\ l.in = in /\ Len(in) = q /\ l.sent = s
    BY <1>2, <1>6 DEF s, q, in
  <2> HIDE DEF a
  <2>5. InTransit(l, a, r)
    BY <2>2, <2>3, <2>4 DEF InTransit
  <2> QED BY <2>4, <2>5 DEF Stream
<1> QED BY <1>7, <1>10 DEF l, r, o, s

(* Only the client leaves the state "none", and what a server does to a     *)
(* connection never brings it back there.                                   *)
LEMMA PeerFrame ==
  ASSUME NEW k \in ConnType
  PROVE  /\ Dial(k).peer = "open"
         /\ Send(k).peer = k.peer /\ Receive(k).peer = k.peer
         /\ HangUp(k).peer # "none" /\ ErrorSeen(k).peer # "none"
         /\ \A n : Left(k, n).peer = k.peer
         /\ \A x : \A w \in Written(k, x) : w.peer = k.peer \/ w.peer # "none"
BY DEF Dial, Send, Receive, HangUp, ErrorSeen, Left, Written, ConnType

-----------------------------------------------------------------------------
(* For an echo server that drops what does not fit: what was echoed, the    *)
(* pieces h it holds, and what was not read yet are pieces the client sent, *)
(* and come in this order; some may be missing.                             *)
UpTo(s, n)   == \A j \in 1..Len(s) : s[j] \in 1..n
Rising(s)    == \A a, b \in 1..Len(s) : a < b => s[a] < s[b]
Before(s, t) == \A a \in 1..Len(s), b \in 1..Len(t) : s[a] < t[b]

LossyStream(k, h) ==
  /\ UpTo(k.out, k.sent) /\ UpTo(h, k.sent) /\ UpTo(k.in, k.sent)
  /\ Rising(h) /\ Rising(k.in)
  /\ Before(k.out, h) /\ Before(k.out, k.in) /\ Before(h, k.in)

(* It depends on the three sequences and on sent, and dropping what is held *)
(* does not hurt.                                                           *)
LEMMA LossyFrame ==
  ASSUME NEW k, NEW l, NEW h, LossyStream(k, h),
         l.out = k.out, l.in = k.in, l.sent = k.sent
  PROVE  LossyStream(l, h) /\ LossyStream(l, <<>>)
<1>1. Len(<<>>) = 0 OBVIOUS
<1> QED BY <1>1 DEF LossyStream, UpTo, Rising, Before

(* A new piece is later than all others.                                    *)
LEMMA LossySend ==
  ASSUME NEW k \in ConnType, NEW h \in Seq(Nat), LossyStream(k, h)
  PROVE  LossyStream(Send(k), h)
<1> DEFINE l == Send(k)
           s == k.sent
<1>1. k.in \in Seq(Nat) /\ k.out \in Seq(Nat) /\ s \in Nat
  BY DEF ConnType
<1>2. l.out = k.out /\ l.sent = s + 1 /\ l.in = Append(k.in, s + 1)
  BY DEF Send, ConnType
<1>3. /\ Len(l.in) = Len(k.in) + 1 /\ l.in[Len(k.in) + 1] = s + 1
      /\ \A j \in 1..Len(k.in) : l.in[j] = k.in[j]
  BY <1>1, <1>2
<1>4. UpTo(k.out, s) /\ UpTo(h, s) /\ UpTo(k.in, s) /\ Rising(h) /\ Rising(k.in)
      /\ Before(k.out, h) /\ Before(k.out, k.in) /\ Before(h, k.in)
  BY DEF LossyStream
<1> DEFINE in == k.in
           out == k.out
           lin == l.in
           q == Len(k.in)
<1>5. q \in Nat /\ Len(lin) = q + 1 /\ lin[q + 1] = s + 1
      /\ (\A j \in 1..q : lin[j] = in[j]) /\ Len(out) \in Nat /\ Len(h) \in Nat
  BY <1>1, <1>3
<1>i. Len(in) = q /\ UpTo(out, s) /\ UpTo(h, s) /\ UpTo(in, s) /\ Rising(in)
      /\ Before(out, in) /\ Before(h, in)
  BY <1>4
<1>s. s \in Nat BY <1>1
<1> HIDE DEF l, s, in, out, lin, q
<1>6. \A j \in 1..q + 1 : j \in 1..q \/ j = q + 1
  BY <1>5
<1>7. UpTo(out, s + 1) /\ UpTo(h, s + 1)
  BY <1>i, <1>s DEF UpTo
<1>8. UpTo(lin, s + 1)
  BY <1>i, <1>s, <1>5, <1>6 DEF UpTo
<1>9. Rising(lin)
  <2> SUFFICES ASSUME NEW a \in 1..q + 1, NEW b \in 1..q + 1, a < b
               PROVE  lin[a] < lin[b]
    BY <1>5 DEF Rising
  <2>1. a \in 1..q BY <1>5
  <2>2. in[a] \in 1..s /\ lin[a] = in[a] BY <1>i, <1>5, <2>1 DEF UpTo
  <2>3. CASE b = q + 1 BY <1>5, <1>s, <2>2, <2>3
  <2>4. CASE b \in 1..q BY <1>5, <1>i, <2>1, <2>2, <2>4 DEF Rising
  <2> QED BY <1>6, <2>3, <2>4
<1>10. Before(out, lin)
  <2> SUFFICES ASSUME NEW a \in 1..Len(out), NEW b \in 1..q + 1 PROVE out[a] < lin[b]
    BY <1>5 DEF Before
  <2>1. CASE b = q + 1 BY <1>5, <1>s, <1>i, <2>1 DEF UpTo
  <2>2. CASE b \in 1..q BY <1>5, <1>i, <2>2 DEF Before
  <2> QED BY <1>6, <2>1, <2>2
<1>11. Before(h, lin)
  <2> SUFFICES ASSUME NEW a \in 1..Len(h), NEW b \in 1..q + 1 PROVE h[a] < lin[b]
    BY <1>5 DEF Before
  <2>1. CASE b = q + 1 BY <1>5, <1>s, <1>i, <2>1 DEF UpTo
  <2>2. CASE b \in 1..q BY <1>5, <1>i, <2>2 DEF Before
  <2> QED BY <1>6, <2>1, <2>2
<1>12. LossyStream(l, h)
  BY <1>2, <1>4, <1>7, <1>8, <1>9, <1>10, <1>11 DEF LossyStream, out, lin
<1> QED BY <1>12 DEF l

LEMMA LossyRead ==
  ASSUME NEW k \in ConnType, NEW n \in 1..Len(k.in), LossyStream(k, <<>>)
  PROVE  LossyStream(Left(k, n), Taken(k, n))
<1> DEFINE l == Left(k, n)
           h == Taken(k, n)
<1>1. l.out = k.out /\ l.sent = k.sent
  BY DEF Left, ConnType
<1> DEFINE q == Len(k.in)
           s == k.sent
           in == k.in
           out == k.out
           lin == l.in
<1>2. q \in Nat /\ s \in Nat /\ n \in 1..q /\ Len(out) \in Nat
  BY DEF ConnType
<1>3. /\ UpTo(out, s) /\ UpTo(in, s) /\ Rising(in) /\ Before(out, in)
      /\ Len(in) = q
  BY DEF LossyStream
<1>4. /\ Len(h) = n /\ Len(lin) = q - n
      /\ \A j \in 1..n : h[j] = in[j]
      /\ \A j \in 1..q - n : lin[j] = in[j + n]
  BY ReadSplits
<1> HIDE DEF l, h, q, s, in, out, lin
<1>5. \A j \in 1..n : j \in 1..q
  BY <1>2
<1>6. \A j \in 1..q - n : j + n \in 1..q /\ j + n > n
  BY <1>2
<1>7. UpTo(h, s) /\ Rising(h) /\ Before(out, h)
  BY <1>2, <1>3, <1>4, <1>5 DEF UpTo, Rising, Before
<1>8. UpTo(lin, s) /\ Before(out, lin)
  BY <1>2, <1>3, <1>4, <1>6 DEF UpTo, Before
<1>9. Rising(lin)
  <2> SUFFICES ASSUME NEW a \in 1..q - n, NEW b \in 1..q - n, a < b
               PROVE  lin[a] < lin[b]
    BY <1>4 DEF Rising
  <2>1. a + n \in 1..q /\ b + n \in 1..q /\ a + n < b + n BY <1>2, <1>6
  <2> QED BY <1>3, <1>4, <2>1 DEF Rising
<1>10. Before(h, lin)
  <2> SUFFICES ASSUME NEW a \in 1..n, NEW b \in 1..q - n PROVE h[a] < lin[b]
    BY <1>4 DEF Before
  <2>1. a \in 1..q /\ b + n \in 1..q /\ a < b + n BY <1>2, <1>5, <1>6
  <2> QED BY <1>3, <1>4, <2>1 DEF Rising
<1>11. LossyStream(l, h)
  BY <1>1, <1>3, <1>7, <1>8, <1>9, <1>10 DEF LossyStream, s, out, lin
<1> QED BY <1>11 DEF l, h

LEMMA LossyWrite ==
  ASSUME NEW k \in ConnType, NEW h \in Seq(Nat), h # <<>>, LossyStream(k, h)
  PROVE  /\ Head(h) \in 1..k.sent /\ \A j \in 1..Len(k.out) : k.out[j] < Head(h)
         /\ LossyStream([k EXCEPT !.out = Append(@, Head(h))], Tail(h))
<1> DEFINE l == [k EXCEPT !.out = Append(@, Head(h))]
           r == Tail(h)
           x == Head(h)
           m == Len(h)
           in == k.in
           out == k.out
           lout == l.out
           p == Len(k.out)
           s == k.sent
<1>1. /\ out \in Seq(Nat) /\ in \in Seq(Nat) /\ s \in Nat
      /\ m \in Nat /\ m > 0 /\ x = h[1] /\ x \in Nat
  BY DEF ConnType
<1>2. lout = Append(k.out, x) /\ l.in = in /\ l.sent = s
  BY DEF ConnType
<1>3. Len(r) = m - 1 /\ \A j \in 1..m - 1 : r[j] = h[j + 1]
  BY HeadTailProperties
<1>4. p \in Nat /\ Len(out) = p /\ Len(in) \in Nat /\ Len(lout) = p + 1
      /\ lout[p + 1] = x /\ \A j \in 1..p : lout[j] = out[j]
  BY <1>1, <1>2
<1>5. /\ UpTo(out, s) /\ UpTo(h, s) /\ UpTo(in, s)
      /\ Rising(h) /\ Rising(in)
      /\ Before(out, h) /\ Before(out, in) /\ Before(h, in) /\ Len(h) = m
  BY DEF LossyStream
<1> HIDE DEF l, r, x, m, in, out, lout, p, s
<1>6. 1 \in 1..m /\ \A j \in 1..m - 1 : j + 1 \in 1..m /\ 1 < j + 1
  BY <1>1
<1>7. x \in 1..s /\ \A j \in 1..p : out[j] < x
  BY <1>1, <1>4, <1>5, <1>6 DEF UpTo, Before
<1>8. UpTo(r, s) /\ Before(r, in) /\ Rising(r)
  <2>1. UpTo(r, s) BY <1>3, <1>5, <1>6 DEF UpTo
  <2>2. Before(r, in) BY <1>3, <1>5, <1>6 DEF Before
  <2>3. ASSUME NEW a \in 1..m - 1, NEW b \in 1..m - 1, a < b PROVE r[a] < r[b]
    <3>1. a + 1 \in 1..m /\ b + 1 \in 1..m /\ a + 1 < b + 1 BY <1>1, <2>3
    <3> QED BY <1>3, <1>5, <3>1 DEF Rising
  <2> QED BY <1>3, <2>1, <2>2, <2>3 DEF Rising
<1>9. \A j \in 1..p + 1 : j \in 1..p \/ j = p + 1
  BY <1>4
<1>10. UpTo(lout, s)
  BY <1>4, <1>5, <1>7, <1>9 DEF UpTo
<1>11. Before(lout, in)
  <2> SUFFICES ASSUME NEW a \in 1..p + 1, NEW b \in 1..Len(in) PROVE lout[a] < in[b]
    BY <1>4 DEF Before
  <2>1. CASE a \in 1..p BY <1>4, <1>5, <2>1 DEF Before
  <2>2. CASE a = p + 1 BY <1>1, <1>4, <1>5, <1>6, <2>2 DEF Before
  <2> QED BY <1>9, <2>1, <2>2
<1>12. Before(lout, r)
  <2> SUFFICES ASSUME NEW a \in 1..p + 1, NEW b \in 1..m - 1 PROVE lout[a] < r[b]
    BY <1>3, <1>4 DEF Before
  <2>1. r[b] = h[b + 1] /\ b + 1 \in 1..m /\ 1 < b + 1 BY <1>3, <1>6
  <2>2. CASE a \in 1..p BY <1>4, <1>5, <2>1, <2>2 DEF Before
  <2>3. CASE a = p + 1 BY <1>1, <1>4, <1>5, <1>6, <2>1, <2>3 DEF Rising
  <2> QED BY <1>9, <2>2, <2>3
<1>13. LossyStream(l, r)
  BY <1>2, <1>5, <1>8, <1>10, <1>11, <1>12 DEF LossyStream, in, s, lout
<1> QED BY <1>4, <1>7, <1>13 DEF l, r, x, s, p, out
===============================================================================

--------------------------- MODULE Sessions_proofs ---------------------------
(* Proofs about the programs that serve one client at a time: the echo       *)
(* servers of ch4, ch5, ch9, ch10 and ch15, the servers of ch1, ch2, ch7,    *)
(* ch13 and ch16 that send or read one text, and the calculator of ch5, for  *)
(* any clients, buffers, lines, texts and requests.                          *)
EXTENDS MCSessions, SequenceTheorems, WellFoundedInduction, TLAPS

-----------------------------------------------------------------------------
(* The pieces a program sends are numbered, so that what is under way is a   *)
(* run of consecutive numbers: a is the number before the first.             *)
Run(s, a) == \A j \in DOMAIN s : s[j] = a + j
Within(s, a, b) == \A j \in DOMAIN s : a < s[j] /\ s[j] <= b

LEMMA RunEmpty == \A a : Run(<<>>, a)
BY DEF Run

LEMMA RunTail ==
  ASSUME NEW s \in Seq(Nat), NEW a \in Nat, s # <<>>, Run(s, a)
  PROVE  /\ Head(s) = a + 1 /\ Tail(s) \in Seq(Nat)
         /\ Len(Tail(s)) = Len(s) - 1 /\ Run(Tail(s), a + 1)
BY DEF Run

LEMMA RunAppend ==
  ASSUME NEW s \in Seq(Nat), NEW a \in Nat, Run(s, a)
  PROVE  /\ Append(s, a + Len(s) + 1) \in Seq(Nat)
         /\ Len(Append(s, a + Len(s) + 1)) = Len(s) + 1
         /\ Run(Append(s, a + Len(s) + 1), a)
BY SMTT(20) DEF Run

LEMMA SplitLens ==
  ASSUME NEW s \in Seq(Nat), NEW n \in 0..Len(s)
  PROVE  /\ SubSeq(s, 1, n) \in Seq(Nat) /\ Len(SubSeq(s, 1, n)) = n
         /\ SubSeq(s, n + 1, Len(s)) \in Seq(Nat)
         /\ Len(SubSeq(s, n + 1, Len(s))) = Len(s) - n
OBVIOUS

LEMMA RunSplit ==
  ASSUME NEW s \in Seq(Nat), NEW a \in Nat, Run(s, a), NEW n \in 0..Len(s)
  PROVE  Run(SubSeq(s, 1, n), a) /\ Run(SubSeq(s, n + 1, Len(s)), a + n)
<1>1. Len(s) \in Nat /\ n \in Nat /\ n <= Len(s) /\ \A j \in 1..Len(s) : s[j] = a + j
  BY DEF Run
<1>2. ASSUME NEW j \in 1..n PROVE SubSeq(s, 1, n)[j] = a + j
  <2>1. j \in 1..Len(s) /\ SubSeq(s, 1, n)[j] = s[j]
    BY <1>1
  <2> QED BY <1>1, <2>1
<1>3. ASSUME NEW j \in 1..Len(s) - n PROVE SubSeq(s, n + 1, Len(s))[j] = a + n + j
  <2>1. n + j \in 1..Len(s) /\ SubSeq(s, n + 1, Len(s))[j] = s[n + j]
    BY <1>1
  <2>2. s[n + j] = a + (n + j)
    BY <1>1, <2>1
  <2> QED BY <1>1, <2>1, <2>2
<1>4. DOMAIN SubSeq(s, 1, n) = 1..n /\ DOMAIN SubSeq(s, n + 1, Len(s)) = 1..Len(s) - n
  BY SplitLens
<1> QED BY <1>2, <1>3, <1>4 DEF Run

LEMMA RunConcat ==
  ASSUME NEW s \in Seq(Nat), NEW t \in Seq(Nat), NEW a \in Nat,
         Run(s, a), Run(t, a + Len(s))
  PROVE  s \o t \in Seq(Nat) /\ Len(s \o t) = Len(s) + Len(t) /\ Run(s \o t, a)
<1>1. s \o t \in Seq(Nat) /\ Len(s \o t) = Len(s) + Len(t)
  OBVIOUS
<1>2. ASSUME NEW j \in 1..Len(s) + Len(t) PROVE (s \o t)[j] = a + j
  <2>1. CASE j <= Len(s)
    BY <2>1 DEF Run
  <2>2. CASE j > Len(s)
    <3>1. (s \o t)[j] = t[j - Len(s)] /\ j - Len(s) \in 1..Len(t)
      BY <2>2
    <3> QED BY <3>1 DEF Run
  <2> QED BY <2>1, <2>2
<1> QED BY <1>1, <1>2 DEF Run

(* After a client has left its pieces are no run any more, but they are      *)
(* still its own.                                                            *)
LEMMA RunWithin ==
  ASSUME NEW s \in Seq(Nat), NEW a \in Nat, NEW g \in Nat, NEW b \in Nat,
         Run(s, a), g <= a, a + Len(s) <= b
  PROVE  Within(s, g, b)
BY DEF Run, Within

LEMMA WithinSplit ==
  ASSUME NEW s \in Seq(Nat), NEW a \in Nat, NEW b \in Nat, Within(s, a, b), NEW n \in 0..Len(s)
  PROVE  Within(SubSeq(s, 1, n), a, b) /\ Within(SubSeq(s, n + 1, Len(s)), a, b)
BY DEF Within

LEMMA WithinConcat ==
  ASSUME NEW s \in Seq(Nat), NEW t \in Seq(Nat), NEW a \in Nat, NEW b \in Nat,
         Within(s, a, b), Within(t, a, b)
  PROVE  Within(s \o t, a, b)
BY DEF Within

LEMMA WithinSome ==
  ASSUME NEW s \in Seq(Nat), NEW a \in Nat, NEW b \in Nat, Within(s, a, b), s # <<>>
  PROVE  a < b
BY DEF Within

LEMMA CountedText ==
  ASSUME NEW n \in Nat, NEW a \in Nat
  PROVE  LET s == [j \in 1..n |-> a + j]
         IN  s \in Seq(Nat) /\ Len(s) = n /\ Run(s, a)
BY DEF Run

(* What is held at one place, at the next and at a last one: the numbers     *)
(* after n, up to t.                                                         *)
Chain(n, b, v, o, t) ==
  /\ Run(b, n) /\ Run(v, n + Len(b)) /\ Run(o, n + Len(b) + Len(v))
  /\ n + Len(b) + Len(v) + Len(o) = t

LEMMA ChainPut ==    \* from the last place to the one before
  ASSUME NEW n \in Nat, NEW b \in Seq(Nat), NEW v \in Seq(Nat), NEW o \in Seq(Nat), NEW t \in Nat,
         Chain(n, b, v, o, t), o # <<>>
  PROVE  /\ Chain(n, b, Append(v, Head(o)), Tail(o), t)
         /\ Head(o) \in Nat /\ Tail(o) \in Seq(Nat)
<1>1. /\ Head(o) = n + Len(b) + Len(v) + 1 /\ Tail(o) \in Seq(Nat)
      /\ Len(Tail(o)) = Len(o) - 1 /\ Run(Tail(o), n + Len(b) + Len(v) + 1)
  BY RunTail DEF Chain
<1>2. /\ Len(Append(v, Head(o))) = Len(v) + 1
      /\ Run(Append(v, Head(o)), n + Len(b))
  BY <1>1, RunAppend DEF Chain
<1>3. /\ n + Len(b) + Len(v) + Len(o) = t
      /\ Len(b) \in Nat /\ Len(v) \in Nat /\ Len(o) \in Nat
  BY DEF Chain
<1>4. /\ n + Len(b) + (Len(v) + 1) = n + Len(b) + Len(v) + 1
      /\ n + Len(b) + (Len(v) + 1) + (Len(o) - 1) = t
  <2>1. PICK x \in Nat, y \in Nat, z \in Nat : x = Len(b) /\ y = Len(v) /\ z = Len(o)
    BY <1>3
  <2>2. n + x + y + z = t
    BY <1>3, <2>1
  <2>3. n + x + (y + 1) = n + x + y + 1 /\ n + x + (y + 1) + (z - 1) = t
    BY <2>2
  <2> QED BY <2>1, <2>3
<1> QED BY <1>1, <1>2, <1>4 DEF Chain

LEMMA ChainTake ==    \* from the middle to the first place
  ASSUME NEW n \in Nat, NEW b \in Seq(Nat), NEW v \in Seq(Nat), NEW o \in Seq(Nat), NEW t \in Nat,
         Chain(n, b, v, o, t), NEW m \in 0..Len(v)
  PROVE  Chain(n, b \o SubSeq(v, 1, m), SubSeq(v, m + 1, Len(v)), o, t)
<1> DEFINE h == SubSeq(v, 1, m)
           r == SubSeq(v, m + 1, Len(v))
<1>1. h \in Seq(Nat) /\ r \in Seq(Nat) /\ Len(h) = m /\ Len(r) = Len(v) - m
  BY SplitLens
<1>2. Run(h, n + Len(b)) /\ Run(r, n + Len(b) + m)
  BY RunSplit DEF Chain
<1> HIDE DEF h, r
<1>3. Len(b \o h) = Len(b) + m /\ Run(b \o h, n)
  BY <1>1, <1>2, RunConcat DEF Chain
<1>4. n + (Len(b) + m) = n + Len(b) + m /\ n + (Len(b) + m) + (Len(v) - m) = n + Len(b) + Len(v)
  OBVIOUS
<1>5. Chain(n, b \o h, r, o, t)
  BY <1>1, <1>2, <1>3, <1>4 DEF Chain
<1> QED BY <1>5 DEF h, r

LEMMA ChainSend ==    \* off the first place
  ASSUME NEW n \in Nat, NEW b \in Seq(Nat), NEW v \in Seq(Nat), NEW o \in Seq(Nat), NEW t \in Nat,
         Chain(n, b, v, o, t), b # <<>>
  PROVE  Head(b) = n + 1 /\ Tail(b) \in Seq(Nat) /\ n + 1 <= t /\ Chain(n + 1, Tail(b), v, o, t)
<1>1. /\ Head(b) = n + 1 /\ Tail(b) \in Seq(Nat) /\ Len(Tail(b)) = Len(b) - 1
      /\ Run(Tail(b), n + 1)
  BY RunTail DEF Chain
<1>2. n + 1 + (Len(b) - 1) = n + Len(b) /\ n + 1 <= t
  BY <1>1 DEF Chain
<1> QED BY <1>1, <1>2 DEF Chain

LEMMA ChainTyped ==    \* m more at the last place
  ASSUME NEW n \in Nat, NEW b \in Seq(Nat), NEW v \in Seq(Nat), NEW t \in Nat,
         Chain(n, b, v, <<>>, t), NEW m \in Nat
  PROVE  Chain(n, b, v, [j \in 1..m |-> t + j], t + m)
<1>1. n + Len(b) + Len(v) = t
  BY DEF Chain
<1>2. Len([j \in 1..m |-> t + j]) = m /\ Run([j \in 1..m |-> t + j], t)
  BY CountedText
<1> QED BY <1>1, <1>2 DEF Chain

LEMMA ChainWithin ==
  ASSUME NEW n \in Nat, NEW b \in Seq(Nat), NEW v \in Seq(Nat), NEW o \in Seq(Nat), NEW t \in Nat,
         Chain(n, b, v, o, t), NEW g \in Nat, g <= n
  PROVE  Within(b, g, t) /\ Within(v, g, t)
<1>1. n + Len(b) \in Nat /\ g <= n + Len(b) /\ n + Len(b) <= t /\ n + Len(b) + Len(v) <= t
  BY DEF Chain
<1>2. Within(b, g, t)
  BY <1>1, RunWithin DEF Chain
<1>3. Within(v, g, t)
  BY <1>1, RunWithin DEF Chain
<1> QED BY <1>2, <1>3

(* The same with two places.                                                 *)
Pair(n, v, o, t) ==
  Run(v, n) /\ Run(o, n + Len(v)) /\ n + Len(v) + Len(o) = t

LEMMA PairPut ==
  ASSUME NEW n \in Nat, NEW v \in Seq(Nat), NEW o \in Seq(Nat), NEW t \in Nat,
         Pair(n, v, o, t), o # <<>>
  PROVE  /\ Pair(n, Append(v, Head(o)), Tail(o), t) /\ Append(v, Head(o)) \in Seq(Nat)
         /\ Head(o) \in Nat /\ Tail(o) \in Seq(Nat)
<1>1. /\ Head(o) = n + Len(v) + 1 /\ Tail(o) \in Seq(Nat)
      /\ Len(Tail(o)) = Len(o) - 1 /\ Run(Tail(o), n + Len(v) + 1)
  BY RunTail DEF Pair
<1>2. /\ Len(Append(v, Head(o))) = Len(v) + 1 /\ Append(v, Head(o)) \in Seq(Nat)
      /\ Run(Append(v, Head(o)), n)
  BY <1>1, RunAppend DEF Pair
<1>3. n + Len(v) + Len(o) = t /\ Len(v) \in Nat /\ Len(o) \in Nat
  BY DEF Pair
<1>4. n + (Len(v) + 1) = n + Len(v) + 1 /\ n + (Len(v) + 1) + (Len(o) - 1) = t
  <2>1. ASSUME NEW x \in Nat, NEW y \in Nat, n + x + y = t
        PROVE  n + (x + 1) = n + x + 1 /\ n + (x + 1) + (y - 1) = t
    BY <2>1
  <2> QED BY <1>3, <2>1
<1> QED BY <1>1, <1>2, <1>4 DEF Pair

LEMMA PairBound ==
  ASSUME NEW n \in Nat, NEW v \in Seq(Nat), NEW o \in Seq(Nat), NEW t \in Nat,
         Pair(n, v, o, t)
  PROVE  Run(v, n) /\ n + Len(v) <= t
BY DEF Pair

-----------------------------------------------------------------------------
(* What the operations on a connection do to its record.                     *)
Links == [in : [Ends -> Seq(Nat)], way : [Ends -> {"open", "shut", "closed"}],
          err : [Ends -> {"no", "reset", "dead"}]]

LEMMA NewLinkType == NewLink \in Links
BY DEF NewLink, Links

LEMMA LinkFields ==
  ASSUME NEW i \in [Ends -> Seq(Nat)], NEW w \in [Ends -> {"open", "shut", "closed"}],
         NEW r \in [Ends -> {"no", "reset", "dead"}]
  PROVE  [in |-> i, way |-> w, err |-> r] \in Links
BY DEF Links

LEMMA PutLink ==
  ASSUME NEW k \in Links, NEW x \in Nat
  PROVE  /\ Put(k, "clnt", x) \in Links /\ Put(k, "serv", x) \in Links
         /\ Put(k, "clnt", x).way = k.way /\ Put(k, "serv", x).way = k.way
         /\ Put(k, "clnt", x).err = k.err /\ Put(k, "serv", x).err = k.err
         /\ Put(k, "clnt", x).in["serv"] = Append(k.in["serv"], x)
         /\ Put(k, "clnt", x).in["clnt"] = k.in["clnt"]
         /\ Put(k, "serv", x).in["clnt"] = Append(k.in["clnt"], x)
         /\ Put(k, "serv", x).in["serv"] = k.in["serv"]
<1>1. Append(k.in["serv"], x) \in Seq(Nat) /\ Append(k.in["clnt"], x) \in Seq(Nat)
  BY DEF Links, Ends
<1>2. /\ Put(k, "clnt", x) = [k EXCEPT !.in["serv"] = Append(k.in["serv"], x)]
      /\ Put(k, "serv", x) = [k EXCEPT !.in["clnt"] = Append(k.in["clnt"], x)]
  BY DEF Put, Other
<1>3. "serv" \in Ends /\ "clnt" \in Ends
  BY DEF Ends
<1> DEFINE toServ == Append(k.in["serv"], x)
           toClnt == Append(k.in["clnt"], x)
<1>6. toServ \in Seq(Nat) /\ toClnt \in Seq(Nat) /\ k.in \in [Ends -> Seq(Nat)]
  BY <1>1 DEF Links
<1> HIDE DEF toServ, toClnt
<1>7. k = [in |-> k.in, way |-> k.way, err |-> k.err]
  BY DEF Links
<1>8. ASSUME NEW e, NEW s
      PROVE  [k EXCEPT !.in[e] = s] =
               [in |-> [k.in EXCEPT ![e] = s], way |-> k.way, err |-> k.err]
  BY <1>7
<1>9. /\ k.way \in [Ends -> {"open", "shut", "closed"}]
      /\ k.err \in [Ends -> {"no", "reset", "dead"}]
  BY DEF Links
<1>4. /\ [k.in EXCEPT !["serv"] = toServ] \in [Ends -> Seq(Nat)]
      /\ [k.in EXCEPT !["serv"] = toServ]["serv"] = toServ
      /\ [k.in EXCEPT !["serv"] = toServ]["clnt"] = k.in["clnt"]
  BY <1>3, <1>6
<1>5. /\ [k.in EXCEPT !["clnt"] = toClnt] \in [Ends -> Seq(Nat)]
      /\ [k.in EXCEPT !["clnt"] = toClnt]["clnt"] = toClnt
      /\ [k.in EXCEPT !["clnt"] = toClnt]["serv"] = k.in["serv"]
  BY <1>3, <1>6
<1>10. Put(k, "clnt", x) = [in |-> [k.in EXCEPT !["serv"] = toServ], way |-> k.way, err |-> k.err]
  BY <1>2, <1>8 DEF toServ
<1>11. Put(k, "serv", x) = [in |-> [k.in EXCEPT !["clnt"] = toClnt], way |-> k.way, err |-> k.err]
  BY <1>2, <1>8 DEF toClnt
<1>12. Put(k, "clnt", x) \in Links
  BY <1>4, <1>9, <1>10, LinkFields
<1>13. Put(k, "serv", x) \in Links
  BY <1>5, <1>9, <1>11, LinkFields
<1> QED BY <1>4, <1>5, <1>10, <1>11, <1>12, <1>13 DEF toServ, toClnt

LEMMA DropLink ==
  ASSUME NEW k \in Links, NEW e \in Ends, NEW n \in 0..Len(k.in[e])
  PROVE  /\ Drop(k, e, n) \in Links
         /\ Drop(k, e, n).way = k.way /\ Drop(k, e, n).err = k.err
         /\ Drop(k, e, n).in[e] = SubSeq(k.in[e], n + 1, Len(k.in[e]))
         /\ Drop(k, e, n).in[Other(e)] = k.in[Other(e)]
BY SplitLens DEF Drop, Links, Ends, Other

LEMMA NotedLink ==
  ASSUME NEW k \in Links, NEW e \in Ends
  PROVE  /\ Noted(k, e) \in Links /\ Noted(k, e).in = k.in /\ Noted(k, e).way = k.way
         /\ Noted(k, e).err[e] = "dead" /\ Noted(k, e).err[Other(e)] = k.err[Other(e)]
BY DEF Noted, Links, Ends, Other

LEMMA NotePut ==
  ASSUME NEW k \in Links, NEW e \in Ends, NEW m \in PutGone(k, e)
  PROVE  /\ m \in Links /\ m.in = k.in /\ m.way = k.way
         /\ m.err[Other(e)] = k.err[Other(e)] /\ m.err[e] # "reset"
BY NotedLink DEF PutGone

LEMMA CloseLink ==
  ASSUME NEW k \in Links, NEW e \in Ends
  PROVE  /\ Close(k, e) \in Links
         /\ Close(k, e).way[e] = "closed" /\ Close(k, e).way[Other(e)] = k.way[Other(e)]
         /\ Close(k, e).in[e] = <<>> /\ Close(k, e).in[Other(e)] = k.in[Other(e)]
         /\ Close(k, e).err[e] = k.err[e]
         /\ Close(k, e).err[Other(e)] = IF k.in[e] # <<>> /\ k.way[Other(e)] # "closed"
                                        THEN "reset" ELSE k.err[Other(e)]
<1> DEFINE unread == k.in[e] # <<>> /\ k.way[Other(e)] # "closed"
           err == IF unread THEN "reset" ELSE k.err[Other(e)]
<1>1. Close(k, e) = [k EXCEPT !.way[e] = "closed", !.in[e] = <<>>, !.err[Other(e)] = err]
  BY DEF Close, Gone
<1>2. err \in {"no", "reset", "dead"} /\ Other(e) \in Ends /\ Other(e) # e
  BY DEF Links, Ends, Other
<1>3. k = [in |-> k.in, way |-> k.way, err |-> k.err]
  BY DEF Links
<1> HIDE DEF err
<1>4. Close(k, e) = [in |-> [k.in EXCEPT ![e] = <<>>], way |-> [k.way EXCEPT ![e] = "closed"],
                     err |-> [k.err EXCEPT ![Other(e)] = err]]
  BY <1>1, <1>3 DEF Links
<1>5. Close(k, e) \in Links
  BY <1>2, <1>4 DEF Links
<1>6. /\ Close(k, e).way[e] = "closed" /\ Close(k, e).way[Other(e)] = k.way[Other(e)]
      /\ Close(k, e).in[e] = <<>> /\ Close(k, e).in[Other(e)] = k.in[Other(e)]
  BY <1>2, <1>4 DEF Links
<1>7. Close(k, e).err[e] = k.err[e] /\ Close(k, e).err[Other(e)] = err
  BY <1>2, <1>4 DEF Links
<1> QED BY <1>5, <1>6, <1>7 DEF err

LEMMA ShutLink ==
  ASSUME NEW k \in Links, NEW e \in Ends
  PROVE  /\ Shut(k, e) \in Links /\ Shut(k, e).in = k.in /\ Shut(k, e).err = k.err
         /\ Shut(k, e).way[e] = "shut" /\ Shut(k, e).way[Other(e)] = k.way[Other(e)]
BY DEF Shut, Links, Ends, Other

LEMMA RefusedLink ==
  ASSUME NEW k \in Links
  PROVE  /\ Refused(k) \in Links
         /\ Refused(k).way["serv"] = "closed" /\ Refused(k).way["clnt"] = k.way["clnt"]
         /\ Refused(k).in["serv"] = <<>> /\ Refused(k).in["clnt"] = k.in["clnt"]
         /\ Refused(k).err["serv"] = k.err["serv"]
         /\ Refused(k).err["clnt"] = IF k.way["clnt"] = "closed" THEN k.err["clnt"]
                                     ELSE "reset"
<1> DEFINE err == IF k.way["clnt"] = "closed" THEN k.err["clnt"] ELSE "reset"
<1>1. Refused(k) = [k EXCEPT !.way["serv"] = "closed", !.in["serv"] = <<>>, !.err["clnt"] = err]
  BY DEF Refused, Gone, Other
<1>2. err \in {"no", "reset", "dead"} /\ "serv" \in Ends /\ "clnt" \in Ends
  BY DEF Links, Ends
<1>3. k = [in |-> k.in, way |-> k.way, err |-> k.err]
  BY DEF Links
<1> HIDE DEF err
<1>4. Refused(k) = [in |-> [k.in EXCEPT !["serv"] = <<>>],
                    way |-> [k.way EXCEPT !["serv"] = "closed"],
                    err |-> [k.err EXCEPT !["clnt"] = err]]
  BY <1>1, <1>3 DEF Links
<1>5. Refused(k) \in Links
  BY <1>2, <1>4 DEF Links
<1> QED BY <1>2, <1>4, <1>5 DEF Links, err

-----------------------------------------------------------------------------
(* The state of all these programs but op_server, whose clients type no      *)
(* numbered pieces.                                                          *)
Places == {"off", "prompt", "write", "read", "both", "spin", "lost", "leave", "open",
           "done", "gone"}

SessTypeOK ==
  /\ link \in [Clients -> Links] /\ waiting \subseteq Clients
  /\ cur \in Clients \cup {None} /\ buf \in Seq(Nat) /\ heard \in Seq(Nat)
  /\ cpc \in [Clients -> Places]
  /\ out \in [Clients -> Seq(Nat)] /\ got \in [Clients -> Seq(Nat)]
  /\ asked \in [Clients -> Seq(Nat)]

BufOf(c)   == IF cur = c THEN buf ELSE <<>>
HasLeft(c) == cpc[c] \in {"done", "gone"}
Shown(c)   == Len(got[c]) + Len(link[c].in["clnt"])    \* read, or about to be

LEMMA Unmoved ==
  ASSUME SessTypeOK, NEW c \in Clients
  PROVE  /\ link = [link EXCEPT ![c] = link[c]] /\ out = [out EXCEPT ![c] = out[c]]
         /\ got = [got EXCEPT ![c] = got[c]] /\ asked = [asked EXCEPT ![c] = asked[c]]
         /\ cpc = [cpc EXCEPT ![c] = cpc[c]]
         /\ link[c] \in Links /\ out[c] \in Seq(Nat) /\ got[c] \in Seq(Nat)
         /\ asked[c] \in Seq(Nat) /\ cpc[c] \in Places
         /\ link[c].in["clnt"] \in Seq(Nat) /\ link[c].in["serv"] \in Seq(Nat)
         /\ BufOf(c) \in Seq(Nat) /\ buf \in Seq(Nat)
         /\ Shown(c) \in Nat /\ Len(got[c]) \in Nat /\ Len(got[c]) <= Shown(c)
BY DEF SessTypeOK, Links, Ends, BufOf, Shown

-----------------------------------------------------------------------------
(* The echo servers.  Read in the order in which they will be shown - what   *)
(* the client has read, what is on its way back, what the server holds, what *)
(* is on its way there, and what the client has yet to write - the pieces of *)
(* a client are 1, 2, 3, ..., and these are all it has typed.  Once it has   *)
(* left, what the server still holds or has yet to read are pieces it has    *)
(* not been shown.                                                           *)
EchoChain(c) == Chain(Shown(c), BufOf(c), link[c].in["serv"], out[c], Typed(c))

EchoRest(c) ==
  /\ Within(BufOf(c), Len(got[c]), Typed(c))
  /\ Within(link[c].in["serv"], Len(got[c]), Typed(c))

EchoPieces(c) ==
  /\ Run(got[c], 0) /\ Run(link[c].in["clnt"], Len(got[c]))
  /\ Shown(c) <= Typed(c)
  /\ link[c].way["serv"] = "open" => IF HasLeft(c) THEN EchoRest(c) ELSE EchoChain(c)

(* The ends of a connection: an end is closed only by its own process.  The  *)
(* server closes the socket of a client that stays only as its process ends, *)
(* which the client learns from a reset; an error at the server's end means  *)
(* that the client left with part of its echo unread.                        *)
EchoEnds(c) ==
  /\ link[c].way["clnt"] = IF HasLeft(c) THEN "closed" ELSE "open"
  /\ link[c].way["serv"] \in {"open", "closed"}
  /\ link[c].way["serv"] = "closed" => HasLeft(c) \/ link[c].err["clnt"] = "reset"
  /\ spc \notin Over /\ (c \in waiting \/ cpc[c] = "off") =>
       /\ link[c].way["serv"] = "open" /\ link[c].err["serv"] = "no"
       /\ link[c].in["clnt"] = <<>> /\ cur # c
  /\ c \in waiting => cpc[c] # "off"
  /\ cur = c /\ spc \in {"read", "write"} =>
       /\ link[c].way["serv"] = "open"
       /\ link[c].err["serv"] # "no" => HasLeft(c) /\ Len(got[c]) < Typed(c)
  /\ link[c].in["clnt"] # <<>> => ~HasLeft(c)

EchoPlaces(c) ==
  /\ Whole => /\ cpc[c] \in {"prompt", "done"} => Len(got[c]) = Typed(c)
              /\ cpc[c] # "spin"
  /\ cpc[c] \in {"off", "prompt", "read"} => out[c] = <<>>
  /\ cpc[c] = "off" => got[c] = <<>> /\ asked[c] = <<>>

EchoMain ==
  /\ spc \in {"accept", "read", "write"} \cup Over
  /\ spc = "accept" => cur = None /\ buf = <<>>
  /\ spc \in {"read", "write"} => cur \in Clients
  /\ spc \in {"failed", "killed"} =>
       \E c \in Clients : HasLeft(c) /\ Len(got[c]) < Typed(c)

EchoOf(c) == EchoPieces(c) /\ EchoEnds(c) /\ EchoPlaces(c)

EchoAll == SessTypeOK /\ EchoMain /\ \A c \in Clients : EchoOf(c)

EchoInv == program \in EchoPrograms => EchoAll

LEMMA TypedNat ==
  ASSUME SessTypeOK, NEW c \in Clients
  PROVE  Typed(c) \in Nat
BY DEF SessTypeOK, Typed, Last

LEMMA NothingTyped ==
  ASSUME NEW c \in Clients, asked[c] = <<>>
  PROVE  Typed(c) = 0
BY DEF Typed

(* A client that a step does not touch.                                      *)
LEMMA EchoFrame ==
  ASSUME NEW d \in Clients, EchoOf(d), program' = program,
         link'[d] = link[d], out'[d] = out[d], got'[d] = got[d], asked'[d] = asked[d],
         cpc'[d] = cpc[d], BufOf(d)' = BufOf(d), d \in waiting' => d \in waiting,
         spc' \notin Over => spc \notin Over,
         cur' = d => cur = d /\ (spc' \in {"read", "write"} => spc \in {"read", "write"})
  PROVE  EchoOf(d)'
<1>1. Typed(d)' = Typed(d) /\ HasLeft(d)' = HasLeft(d) /\ Whole' = Whole
  BY DEF Typed, HasLeft, Whole
<1>2. EchoPieces(d)'
  BY <1>1 DEF EchoOf, EchoPieces, EchoChain, EchoRest, Shown
<1>3. EchoEnds(d)'
  BY <1>1 DEF EchoOf, EchoEnds
<1>4. EchoPlaces(d)'
  BY <1>1 DEF EchoOf, EchoPlaces
<1> QED BY <1>2, <1>3, <1>4 DEF EchoOf

LEMMA EchoClientStep ==
  ASSUME EchoAll, NEW c \in Clients, SessTypeOK', EchoOf(c)', ~HasLeft(c),
         program' = program, UNCHANGED serv, waiting' \in {waiting, waiting \cup {c}},
         \A d \in Clients \ {c} :
           /\ link'[d] = link[d] /\ out'[d] = out[d] /\ got'[d] = got[d]
           /\ asked'[d] = asked[d] /\ cpc'[d] = cpc[d]
  PROVE  EchoAll'
<1>1. ASSUME NEW d \in Clients \ {c}
      PROVE  /\ EchoOf(d)' /\ HasLeft(d)' = HasLeft(d)
             /\ Len(got[d])' = Len(got[d]) /\ Typed(d)' = Typed(d)
  <2>1. BufOf(d)' = BufOf(d) /\ HasLeft(d)' = HasLeft(d) /\ Typed(d)' = Typed(d)
    BY DEF BufOf, HasLeft, Typed, serv
  <2> QED BY <2>1, EchoFrame DEF EchoAll, serv
<1>2. EchoMain'
  <2>1. spc' \in {"failed", "killed"} =>
          \E d \in Clients : HasLeft(d)' /\ Len(got[d])' < Typed(d)'
    BY <1>1 DEF EchoAll, EchoMain, serv
  <2> QED BY <2>1 DEF EchoAll, EchoMain, serv, Over
<1> QED BY <1>1, <1>2 DEF EchoAll

(* A piece is written, one way or the other.                                 *)
LEMMA EchoPut ==
  ASSUME EchoAll, program \in EchoPrograms, UNCHANGED program, NEW c \in Clients,
         ClientPut(c) \/ WriteRoutine(c)
  PROVE  EchoAll'
<1> DEFINE k == link[c]
           x == Head(out[c])
<1>0. /\ cpc[c] \in {"write", "both"} /\ out[c] # <<>> /\ CanPut(k, "clnt", Room)
      /\ link' = [link EXCEPT ![c] = Put(k, "clnt", x)]
      /\ out' = [out EXCEPT ![c] = Tail(out[c])]
      /\ UNCHANGED <<waiting, serv, cpc, got, asked>>
  BY DEF ClientPut, WriteRoutine
<1>1. /\ SessTypeOK /\ EchoPieces(c) /\ EchoEnds(c) /\ EchoPlaces(c) /\ ~HasLeft(c)
      /\ k \in Links /\ out[c] \in Seq(Nat) /\ got[c] \in Seq(Nat) /\ asked[c] \in Seq(Nat)
      /\ k.in["clnt"] \in Seq(Nat) /\ k.in["serv"] \in Seq(Nat) /\ BufOf(c) \in Seq(Nat)
      /\ x \in Nat /\ Tail(out[c]) \in Seq(Nat) /\ cpc[c] \in Places
      /\ Typed(c) \in Nat
  BY <1>0, Unmoved, TypedNat DEF EchoAll, EchoOf, HasLeft
<1>2. /\ SessTypeOK' /\ link'[c] = Put(k, "clnt", x) /\ out'[c] = Tail(out[c])
      /\ got'[c] = got[c] /\ asked'[c] = asked[c] /\ cpc'[c] = cpc[c]
      /\ \A d \in Clients \ {c} :
           /\ link'[d] = link[d] /\ out'[d] = out[d] /\ got'[d] = got[d]
           /\ asked'[d] = asked[d] /\ cpc'[d] = cpc[d]
  <2>1. Put(k, "clnt", x) \in Links
    BY <1>1, PutLink
  <2>2. /\ link' = [link EXCEPT ![c] = Put(k, "clnt", x)]
        /\ out' = [out EXCEPT ![c] = Tail(out[c])] /\ got' = [got EXCEPT ![c] = got[c]]
        /\ asked' = [asked EXCEPT ![c] = asked[c]] /\ cpc' = [cpc EXCEPT ![c] = cpc[c]]
    BY <1>0, <1>1, Unmoved
  <2> HIDE DEF k, x
  <2> QED BY SMTT(20), <1>0, <1>1, <2>1, <2>2 DEF SessTypeOK, serv
<1>3. /\ link'[c].way = k.way /\ link'[c].err = k.err /\ link'[c].in["clnt"] = k.in["clnt"]
      /\ link'[c].in["serv"] = Append(k.in["serv"], x)
  <2> HIDE DEF k, x
  <2>1. /\ Put(k, "clnt", x).way = k.way /\ Put(k, "clnt", x).err = k.err
        /\ Put(k, "clnt", x).in["clnt"] = k.in["clnt"]
        /\ Put(k, "clnt", x).in["serv"] = Append(k.in["serv"], x)
    BY <1>1, PutLink
  <2> QED BY <1>2, <2>1
<1>4. /\ Typed(c)' = Typed(c) /\ HasLeft(c)' = HasLeft(c) /\ BufOf(c)' = BufOf(c)
      /\ Whole' = Whole
  BY <1>0, <1>2 DEF Typed, HasLeft, BufOf, Whole, serv
<1>5. k.way["serv"] = "open" /\ EchoChain(c)
  BY <1>0, <1>1 DEF CanPut, Gone, Other, EchoEnds, EchoPieces
<1>6. EchoChain(c)'
  <2>1. Shown(c)' = Shown(c) /\ Shown(c) \in Nat
    BY <1>1, <1>2, <1>3, Unmoved DEF Shown
  <2>2. Chain(Shown(c), BufOf(c), k.in["serv"], out[c], Typed(c))
    BY <1>5 DEF EchoChain
  <2>3. Chain(Shown(c), BufOf(c), Append(k.in["serv"], x), Tail(out[c]), Typed(c))
    <3> HIDE DEF k
    <3> QED BY <1>0, <1>1, <2>1, <2>2, ChainPut
  <2> QED BY <1>2, <1>3, <1>4, <2>1, <2>3 DEF EchoChain
<1>7. EchoPieces(c)'
  BY <1>1, <1>2, <1>3, <1>4, <1>6 DEF EchoPieces, Shown
<1>8. EchoEnds(c)'
  BY <1>0, <1>1, <1>2, <1>3, <1>4 DEF EchoEnds, serv
<1>9. EchoPlaces(c)'
  BY <1>0, <1>1, <1>2, <1>4 DEF EchoPlaces
<1> QED BY <1>0, <1>1, <1>2, <1>7, <1>8, <1>9, EchoClientStep DEF EchoOf

(* A client moves on without a read or a write.                              *)
LEMMA EchoMove ==
  ASSUME EchoAll, program \in EchoPrograms, UNCHANGED program, NEW c \in Clients,
         NEW l \in Places, ~HasLeft(c), l \notin {"done", "gone", "off"},
         Gotoc(c, l), waiting' \in {waiting, waiting \cup {c}},
         c \notin waiting /\ waiting' # waiting => cpc[c] = "off",
         Whole => l # "spin" /\ (l = "prompt" => Len(got[c]) = Typed(c)),
         l \in {"prompt", "read"} => out[c] = <<>>,
         UNCHANGED <<link, serv, out, got, asked>>
  PROVE  EchoAll'
<1>1. /\ SessTypeOK /\ EchoPieces(c) /\ EchoEnds(c) /\ EchoPlaces(c)
  BY DEF EchoAll, EchoOf
<1>2. /\ SessTypeOK' /\ link'[c] = link[c] /\ out'[c] = out[c]
      /\ got'[c] = got[c] /\ asked'[c] = asked[c] /\ cpc'[c] = l
      /\ \A d \in Clients \ {c} :
           /\ link'[d] = link[d] /\ out'[d] = out[d] /\ got'[d] = got[d]
           /\ asked'[d] = asked[d] /\ cpc'[d] = cpc[d]
  <2>1. /\ link' = [link EXCEPT ![c] = link[c]] /\ out' = [out EXCEPT ![c] = out[c]]
        /\ got' = [got EXCEPT ![c] = got[c]] /\ asked' = [asked EXCEPT ![c] = asked[c]]
        /\ cpc' = [cpc EXCEPT ![c] = l]
    BY <1>1, Unmoved DEF Gotoc
  <2>2. /\ link[c] \in Links /\ out[c] \in Seq(Nat) /\ got[c] \in Seq(Nat)
        /\ asked[c] \in Seq(Nat)
    BY <1>1, Unmoved
  <2> QED BY <1>1, <2>1, <2>2 DEF SessTypeOK, serv
<1>3. /\ Typed(c)' = Typed(c) /\ ~HasLeft(c)' /\ BufOf(c)' = BufOf(c)
      /\ Whole' = Whole
  BY <1>2 DEF Typed, HasLeft, BufOf, Whole, serv
<1>4. EchoPieces(c)'
  BY <1>1, <1>2, <1>3 DEF EchoPieces, EchoChain, Shown
<1>5. EchoEnds(c)'
  BY <1>1, <1>2, <1>3 DEF EchoEnds, serv
<1>6. EchoPlaces(c)'
  BY <1>1, <1>2, <1>3 DEF EchoPlaces
<1> QED BY <1>2, <1>4, <1>5, <1>6, EchoClientStep DEF EchoOf

(* A client reads what is on its way.                                        *)
LEMMA EchoGet ==
  ASSUME EchoAll, program \in EchoPrograms, UNCHANGED program, NEW c \in Clients,
         NEW n \in 1..Len(link[c].in["clnt"]), NEW l \in {"prompt", "read", "both"},
         cpc[c] \in {"read", "both"}, ClientGet(c, n, l),
         l \in {"prompt", "read"} => out[c] = <<>>,
         Whole /\ l = "prompt" => Len(got[c]) + n >= Typed(c)
  PROVE  EchoAll'
<1> DEFINE k == link[c]
           i == k.in["clnt"]
           h == SubSeq(i, 1, n)
           r == SubSeq(i, n + 1, Len(i))
<1>1. /\ SessTypeOK /\ EchoPieces(c) /\ EchoEnds(c) /\ EchoPlaces(c) /\ ~HasLeft(c)
      /\ k \in Links /\ out[c] \in Seq(Nat) /\ got[c] \in Seq(Nat) /\ asked[c] \in Seq(Nat)
      /\ i \in Seq(Nat) /\ k.in["serv"] \in Seq(Nat) /\ BufOf(c) \in Seq(Nat)
      /\ Typed(c) \in Nat /\ l \in Places
  BY Unmoved, TypedNat DEF EchoAll, EchoOf, HasLeft, Places
<1>2. n \in 0..Len(i) /\ n > 0 /\ n <= Len(i)
  BY <1>1
<1>3. /\ h \in Seq(Nat) /\ Len(h) = n /\ r \in Seq(Nat) /\ Len(r) = Len(i) - n
  BY <1>1, <1>2, SplitLens
<1>4. /\ got[c] \o h \in Seq(Nat) /\ Len(got[c] \o h) = Len(got[c]) + n
      /\ Run(got[c] \o h, 0) /\ Run(r, Len(got[c]) + n)
  <2>1. Run(h, Len(got[c])) /\ Run(r, Len(got[c]) + n)
    BY SMTT(20), <1>1, <1>2, RunSplit DEF EchoPieces
  <2> HIDE DEF h, r
  <2>2. Run(got[c], 0) /\ Run(h, 0 + Len(got[c]))
    BY <1>1, <2>1 DEF EchoPieces
  <2> QED BY <1>1, <1>3, <2>1, <2>2, RunConcat
<1>5. /\ Drop(k, "clnt", n) \in Links
      /\ Drop(k, "clnt", n).way = k.way /\ Drop(k, "clnt", n).err = k.err
      /\ Drop(k, "clnt", n).in["clnt"] = r
      /\ Drop(k, "clnt", n).in["serv"] = k.in["serv"]
  BY <1>1, <1>2, DropLink DEF Ends, Other
<1>6. /\ link' = [link EXCEPT ![c] = Drop(k, "clnt", n)]
      /\ got' = [got EXCEPT ![c] = got[c] \o h]
      /\ cpc' = [cpc EXCEPT ![c] = l] /\ UNCHANGED <<waiting, serv, out, asked>>
  BY DEF ClientGet, Gotoc, First
<1>7. /\ SessTypeOK' /\ link'[c] = Drop(k, "clnt", n) /\ out'[c] = out[c]
      /\ got'[c] = got[c] \o h /\ asked'[c] = asked[c] /\ cpc'[c] = l
      /\ \A d \in Clients \ {c} :
           /\ link'[d] = link[d] /\ out'[d] = out[d] /\ got'[d] = got[d]
           /\ asked'[d] = asked[d] /\ cpc'[d] = cpc[d]
  <2> HIDE DEF h, k
  <2> QED BY <1>1, <1>4, <1>5, <1>6 DEF SessTypeOK, serv
<1>8. /\ Typed(c)' = Typed(c) /\ ~HasLeft(c)' /\ BufOf(c)' = BufOf(c)
      /\ Whole' = Whole
  BY <1>6, <1>7 DEF Typed, HasLeft, BufOf, Whole, serv
<1>9. Shown(c)' = Shown(c)
  <2>1. Shown(c)' = Len(got[c] \o h) + Len(r)
    BY <1>5, <1>7 DEF Shown
  <2>2. Len(got[c]) \in Nat /\ Len(i) \in Nat
    BY SMTT(20), <1>1
  <2>3. ASSUME NEW x \in Nat, NEW y \in Nat PROVE (x + n) + (y - n) = x + y
    OBVIOUS
  <2>4. Shown(c) = Len(got[c]) + Len(i)
    BY DEF Shown
  <2> HIDE DEF h, r, i
  <2> QED BY <1>3, <1>4, <2>1, <2>2, <2>3, <2>4
<1> HIDE DEF h, r
<1>10. EchoPieces(c)'
  BY <1>1, <1>4, <1>5, <1>7, <1>8, <1>9 DEF EchoPieces, EchoChain
<1>11. EchoEnds(c)'
  <2>1. i # <<>> /\ ~(spc \notin Over /\ c \in waiting)
    BY <1>1, <1>2 DEF EchoEnds
  <2> QED BY SMTT(20), <1>1, <1>5, <1>6, <1>7, <1>8, <2>1 DEF EchoEnds, serv
<1>12. EchoPlaces(c)'
  <2>1. Len(got[c]) + n <= Typed(c)
    <3>1. Shown(c) <= Typed(c) /\ Len(got[c]) \in Nat /\ Len(i) \in Nat
      BY SMTT(20), <1>1 DEF EchoPieces
    <3>2. Typed(c) \in Nat /\ Shown(c) = Len(got[c]) + Len(i)
      BY <1>1 DEF Shown
    <3> HIDE DEF i
    <3> QED BY <1>2, <3>1, <3>2
  <2>2. Whole /\ l = "prompt" => Len(got[c] \o h) = Typed(c)
    <3>1. Len(got[c]) + n \in Nat /\ Typed(c) \in Nat
      BY <1>1
    <3>2. SUFFICES ASSUME Whole, l = "prompt" PROVE Len(got[c]) + n = Typed(c)
      BY <1>4
    <3>3. Len(got[c]) + n >= Typed(c)
      BY <3>2
    <3> QED BY <2>1, <3>1, <3>3
  <2> QED BY <1>1, <1>7, <1>8, <2>2 DEF EchoPlaces
<1> QED BY <1>1, <1>6, <1>7, <1>10, <1>11, <1>12, EchoClientStep DEF EchoOf

(* A client closes its socket.                                               *)
LEMMA EchoLeave ==
  ASSUME EchoAll, program \in EchoPrograms, UNCHANGED program, NEW c \in Clients,
         NEW l \in {"done", "gone"}, ~HasLeft(c), Gotoc(c, l),
         link' = [link EXCEPT ![c] = Close(@, "clnt")],
         Whole /\ l = "done" => cpc[c] = "prompt",
         UNCHANGED <<waiting, serv, out, got, asked>>
  PROVE  EchoAll'
<1> DEFINE k == link[c]
           i == k.in["clnt"]
<1>1. /\ SessTypeOK /\ EchoPieces(c) /\ EchoEnds(c) /\ EchoPlaces(c)
      /\ k \in Links /\ out[c] \in Seq(Nat) /\ got[c] \in Seq(Nat) /\ asked[c] \in Seq(Nat)
      /\ i \in Seq(Nat) /\ k.in["serv"] \in Seq(Nat) /\ BufOf(c) \in Seq(Nat)
      /\ Typed(c) \in Nat /\ l \in Places
      /\ Shown(c) \in Nat /\ Len(got[c]) \in Nat /\ Len(got[c]) <= Shown(c)
  BY Unmoved, TypedNat DEF EchoAll, EchoOf, Places
<1>2. /\ Close(k, "clnt") \in Links
      /\ Close(k, "clnt").way["clnt"] = "closed"
      /\ Close(k, "clnt").way["serv"] = k.way["serv"]
      /\ Close(k, "clnt").in["clnt"] = <<>> /\ Close(k, "clnt").in["serv"] = k.in["serv"]
      /\ Close(k, "clnt").err["serv"] = IF i # <<>> /\ k.way["serv"] # "closed"
                                        THEN "reset" ELSE k.err["serv"]
  BY <1>1, CloseLink DEF Ends, Other
<1>3. /\ link' = [link EXCEPT ![c] = Close(k, "clnt")] /\ cpc' = [cpc EXCEPT ![c] = l]
      /\ out' = out /\ got' = got /\ asked' = asked /\ waiting' = waiting /\ UNCHANGED serv
  BY DEF Gotoc
<1>4. /\ SessTypeOK' /\ link'[c] = Close(k, "clnt") /\ cpc'[c] = l
      /\ \A d \in Clients \ {c} :
           /\ link'[d] = link[d] /\ out'[d] = out[d] /\ got'[d] = got[d]
           /\ asked'[d] = asked[d] /\ cpc'[d] = cpc[d]
  <2> HIDE DEF k
  <2> QED BY <1>1, <1>2, <1>3 DEF SessTypeOK, serv
<1>5. /\ Typed(c)' = Typed(c) /\ HasLeft(c)' /\ BufOf(c)' = BufOf(c) /\ Whole' = Whole
  BY <1>3, <1>4 DEF Typed, HasLeft, BufOf, Whole, serv
<1>6. EchoPieces(c)'
  <2>1. Run(<<>>, Len(got[c]))
    BY RunEmpty
  <2>2. Len(got[c]) <= Typed(c)
    BY <1>1 DEF EchoPieces
  <2>3. k.way["serv"] = "open" => EchoRest(c)
    <3>1. SUFFICES ASSUME k.way["serv"] = "open" PROVE EchoRest(c)
      OBVIOUS
    <3>2. EchoChain(c)
      BY <1>1, <3>1 DEF EchoPieces
    <3>3. Chain(Shown(c), BufOf(c), k.in["serv"], out[c], Typed(c))
      BY <3>2 DEF EchoChain
    <3> HIDE DEF k
    <3> QED BY <1>1, <3>3, ChainWithin DEF EchoRest, k
  <2>4. Shown(c)' = Len(got[c])
    <3>1. got'[c] = got[c] /\ Len(link'[c].in["clnt"]) = 0
      BY <1>2, <1>3, <1>4
    <3>2. Shown(c)' = Len(got[c]) + 0
      BY <3>1 DEF Shown
    <3>3. Len(got[c]) \in Nat
      BY <1>1
    <3> QED BY <3>2, <3>3
  <2>5. k.way["serv"] = "open" => EchoRest(c)'
    BY <1>2, <1>3, <1>4, <1>5, <2>3 DEF EchoRest
  <2> QED BY <1>1, <1>2, <1>3, <1>4, <1>5, <2>1, <2>2, <2>4, <2>5 DEF EchoPieces
<1>7. EchoEnds(c)'
  <2>1. i # <<>> => Len(got[c]) < Typed(c)
    <3>1. Shown(c) <= Typed(c) /\ Len(got[c]) \in Nat /\ Len(i) \in Nat
      BY <1>1 DEF EchoPieces
    <3>2. i # <<>> => Len(i) > 0
      BY <1>1
    <3>3. Typed(c) \in Nat /\ Shown(c) = Len(got[c]) + Len(i)
      BY <1>1 DEF Shown
    <3> HIDE DEF i
    <3> QED BY <3>1, <3>2, <3>3
  <2>2. ~HasLeft(c) /\ cpc'[c] # "off" /\ Typed(c)' = Typed(c) /\ got'[c] = got[c]
    BY <1>3, <1>4, <1>5
  <2> QED BY <1>1, <1>2, <1>3, <1>4, <1>5, <2>1, <2>2 DEF EchoEnds, serv
<1>8. EchoPlaces(c)'
  BY <1>1, <1>3, <1>4, <1>5 DEF EchoPlaces
<1> QED BY <1>3, <1>4, <1>6, <1>7, <1>8, EchoClientStep DEF EchoOf

LEMMA LastAppended ==
  ASSUME NEW s \in Seq(Nat), NEW x \in Nat
  PROVE  /\ Append(s, x) \in Seq(Nat) /\ Append(s, x) # <<>> /\ Last(Append(s, x)) = x
BY DEF Last

(* A line is typed.                                                          *)
LEMMA EchoType ==
  ASSUME EchoAll, program \in EchoPrograms, UNCHANGED program, NEW c \in Clients,
         TypeLine(c) \/ TypeWord(c)
  PROVE  EchoAll'
<1> DEFINE k == link[c]
<1>1. /\ SessTypeOK /\ EchoPieces(c) /\ EchoEnds(c) /\ EchoPlaces(c)
      /\ out[c] \in Seq(Nat) /\ asked[c] \in Seq(Nat) /\ Typed(c) \in Nat /\ Shown(c) \in Nat
      /\ BufOf(c) \in Seq(Nat) /\ k.in["serv"] \in Seq(Nat) /\ cpc[c] \in Places
  BY Unmoved, TypedNat DEF EchoAll, EchoOf
<1>2. /\ cpc[c] \in {"prompt", "both"} /\ out[c] = <<>>
      /\ UNCHANGED <<link, waiting, serv, got>>
      /\ \E l \in {"write", "both"} : cpc' = [cpc EXCEPT ![c] = l]
  <2>1. CASE TypeLine(c)
    BY <1>1, <2>1 DEF TypeLine, Gotoc, EchoPlaces
  <2>2. CASE TypeWord(c)
    BY <1>1, <2>2, Unmoved DEF TypeWord
  <2> QED BY <2>1, <2>2
<1>3. \E n \in Lengths : /\ asked' = [asked EXCEPT ![c] = Append(asked[c], Typed(c) + n)]
                         /\ out' = [out EXCEPT ![c] = [j \in 1..n |-> Typed(c) + j]]
  BY DEF TypeLine, TypeWord
<1>4. PICK n \in Lengths : /\ asked' = [asked EXCEPT ![c] = Append(asked[c], Typed(c) + n)]
                           /\ out' = [out EXCEPT ![c] = [j \in 1..n |-> Typed(c) + j]]
  BY <1>3
<1>5. PICK l \in {"write", "both"} : cpc' = [cpc EXCEPT ![c] = l]
  BY <1>2
<1> DEFINE o == [j \in 1..n |-> Typed(c) + j]
           a == Append(asked[c], Typed(c) + n)
<1>6. n \in Nat /\ Typed(c) + n \in Nat
  BY <1>1, EchoAssumption
<1>7. o \in Seq(Nat) /\ a \in Seq(Nat) /\ a # <<>> /\ Last(a) = Typed(c) + n
  BY <1>1, <1>6, CountedText, LastAppended
<1>8. out' = [out EXCEPT ![c] = o] /\ asked' = [asked EXCEPT ![c] = a]
  BY <1>4
<1>9. /\ SessTypeOK' /\ out'[c] = o /\ asked'[c] = a /\ cpc'[c] = l
      /\ link' = link /\ got' = got
      /\ \A d \in Clients \ {c} :
           /\ link'[d] = link[d] /\ out'[d] = out[d] /\ got'[d] = got[d]
           /\ asked'[d] = asked[d] /\ cpc'[d] = cpc[d]
  <2> HIDE DEF o, a
  <2> QED BY <1>1, <1>2, <1>5, <1>7, <1>8 DEF SessTypeOK, Places, serv
<1>10. /\ Typed(c)' = Typed(c) + n /\ ~HasLeft(c)' /\ ~HasLeft(c) /\ BufOf(c)' = BufOf(c)
       /\ Whole' = Whole /\ Shown(c)' = Shown(c)
  <2> HIDE DEF o, a
  <2> QED BY <1>2, <1>7, <1>9 DEF Typed, HasLeft, BufOf, Whole, serv, Shown
<1>11. EchoPieces(c)'
  <2>1. EchoChain(c) => EchoChain(c)'
    <3>1. SUFFICES ASSUME EchoChain(c) PROVE EchoChain(c)'
      OBVIOUS
    <3>2. Chain(Shown(c), BufOf(c), k.in["serv"], <<>>, Typed(c))
      BY <1>2, <3>1 DEF EchoChain
    <3>3. Chain(Shown(c), BufOf(c), k.in["serv"], o, Typed(c) + n)
      <4> HIDE DEF k
      <4> QED BY <1>1, <1>6, <3>2, ChainTyped
    <3> HIDE DEF o
    <3> QED BY <1>9, <1>10, <3>3 DEF EchoChain
  <2>2. Shown(c) <= Typed(c) => Shown(c) <= Typed(c) + n
    BY <1>1, <1>6
  <2> HIDE DEF o, a
  <2> QED BY <1>1, <1>9, <1>10, <2>1, <2>2 DEF EchoPieces
<1>12. EchoEnds(c)'
  <2> HIDE DEF o, a
  <2> QED BY <1>1, <1>2, <1>5, <1>9, <1>10 DEF EchoEnds, serv
<1>13. EchoPlaces(c)'
  <2> HIDE DEF o, a
  <2> QED BY <1>1, <1>2, <1>5, <1>9, <1>10 DEF EchoPlaces
<1> HIDE DEF o, a
<1> QED BY <1>2, <1>9, <1>10, <1>11, <1>12, <1>13, EchoClientStep DEF EchoOf

(* A step of the server that touches only the connection it serves.          *)
LEMMA EchoServerStep ==
  ASSUME EchoAll, NEW c \in Clients, cur = c, spc \in {"read", "write"},
         program' = program, UNCHANGED <<waiting, clnt>>,
         SessTypeOK', EchoMain', EchoPieces(c)', EchoEnds(c)',
         cur' \in {c, None}, spc' \in {"accept", "read", "write"},
         \A d \in Clients \ {c} : link'[d] = link[d]
  PROVE  EchoAll'
<1>1. EchoPlaces(c)'
  <2>1. Typed(c)' = Typed(c) /\ Whole' = Whole /\ EchoPlaces(c)
    BY DEF Typed, Whole, clnt, EchoAll, EchoOf
  <2> QED BY <2>1 DEF EchoPlaces, clnt
<1>2. ASSUME NEW d \in Clients \ {c} PROVE EchoOf(d)'
  <2>1. BufOf(d)' = BufOf(d) /\ cur' # d
    BY SessionAssumption DEF BufOf
  <2>2. EchoOf(d) /\ spc \notin Over
    BY DEF EchoAll, Over
  <2> QED BY <2>1, <2>2, EchoFrame DEF clnt
<1> QED BY <1>1, <1>2 DEF EchoAll, EchoOf

LEMMA EchoAccept ==
  ASSUME EchoAll, UNCHANGED program, Accept("read")
  PROVE  EchoAll'
<1>1. PICK c \in waiting : cur' = c /\ waiting' = waiting \ {c}
  BY DEF Accept
<1>2. /\ spc = "accept" /\ spc' = "read" /\ heard' = <<>>
      /\ UNCHANGED <<link, buf, served, clnt>>
  BY DEF Accept
<1>3. SessTypeOK /\ EchoMain /\ c \in Clients /\ buf = <<>> /\ spc \notin Over
  BY <1>1, <1>2 DEF EchoAll, SessTypeOK, EchoMain, Over
<1>4. SessTypeOK'
  BY <1>1, <1>2, <1>3 DEF SessTypeOK, clnt
<1>5. EchoMain'
  BY <1>1, <1>2, <1>3 DEF EchoMain, Over
<1>6. ASSUME NEW d \in Clients \ {c} PROVE EchoOf(d)'
  <2>1. BufOf(d)' = BufOf(d) /\ cur' # d /\ EchoOf(d)
    BY <1>1, <1>2, <1>3 DEF BufOf, EchoAll
  <2> QED BY <1>1, <1>2, <1>3, <2>1, EchoFrame DEF clnt
<1>7. EchoOf(c)'
  <2>1. EchoOf(c) /\ BufOf(c)' = BufOf(c)
    BY <1>2, <1>3 DEF EchoAll, BufOf
  <2>2. /\ Typed(c)' = Typed(c) /\ HasLeft(c)' = HasLeft(c) /\ Whole' = Whole
        /\ Shown(c)' = Shown(c)
    BY <1>2 DEF Typed, HasLeft, Whole, Shown, clnt
  <2>3. EchoPieces(c)'
    BY <1>2, <2>1, <2>2 DEF EchoOf, EchoPieces, EchoChain, EchoRest, clnt
  <2>4. EchoEnds(c)'
    BY <1>1, <1>2, <1>3, <2>1, <2>2 DEF EchoOf, EchoEnds, clnt
  <2>5. EchoPlaces(c)'
    BY <1>2, <2>1, <2>2 DEF EchoOf, EchoPlaces, clnt
  <2> QED BY <2>3, <2>4, <2>5 DEF EchoOf
<1> QED BY <1>4, <1>5, <1>6, <1>7 DEF EchoAll

(* What holds of the client that is being served.                            *)
LEMMA EchoServed ==
  ASSUME EchoAll, spc \in {"read", "write"}
  PROVE  /\ cur \in Clients /\ EchoPieces(cur) /\ EchoEnds(cur) /\ cur \notin waiting
         /\ link[cur].way["serv"] = "open" /\ link[cur] \in Links
         /\ link[cur].way["clnt"] # "open" => HasLeft(cur)
         /\ link[cur].way["clnt"] # "closed" => ~HasLeft(cur)
         /\ link[cur].err["serv"] # "no" => HasLeft(cur) /\ Len(got[cur]) < Typed(cur)
<1>1. cur \in Clients
  BY DEF EchoAll, EchoMain
<1>2. EchoPieces(cur) /\ EchoEnds(cur) /\ link[cur] \in Links
  BY <1>1, Unmoved DEF EchoAll, EchoOf
<1> QED BY <1>1, <1>2 DEF EchoEnds, Over

LEMMA EchoRead ==
  ASSUME EchoAll, UNCHANGED program, Read
  PROVE  EchoAll'
<1>1. spc = "read"
  BY DEF Read
<1>2. PICK c \in Clients : c = cur
  BY <1>1, EchoServed
<1> DEFINE k == link[c]
           v == k.in["serv"]
<1>3. PICK n \in 1..Len(v) :
        /\ buf' = buf \o SubSeq(v, 1, n) /\ spc' \in {"read", "write"}
        /\ link' = [link EXCEPT ![c] = Drop(k, "serv", n)]
  BY <1>2 DEF Read, First
<1>4. UNCHANGED <<waiting, cur, heard, served, clnt>>
  BY DEF Read
<1>5. /\ SessTypeOK /\ EchoPieces(c) /\ EchoEnds(c) /\ k.way["serv"] = "open" /\ k \in Links
      /\ EchoMain
  BY <1>1, <1>2, EchoServed DEF EchoAll
<1>6. /\ out[c] \in Seq(Nat) /\ got[c] \in Seq(Nat) /\ buf \in Seq(Nat)
      /\ v \in Seq(Nat) /\ Typed(c) \in Nat /\ Shown(c) \in Nat /\ Len(got[c]) \in Nat
  BY <1>5, Unmoved, TypedNat
<1> DEFINE h == SubSeq(v, 1, n)
           r == SubSeq(v, n + 1, Len(v))
<1>7. n \in 0..Len(v) /\ h \in Seq(Nat) /\ r \in Seq(Nat)
  BY <1>6, SplitLens
<1>8. /\ Drop(k, "serv", n) \in Links
      /\ Drop(k, "serv", n).way = k.way /\ Drop(k, "serv", n).err = k.err
      /\ Drop(k, "serv", n).in["serv"] = r
      /\ Drop(k, "serv", n).in["clnt"] = k.in["clnt"]
  BY <1>5, <1>7, DropLink DEF Ends, Other
<1>9. BufOf(c) = buf /\ BufOf(c)' = buf \o h
  BY <1>2, <1>3, <1>4 DEF BufOf
<1>10. buf \o h \in Seq(Nat)
  <2> HIDE DEF h
  <2> QED BY <1>6, <1>7
<1>11. IF HasLeft(c) THEN Within(buf \o h, Len(got[c]), Typed(c)) /\ Within(r, Len(got[c]), Typed(c))
       ELSE Chain(Shown(c), buf \o h, r, out[c], Typed(c))
  <2>1. CASE HasLeft(c)
    <3>1. Within(buf, Len(got[c]), Typed(c)) /\ Within(v, Len(got[c]), Typed(c))
      BY <1>5, <1>9, <2>1 DEF EchoPieces, EchoRest
    <3>2. Within(h, Len(got[c]), Typed(c)) /\ Within(r, Len(got[c]), Typed(c))
      <4> HIDE DEF v
      <4> QED BY <1>6, <1>7, <3>1, WithinSplit
    <3> HIDE DEF h, r
    <3>3. Within(buf \o h, Len(got[c]), Typed(c))
      BY <1>6, <1>7, <3>1, <3>2, WithinConcat
    <3> QED BY <2>1, <3>2, <3>3
  <2>2. CASE ~HasLeft(c)
    <3>1. Chain(Shown(c), buf, v, out[c], Typed(c))
      BY <1>5, <1>9, <2>2 DEF EchoPieces, EchoChain
    <3> HIDE DEF v
    <3>2. Chain(Shown(c), buf \o h, r, out[c], Typed(c))
      BY <1>6, <1>7, <3>1, ChainTake
    <3> QED BY <2>2, <3>2
  <2> QED BY <2>1, <2>2
<1> HIDE DEF h, r
<1>12. /\ SessTypeOK' /\ link'[c] = Drop(k, "serv", n)
       /\ \A d \in Clients \ {c} : link'[d] = link[d]
  <2> HIDE DEF k, h
  <2> QED BY <1>3, <1>4, <1>5, <1>8, <1>10 DEF SessTypeOK, clnt, h
<1>13. /\ Typed(c)' = Typed(c) /\ HasLeft(c)' = HasLeft(c) /\ Shown(c)' = Shown(c)
       /\ got'[c] = got[c] /\ out'[c] = out[c] /\ cpc'[c] = cpc[c]
  BY <1>4, <1>8, <1>12 DEF Typed, HasLeft, Shown, clnt
<1>14. EchoPieces(c)'
  BY <1>5, <1>8, <1>9, <1>11, <1>12, <1>13 DEF EchoPieces, EchoChain, EchoRest
<1>15. EchoEnds(c)'
  BY <1>1, <1>2, <1>3, <1>4, <1>5, <1>8, <1>12, <1>13 DEF EchoEnds, Over
<1>16. EchoMain'
  BY <1>1, <1>2, <1>3, <1>4, <1>5 DEF EchoMain, Over
<1> QED BY <1>1, <1>2, <1>3, <1>4, <1>12, <1>14, <1>15, <1>16, EchoServerStep

LEMMA EchoWrite ==
  ASSUME EchoAll, UNCHANGED program, ServerPut
  PROVE  EchoAll'
<1>1. spc = "write" /\ buf # <<>> /\ CanPut(link[cur], "serv", Room)
  BY DEF ServerPut
<1>2. PICK c \in Clients : c = cur
  BY <1>1, EchoServed
<1> DEFINE k == link[c]
           i == k.in["clnt"]
           x == Head(buf)
<1>3. /\ link' = [link EXCEPT ![c] = Put(k, "serv", x)] /\ buf' = Tail(buf)
      /\ UNCHANGED <<waiting, spc, cur, heard, served, clnt>>
  BY <1>2 DEF ServerPut
<1>4. /\ SessTypeOK /\ EchoPieces(c) /\ EchoEnds(c) /\ k.way["serv"] = "open" /\ k \in Links
      /\ EchoMain /\ ~HasLeft(c)
  BY <1>1, <1>2, EchoServed DEF EchoAll, CanPut, Gone, Other
<1>5. /\ out[c] \in Seq(Nat) /\ got[c] \in Seq(Nat) /\ buf \in Seq(Nat) /\ i \in Seq(Nat)
      /\ k.in["serv"] \in Seq(Nat) /\ Typed(c) \in Nat /\ Shown(c) \in Nat
      /\ Len(got[c]) \in Nat
  BY <1>4, Unmoved, TypedNat
<1>6. BufOf(c) = buf /\ BufOf(c)' = Tail(buf)
  BY <1>2, <1>3 DEF BufOf
<1>7. /\ x = Shown(c) + 1 /\ x \in Nat /\ Tail(buf) \in Seq(Nat) /\ Shown(c) + 1 <= Typed(c)
      /\ Chain(Shown(c) + 1, Tail(buf), k.in["serv"], out[c], Typed(c))
  <2>1. Chain(Shown(c), buf, k.in["serv"], out[c], Typed(c))
    BY <1>4, <1>6 DEF EchoPieces, EchoChain
  <2> HIDE DEF k
  <2> QED BY SMTT(20), <1>1, <1>5, <2>1, ChainSend
<1>8. /\ Append(i, x) \in Seq(Nat) /\ Len(Append(i, x)) = Len(i) + 1
      /\ Run(Append(i, x), Len(got[c]))
  <2>1. Shown(c) = Len(got[c]) + Len(i) /\ Run(i, Len(got[c]))
    BY <1>4 DEF Shown, EchoPieces
  <2> HIDE DEF i, x
  <2>2. x = Len(got[c]) + Len(i) + 1
    BY <1>7, <2>1
  <2> QED BY <1>5, <2>1, <2>2, RunAppend
<1>9. /\ Put(k, "serv", x) \in Links
      /\ Put(k, "serv", x).way = k.way /\ Put(k, "serv", x).err = k.err
      /\ Put(k, "serv", x).in["clnt"] = Append(i, x)
      /\ Put(k, "serv", x).in["serv"] = k.in["serv"]
  <2> HIDE DEF k, x
  <2> QED BY <1>4, <1>7, PutLink DEF i
<1> HIDE DEF x
<1>10. /\ SessTypeOK' /\ link'[c] = Put(k, "serv", x)
       /\ \A d \in Clients \ {c} : link'[d] = link[d]
  <2> HIDE DEF k
  <2> QED BY <1>3, <1>4, <1>7, <1>9 DEF SessTypeOK, clnt
<1>11. /\ Typed(c)' = Typed(c) /\ HasLeft(c)' = HasLeft(c)
       /\ got'[c] = got[c] /\ out'[c] = out[c] /\ cpc'[c] = cpc[c]
  BY <1>3, <1>10 DEF Typed, HasLeft, clnt
<1>12. Shown(c)' = Shown(c) + 1
  <2>1. Shown(c)' = Len(got[c]) + Len(Append(i, x))
    BY <1>9, <1>10, <1>11 DEF Shown
  <2>2. Shown(c) = Len(got[c]) + Len(i) /\ Len(i) \in Nat /\ Len(got[c]) \in Nat
    BY <1>5 DEF Shown
  <2>3. ASSUME NEW g \in Nat, NEW n \in Nat PROVE g + (n + 1) = g + n + 1
    OBVIOUS
  <2>4. Len(Append(i, x)) = Len(i) + 1
    BY <1>8
  <2> HIDE DEF i
  <2> QED BY <2>1, <2>2, <2>3, <2>4
<1>13. EchoPieces(c)'
  BY <1>4, <1>6, <1>7, <1>8, <1>9, <1>10, <1>11, <1>12 DEF EchoPieces, EchoChain
<1>14. EchoEnds(c)'
  BY <1>1, <1>2, <1>3, <1>4, <1>9, <1>10, <1>11 DEF EchoEnds, Over
<1>15. EchoMain'
  BY <1>1, <1>2, <1>3, <1>4 DEF EchoMain, Over
<1> QED BY <1>1, <1>2, <1>3, <1>10, <1>13, <1>14, <1>15, EchoServerStep

LEMMA EchoSent ==
  ASSUME EchoAll, UNCHANGED program, ServerSent("read")
  PROVE  EchoAll'
<1>1. /\ spc = "write" /\ spc' = "read"
      /\ UNCHANGED <<link, waiting, cur, buf, heard, served, clnt>>
  BY DEF ServerSent
<1>2. SessTypeOK'
  BY <1>1 DEF EchoAll, SessTypeOK, clnt
<1>3. EchoMain'
  BY <1>1 DEF EchoAll, EchoMain, Over
<1>4. ASSUME NEW d \in Clients PROVE EchoOf(d)'
  <2>1. EchoOf(d) /\ BufOf(d)' = BufOf(d) /\ spc \notin Over
    BY <1>1 DEF EchoAll, BufOf, Over
  <2> QED BY <1>1, <2>1, EchoFrame DEF clnt
<1> QED BY <1>2, <1>3, <1>4 DEF EchoAll

(* The server's process ends while it serves a client that has left; m is    *)
(* the connection to that client, with or without an error noted.            *)
LEMMA EchoExit ==
  ASSUME EchoAll, UNCHANGED program, NEW c \in Clients, cur = c, spc \in {"read", "write"},
         HasLeft(c), NEW pos \in Over, pos # "ended" => Len(got[c]) < Typed(c),
         NEW m \in Links, m.in = link[c].in, m.way = link[c].way,
         Exit(pos, [link EXCEPT ![c] = m]), buf' \in Seq(Nat), heard' = heard,
         UNCHANGED <<waiting, cur, clnt>>
  PROVE  EchoAll'
<1>1. /\ SessTypeOK /\ EchoMain /\ c \notin waiting /\ EchoPieces(c) /\ EchoEnds(c)
  BY EchoServed DEF EchoAll
<1>2. /\ spc' = pos
      /\ link' = [d \in Clients |-> IF d \in waiting THEN Refused(link[d])
                                    ELSE IF d = c THEN Close(m, "serv") ELSE link[d]]
  <2>1. \A d \in Clients : [link EXCEPT ![c] = m][d] = IF d = c THEN m ELSE link[d]
    BY <1>1 DEF SessTypeOK
  <2> QED BY <1>1, <2>1 DEF Exit
<1>3. /\ Close(m, "serv") \in Links /\ Close(m, "serv").way["serv"] = "closed"
      /\ Close(m, "serv").way["clnt"] = link[c].way["clnt"]
      /\ Close(m, "serv").in["clnt"] = link[c].in["clnt"]
  BY CloseLink DEF Ends, Other
<1>4. ASSUME NEW d \in Clients
      PROVE  /\ Refused(link[d]) \in Links /\ Refused(link[d]).way["serv"] = "closed"
             /\ Refused(link[d]).way["clnt"] = link[d].way["clnt"]
             /\ Refused(link[d]).in["clnt"] = link[d].in["clnt"]
             /\ Refused(link[d]).err["clnt"] = IF link[d].way["clnt"] = "closed"
                                               THEN link[d].err["clnt"] ELSE "reset"
  BY <1>1, RefusedLink DEF SessTypeOK
<1>5. SessTypeOK'
  <2>1. \A d \in Clients : link[d] \in Links
    BY <1>1 DEF SessTypeOK
  <2>2. link' \in [Clients -> Links]
    BY <1>2, <1>3, <1>4, <2>1
  <2> QED BY <1>1, <2>2 DEF SessTypeOK, clnt
<1>6. ASSUME NEW d \in Clients
      PROVE  /\ HasLeft(d)' = HasLeft(d) /\ Typed(d)' = Typed(d) /\ got'[d] = got[d]
             /\ cpc'[d] = cpc[d] /\ out'[d] = out[d] /\ asked'[d] = asked[d]
             /\ Whole' = Whole /\ spc' \in Over /\ spc' \notin {"read", "write", "accept"}
             /\ spc \notin Over /\ EchoOf(d)
  BY <1>2 DEF HasLeft, Typed, Whole, clnt, Over, EchoAll
<1>7. ASSUME NEW d \in Clients, link'[d].way["serv"] = "closed",
             link'[d].way["clnt"] = link[d].way["clnt"],
             link'[d].in["clnt"] = link[d].in["clnt"],
             HasLeft(d) \/ link'[d].err["clnt"] = "reset"
      PROVE  EchoOf(d)'
  <2>1. Shown(d)' = Shown(d)
    BY <1>6, <1>7 DEF Shown
  <2>2. EchoPieces(d)'
    BY <1>6, <1>7, <2>1 DEF EchoOf, EchoPieces
  <2>3. EchoEnds(d)'
    BY <1>6, <1>7 DEF EchoOf, EchoEnds
  <2>4. EchoPlaces(d)'
    BY <1>6 DEF EchoOf, EchoPlaces
  <2> QED BY <2>2, <2>3, <2>4 DEF EchoOf
<1>8. ASSUME NEW d \in Clients PROVE EchoOf(d)'
  <2>1. CASE d \in waiting
    <3>1. link'[d] = Refused(link[d])
      BY <1>2, <2>1
    <3>2. link[d].way["clnt"] = "closed" => HasLeft(d)
      BY <1>6 DEF EchoOf, EchoEnds
    <3> QED BY <1>4, <1>7, <3>1, <3>2
  <2>2. CASE d = c
    <3>1. link'[d] = Close(m, "serv")
      BY <1>1, <1>2, <2>2
    <3> QED BY <1>3, <1>7, <2>2, <3>1
  <2>3. CASE d \notin waiting /\ d # c
    <3>1. link'[d] = link[d] /\ BufOf(d)' = BufOf(d)
      BY <1>2, <2>3 DEF BufOf
    <3> QED BY <1>6, <2>3, <3>1, EchoFrame
  <2> QED BY <2>1, <2>2, <2>3
<1>9. EchoMain'
  <2>1. spc' \in {"failed", "killed"} => HasLeft(c)' /\ Len(got[c])' < Typed(c)'
    BY <1>2, <1>6 DEF Over
  <2> QED BY <1>2, <1>6, <2>1 DEF EchoMain
<1> QED BY <1>5, <1>8, <1>9 DEF EchoAll

LEMMA EchoClose ==
  ASSUME EchoAll, UNCHANGED program, NEW c \in Clients, cur = c, spc = "read",
         HasLeft(c), NEW m \in Links, m.in = link[c].in, m.way = link[c].way,
         CloseClient([link EXCEPT ![c] = m])
  PROVE  EchoAll'
<1>1. /\ buf' = <<>> /\ UNCHANGED <<waiting, heard, clnt>>
      /\ \/ Exit("ended", [link EXCEPT ![c] = m]) /\ cur' = cur
         \/ /\ spc' = "accept" /\ cur' = None
            /\ link' = [[link EXCEPT ![c] = m] EXCEPT ![c] = Close(@, "serv")]
  BY DEF CloseClient
<1>2. CASE Exit("ended", [link EXCEPT ![c] = m]) /\ cur' = cur
  BY <1>1, <1>2, EchoExit DEF Over
<1>3. CASE /\ spc' = "accept" /\ cur' = None
           /\ link' = [[link EXCEPT ![c] = m] EXCEPT ![c] = Close(@, "serv")]
  <2>1. /\ SessTypeOK /\ EchoMain /\ c \notin waiting /\ EchoPieces(c) /\ EchoEnds(c)
    BY EchoServed DEF EchoAll
  <2>2. /\ Close(m, "serv") \in Links /\ Close(m, "serv").way["serv"] = "closed"
        /\ Close(m, "serv").way["clnt"] = link[c].way["clnt"]
        /\ Close(m, "serv").in["clnt"] = link[c].in["clnt"]
    BY CloseLink DEF Ends, Other
  <2>3. link' = [link EXCEPT ![c] = Close(m, "serv")]
    BY <1>3, <2>1 DEF SessTypeOK
  <2>4. /\ SessTypeOK' /\ link'[c] = Close(m, "serv")
        /\ \A d \in Clients \ {c} : link'[d] = link[d]
    BY <1>1, <1>3, <2>1, <2>2, <2>3 DEF SessTypeOK, clnt
  <2>5. /\ HasLeft(c)' = HasLeft(c) /\ Typed(c)' = Typed(c) /\ got'[c] = got[c]
        /\ cpc'[c] = cpc[c] /\ Shown(c)' = Shown(c)
    BY <1>1, <2>2, <2>4 DEF HasLeft, Typed, Shown, clnt
  <2>6. EchoPieces(c)'
    BY <2>1, <2>2, <2>4, <2>5 DEF EchoPieces
  <2>7. EchoEnds(c)'
    BY <1>1, <1>3, <2>1, <2>2, <2>4, <2>5 DEF EchoEnds, HasLeft
  <2>8. EchoMain'
    BY <1>1, <1>3 DEF EchoMain
  <2> QED BY <1>1, <1>3, <2>4, <2>6, <2>7, <2>8, EchoServerStep
<1> QED BY <1>1, <1>2, <1>3

LEMMA EchoEof ==
  ASSUME EchoAll, UNCHANGED program, ReadEof \/ SendAgain
  PROVE  EchoAll'
<1>1. spc = "read" /\ HasEof(link[cur], "serv")
  BY DEF ReadEof, SendAgain
<1>2. PICK c \in Clients : c = cur
  BY <1>1, EchoServed
<1>3. /\ HasLeft(c) /\ link[c] \in Links /\ SessTypeOK
      /\ link[c].err["serv"] # "no" => Len(got[c]) < Typed(c)
  BY <1>1, <1>2, EchoServed DEF HasEof, Other, EchoAll
<1>4. link = [link EXCEPT ![c] = link[c]]
  BY <1>3, Unmoved
<1>5. CASE ReadEof \/ CloseClient(link)
  <2>1. CloseClient([link EXCEPT ![c] = link[c]])
    BY <1>4, <1>5 DEF ReadEof
  <2> QED BY <1>1, <1>2, <1>3, <2>1, EchoClose
<1>6. CASE ~CloseClient(link) /\ SendAgain /\ link[c].err["serv"] = "dead"
  <2>1. Exit("killed", [link EXCEPT ![c] = link[c]]) /\ UNCHANGED <<waiting, cur, buf, heard, clnt>>
    BY <1>2, <1>4, <1>6 DEF SendAgain
  <2>2. buf' \in Seq(Nat) /\ "killed" \in Over
    BY <1>3, <2>1 DEF SessTypeOK, Over
  <2> QED BY <1>1, <1>2, <1>3, <1>6, <2>1, <2>2, EchoExit
<1>7. CASE ~CloseClient(link) /\ SendAgain /\ link[c].err["serv"] # "dead"
  <2>1. PICK m \in PutGone(link[c], "serv") : CloseClient([link EXCEPT ![c] = m])
    BY <1>2, <1>7 DEF SendAgain
  <2>2. m \in Links /\ m.in = link[c].in /\ m.way = link[c].way
    BY <1>3, NotePut DEF Ends
  <2> QED BY <1>1, <1>2, <1>3, <2>1, <2>2, EchoClose
<1> QED BY <1>5, <1>6, <1>7

(* The server goes on with the socket of a client that has left, and knows   *)
(* of the error, or not.                                                     *)
LEMMA EchoNoted ==
  ASSUME EchoAll, UNCHANGED program, NEW c \in Clients, cur = c, spc \in {"read", "write"},
         HasLeft(c), Len(got[c]) < Typed(c),
         NEW m \in Links, m.in = link[c].in, m.way = link[c].way,
         link' = [link EXCEPT ![c] = m], buf' \in {buf, <<>>},
         UNCHANGED <<waiting, spc, cur, heard, clnt>>
  PROVE  EchoAll'
<1>1. /\ SessTypeOK /\ EchoMain /\ EchoPieces(c) /\ EchoEnds(c)
  BY EchoServed DEF EchoAll
<1>2. buf \in Seq(Nat) /\ <<>> \in Seq(Nat) /\ link'[c] = m
      /\ \A d \in Clients \ {c} : link'[d] = link[d]
  BY <1>1 DEF SessTypeOK
<1>3. SessTypeOK'
  BY <1>1, <1>2 DEF SessTypeOK, clnt
<1>4. /\ HasLeft(c)' = HasLeft(c) /\ Typed(c)' = Typed(c) /\ got'[c] = got[c]
      /\ cpc'[c] = cpc[c] /\ Shown(c)' = Shown(c)
  BY <1>2 DEF HasLeft, Typed, Shown, clnt
<1>5. EchoPieces(c)'
  <2>1. Within(BufOf(c), Len(got[c]), Typed(c)) => Within(BufOf(c), Len(got[c]), Typed(c))'
    BY <1>4 DEF BufOf, Within
  <2> QED BY <1>1, <1>2, <1>4, <2>1 DEF EchoPieces, EchoRest
<1>6. EchoEnds(c)'
  BY <1>1, <1>2, <1>4 DEF EchoEnds, Over
<1>7. EchoMain'
  BY <1>1 DEF EchoMain, Over
<1> QED BY <1>2, <1>3, <1>5, <1>6, <1>7, EchoServerStep

LEMMA EchoReadError ==
  ASSUME EchoAll, UNCHANGED program, ReadError
  PROVE  EchoAll'
<1>1. /\ spc = "read" /\ HasError(link[cur], "serv")
      /\ UNCHANGED <<waiting, cur, buf, heard, clnt>>
  BY DEF ReadError
<1>2. PICK c \in Clients : c = cur
  BY <1>1, EchoServed
<1>3. /\ HasLeft(c) /\ link[c] \in Links /\ SessTypeOK /\ Len(got[c]) < Typed(c)
  BY <1>1, <1>2, EchoServed DEF HasError, EchoAll
<1>4. link = [link EXCEPT ![c] = link[c]] /\ buf' \in Seq(Nat)
  BY <1>1, <1>3, Unmoved DEF SessTypeOK
<1>5. \/ link' = [link EXCEPT ![c] = Noted(link[c], "serv")] /\ spc' = spc
      \/ \E pos \in {"failed", "killed"} : Exit(pos, link)
  BY <1>2 DEF ReadError
<1>6. CASE link' = [link EXCEPT ![c] = Noted(link[c], "serv")] /\ spc' = spc
  <2>1. /\ Noted(link[c], "serv") \in Links /\ Noted(link[c], "serv").in = link[c].in
        /\ Noted(link[c], "serv").way = link[c].way
    BY <1>3, NotedLink DEF Ends
  <2> QED BY <1>1, <1>2, <1>3, <1>6, <2>1, EchoNoted
<1>7. ASSUME NEW pos \in {"failed", "killed"}, Exit(pos, link) PROVE EchoAll'
  <2>1. Exit(pos, [link EXCEPT ![c] = link[c]]) /\ pos \in Over
    BY <1>4, <1>7 DEF Over
  <2> QED BY <1>1, <1>2, <1>3, <1>4, <2>1, EchoExit
<1> QED BY <1>5, <1>6, <1>7

LEMMA EchoWriteGone ==
  ASSUME EchoAll, UNCHANGED program, NEW strict, ServerPutGone(strict, <<>>)
  PROVE  EchoAll'
<1>1. /\ spc = "write" /\ buf # <<>> /\ Gone(link[cur], "serv") /\ buf' = <<>>
      /\ UNCHANGED <<waiting, cur, heard, clnt>>
  BY DEF ServerPutGone
<1>2. PICK c \in Clients : c = cur
  BY <1>1, EchoServed
<1>3. /\ HasLeft(c) /\ link[c] \in Links /\ SessTypeOK /\ EchoPieces(c)
      /\ link[c].way["serv"] = "open"
  BY <1>1, <1>2, EchoServed DEF Gone, Other, EchoAll
<1>4. link = [link EXCEPT ![c] = link[c]] /\ buf \in Seq(Nat) /\ <<>> \in Seq(Nat)
      /\ Len(got[c]) \in Nat /\ Typed(c) \in Nat
  BY <1>3, Unmoved, TypedNat DEF SessTypeOK
<1>5. Len(got[c]) < Typed(c)
  <2>1. Within(buf, Len(got[c]), Typed(c))
    BY <1>2, <1>3 DEF EchoPieces, EchoRest, BufOf
  <2> QED BY <1>1, <1>4, <2>1, WithinSome
<1>6. \/ \E m \in PutGone(link[c], "serv") : link' = [link EXCEPT ![c] = m] /\ spc' = spc
      \/ \E pos \in {"failed", "killed"} : Exit(pos, link)
  BY <1>2 DEF ServerPutGone
<1>7. ASSUME NEW m \in PutGone(link[c], "serv"), link' = [link EXCEPT ![c] = m], spc' = spc
      PROVE  EchoAll'
  <2>1. m \in Links /\ m.in = link[c].in /\ m.way = link[c].way
    BY <1>3, NotePut DEF Ends
  <2> QED BY <1>1, <1>2, <1>3, <1>5, <1>7, <2>1, EchoNoted
<1>8. ASSUME NEW pos \in {"failed", "killed"}, Exit(pos, link) PROVE EchoAll'
  <2>1. Exit(pos, [link EXCEPT ![c] = link[c]]) /\ pos \in Over
    BY <1>4, <1>8 DEF Over
  <2> QED BY <1>1, <1>2, <1>3, <1>4, <1>5, <2>1, EchoExit
<1> QED BY <1>6, <1>7, <1>8

LEMMA EchoClientMoves ==
  ASSUME EchoAll, program \in EchoPrograms, UNCHANGED program, NEW c \in Clients,
         EchoClient(c) \/ WriteRoutine(c) \/ EchoUser(c) \/ Interrupt(c)
  PROVE  EchoAll'
<1>1. /\ EchoPieces(c) /\ EchoEnds(c) /\ EchoPlaces(c) /\ SessTypeOK
  BY DEF EchoAll, EchoOf
<1>2. CASE ClientPut(c) \/ WriteRoutine(c)
  BY <1>2, EchoPut
<1>3. CASE ClientPutGone(c)
  <2>1. /\ ~HasLeft(c) /\ Gotoc(c, "lost") /\ "lost" \in Places
        /\ UNCHANGED <<link, waiting, serv, out, got, asked>>
    BY <1>3 DEF ClientPutGone, HasLeft, Places
  <2> QED BY <2>1, EchoMove
<1>4. CASE LineSent(c)
  <2>1. PICK l \in {"prompt", "read"} :
          ClientSent(c, l) /\ (l = "prompt" => Len(got[c]) = Typed(c))
    BY <1>4 DEF LineSent
  <2>2. /\ ~HasLeft(c) /\ Gotoc(c, l) /\ l \in Places /\ out[c] = <<>>
        /\ UNCHANGED <<link, waiting, serv, out, got, asked>>
    BY <2>1 DEF ClientSent, HasLeft, Places
  <2> QED BY <2>1, <2>2, EchoMove
<1>5. CASE Show(c)
  <2>1. PICK n \in 1..Len(link[c].in["clnt"]) :
          ClientGet(c, n, IF Whole /\ Len(got[c]) + n < Typed(c) THEN "read" ELSE "prompt")
    BY <1>5 DEF Show
  <2>2. cpc[c] = "read" /\ out[c] = <<>> /\ Len(got[c]) + n \in Nat /\ Typed(c) \in Nat
    <3>1. cpc[c] = "read" /\ out[c] = <<>>
      BY <1>1, <1>5 DEF Show, EchoPlaces
    <3>2. Len(got[c]) \in Nat /\ n \in Nat
      BY <1>1, Unmoved
    <3>3. Typed(c) \in Nat
      BY <1>1, TypedNat
    <3> QED BY <3>1, <3>2, <3>3
  <2>3. CASE Whole /\ Len(got[c]) + n < Typed(c)
    <3>1. ClientGet(c, n, "read")
      BY <2>1, <2>3
    <3> QED BY <2>2, <3>1, EchoGet
  <2>4. CASE ~(Whole /\ Len(got[c]) + n < Typed(c))
    <3>1. ClientGet(c, n, "prompt")
      BY <2>1, <2>4
    <3>2. Whole => Len(got[c]) + n >= Typed(c)
      BY <2>2, <2>4
    <3> QED BY <2>2, <3>1, <3>2, EchoGet
  <2> QED BY <2>3, <2>4
<1>6. CASE ShowNone(c)
  <2>1. PICK l \in {"spin", "lost"} :
          /\ Gotoc(c, l) /\ (l = "spin" => HasEof(link[c], "clnt"))
          /\ cpc[c] = "read" /\ UNCHANGED <<link, waiting, serv, out, got, asked>>
    BY <1>6 DEF ShowNone
  <2>2. ~HasLeft(c) /\ l \in Places
    BY <2>1 DEF HasLeft, Places
  <2>3. ~HasEof(link[c], "clnt")
    BY <1>1, <2>2 DEF HasEof, Other, EchoEnds
  <2> QED BY <2>1, <2>2, <2>3, EchoMove
<1>7. CASE ReadRoutine(c)
  <2>1. cpc[c] = "both" /\ ~HasLeft(c) /\ "lost" \in Places
    BY <1>7 DEF ReadRoutine, HasLeft, Places
  <2>2. CASE \E n \in 1..Len(link[c].in["clnt"]) : ClientGet(c, n, "both")
    BY <2>1, <2>2, EchoGet
  <2>3. CASE Gotoc(c, "lost") /\ UNCHANGED <<link, waiting, serv, out, got, asked>>
    BY <2>1, <2>3, EchoMove
  <2> QED BY <1>7, <2>2, <2>3 DEF ReadRoutine
<1>8. CASE \E l \in {"both", "prompt"} : Connect(c, l)
  <2>1. PICK l \in {"both", "prompt"} : Connect(c, l)
    BY <1>8
  <2>2. /\ cpc[c] = "off" /\ Gotoc(c, l) /\ waiting' = waiting \cup {c}
        /\ UNCHANGED <<link, serv, out, got, asked>> /\ ~HasLeft(c) /\ l \in Places
    BY <2>1 DEF Connect, HasLeft, Places
  <2>3. out[c] = <<>> /\ Len(got[c]) = 0 /\ Typed(c) = 0
    BY <1>1, <2>2, NothingTyped DEF EchoPlaces
  <2> QED BY <2>2, <2>3, EchoMove
<1>9. CASE TypeLine(c) \/ TypeWord(c)
  BY <1>9, EchoType
<1>10. CASE Quit(c) \/ Interrupt(c)
  <2>1. PICK l \in {"done", "gone"} :
          /\ Gotoc(c, l) /\ (l = "done" => cpc[c] = "prompt") /\ ~HasLeft(c)
          /\ link' = [link EXCEPT ![c] = Close(@, "clnt")]
          /\ UNCHANGED <<waiting, serv, out, got, asked>>
    BY <1>10 DEF Quit, Interrupt, ClientClose, HasLeft
  <2> QED BY <2>1, EchoLeave
<1> QED BY <1>2, <1>3, <1>4, <1>5, <1>6, <1>7, <1>8, <1>9, <1>10 DEF EchoClient, EchoUser

LEMMA EchoServerMoves ==
  ASSUME EchoAll, UNCHANGED program, EchoServer
  PROVE  EchoAll'
BY EchoAccept, EchoRead, EchoEof, EchoReadError, EchoWrite, EchoWriteGone, EchoSent
   DEF EchoServer, WriteRest

(* The programs of the three kinds are different ones.                       *)
LEMMA Kinds ==
  /\ program \in EchoPrograms => program # "op_server" /\ program \notin TransferPrograms
  /\ program \in TransferPrograms => program # "op_server" /\ program \notin EchoPrograms
BY DEF EchoPrograms, TransferPrograms

LEMMA SessInit ==
  ASSUME SessionInit
  PROVE  /\ SessTypeOK /\ spc = "accept" /\ cur = None /\ buf = <<>> /\ heard = <<>>
         /\ waiting = {}
         /\ \A c \in Clients :
              /\ cpc[c] = "off" /\ out[c] = <<>> /\ got[c] = <<>> /\ asked[c] = <<>>
              /\ link[c] = NewLink /\ NewLink.in["clnt"] = <<>> /\ NewLink.in["serv"] = <<>>
              /\ NewLink.way["clnt"] = "open" /\ NewLink.way["serv"] = "open"
              /\ NewLink.err["clnt"] = "no" /\ NewLink.err["serv"] = "no"
<1>1. SessTypeOK
  BY NewLinkType DEF SessionInit, SessTypeOK, Places
<1> QED BY <1>1 DEF SessionInit, NewLink, Ends

LEMMA EchoInit ==
  ASSUME Init
  PROVE  EchoInv
<1>1. SUFFICES ASSUME SessionInit PROVE EchoAll
  BY DEF EchoInv, Init
<1>2. EchoMain
  BY <1>1, SessInit DEF EchoMain
<1>3. ASSUME NEW c \in Clients PROVE EchoOf(c)
  <2>1. /\ link[c].in["clnt"] = <<>> /\ link[c].in["serv"] = <<>> /\ got[c] = <<>>
        /\ out[c] = <<>> /\ BufOf(c) = <<>> /\ Typed(c) = 0 /\ ~HasLeft(c) /\ Shown(c) = 0
    <3>1. /\ link[c].in["clnt"] = <<>> /\ link[c].in["serv"] = <<>> /\ got[c] = <<>>
          /\ out[c] = <<>> /\ asked[c] = <<>> /\ cpc[c] = "off" /\ buf = <<>>
      BY <1>1, SessInit
    <3>2. Len(got[c]) = 0 /\ Len(link[c].in["clnt"]) = 0
      BY <3>1
    <3> QED BY <3>1, <3>2, NothingTyped DEF BufOf, HasLeft, Shown
  <2>2. EchoPieces(c)
    BY <2>1, RunEmpty DEF EchoPieces, EchoChain, Chain
  <2>3. EchoEnds(c)
    BY <1>1, <2>1, SessInit, SessionAssumption DEF EchoEnds
  <2>4. EchoPlaces(c)
    BY <1>1, <2>1, SessInit DEF EchoPlaces
  <2> QED BY <2>2, <2>3, <2>4 DEF EchoOf
<1> QED BY <1>1, <1>2, <1>3, SessInit DEF EchoAll

LEMMA EchoNext ==
  ASSUME EchoInv, [Next]_vars
  PROVE  EchoInv'
<1>1. CASE UNCHANGED vars
  <2>1. EchoAll => EchoAll'
    <3>1. SUFFICES ASSUME EchoAll PROVE EchoAll'
      OBVIOUS
    <3>2. SessTypeOK' /\ EchoMain'
      BY <1>1, <3>1 DEF vars, serv, clnt, EchoAll, SessTypeOK, EchoMain, HasLeft, Typed
    <3>3. ASSUME NEW d \in Clients PROVE EchoOf(d)'
      <4>1. EchoOf(d) /\ BufOf(d)' = BufOf(d)
        BY <1>1, <3>1 DEF vars, serv, clnt, EchoAll, BufOf
      <4> QED BY <1>1, <4>1, EchoFrame DEF vars, serv, clnt
    <3> QED BY <3>2, <3>3 DEF EchoAll
  <2> QED BY <1>1, <2>1 DEF EchoInv, vars
<1>2. CASE Next
  <2>1. program' = program
    BY <1>2 DEF Next
  <2>2. SUFFICES ASSUME program \in EchoPrograms, EchoAll PROVE EchoAll'
    BY <2>1 DEF EchoInv
  <2>3. CASE Server
    BY <2>1, <2>2, <2>3, Kinds, EchoServerMoves DEF Server
  <2>4. ASSUME NEW c \in Clients, Client(c) \/ Writer(c) \/ User(c) PROVE EchoAll'
    BY <2>1, <2>2, <2>4, Kinds, EchoClientMoves DEF Client, Writer, User
  <2> QED BY <1>2, <2>3, <2>4 DEF Next
<1> QED BY <1>1, <1>2

(* What a client of an echo server has read is the beginning of what it      *)
(* typed, for any clients, buffers and lines; and the clients that read      *)
(* until the whole line is back have all of it when they prompt again, and   *)
(* never read at the end of the file.                                        *)
THEOREM EchoInStep == Spec => []InStep
<1>1. EchoInv => InStep
  <2>1. SUFFICES ASSUME program \in EchoPrograms, EchoAll, NEW c \in Clients
                 PROVE  /\ \A j \in DOMAIN got[c] : got[c][j] = j
                        /\ Whole => /\ cpc[c] = "prompt" => Len(got[c]) = Typed(c)
                                    /\ cpc[c] # "spin"
    BY DEF EchoInv, InStep
  <2>2. Run(got[c], 0) /\ EchoPlaces(c) /\ got[c] \in Seq(Nat)
    BY <2>1, Unmoved DEF EchoAll, EchoOf, EchoPieces
  <2> QED BY <2>2 DEF Run, EchoPlaces
<1> QED BY <1>1, EchoInit, EchoNext, PTL DEF Spec

(* An echo server ends before its time only because a client left with part  *)
(* of its echo unread.                                                       *)
THEOREM EchoSurvives == Spec => []ServerSurvives
<1>1. EchoInv => ServerSurvives
  <2>1. SUFFICES ASSUME program \in EchoPrograms, EchoAll, spc \in {"failed", "killed"}
                 PROVE  \E c \in Clients : LeftEarly(c)
    BY DEF EchoInv, ServerSurvives
  <2>2. PICK c \in Clients : HasLeft(c) /\ Len(got[c]) < Typed(c)
    BY <2>1 DEF EchoAll, EchoMain
  <2>3. EchoPlaces(c) /\ Len(got[c]) \in Nat /\ Typed(c) \in Nat
    BY <2>1, Unmoved, TypedNat DEF EchoAll, EchoOf
  <2>4. Whole => cpc[c] = "gone"
    BY <2>2, <2>3 DEF HasLeft, EchoPlaces
  <2> QED BY <2>2, <2>4 DEF LeftEarly, HasLeft
<1> QED BY <1>1, EchoInit, EchoNext, PTL DEF Spec

-----------------------------------------------------------------------------
(* The servers that send a text.  Of the text, the client has read the       *)
(* beginning, then comes what is on its way, then what the server has yet to *)
(* write; the thanks likewise, the other way.                                *)
TextPrograms == TransferPrograms \ {"peek_recv"}
Replies == program \in {"file_server", "sep_serv2"}

TextPieces(c) ==
  /\ Run(got[c], 0) /\ Run(link[c].in["clnt"], Len(got[c])) /\ Shown(c) <= TextLen
  /\ cpc[c] \in {"write", "leave", "done"} =>
       IF program = "hello_server" THEN got[c] # <<>> ELSE Len(got[c]) = TextLen
  /\ cur = c /\ ~HasLeft(c) =>
       /\ spc = "load" => Shown(c) = 0
       /\ spc = "write" => Run(buf, Shown(c)) /\ Shown(c) + Len(buf) = TextLen
       /\ spc \in {"reply", "leave", "ended"} => Shown(c) = TextLen

(* Only the connection that the server accepted ends in order; the others    *)
(* are reset.                                                                *)
TextConn(c) ==
  /\ link[c].way["clnt"] = IF HasLeft(c) THEN "closed" ELSE "open"
  /\ link[c].way["serv"] # "open" => HasLeft(c) \/ link[c].err["clnt"] = "reset" \/ cur = c
  /\ spc \notin Over /\ (c \in waiting \/ cpc[c] = "off") =>
       link[c].way["serv"] = "open" /\ cur # c /\ Shown(c) = 0
  /\ c \in waiting => cpc[c] # "off"
  /\ cpc[c] # "open"
  /\ cur = c => /\ spc \in {"load", "write"} => link[c].way["serv"] = "open"
                /\ spc = "reply" => link[c].way["serv"] = "shut"
                /\ spc = "killed" => HasLeft(c)

ThanksPieces(c) ==
  /\ Run(link[c].in["serv"], Len(heard))
  /\ Len(heard) + Len(link[c].in["serv"]) <= ThanksLen
  /\ cpc[c] = "read" => heard = <<>>
  /\ cpc[c] \in {"write", "leave", "done"} =>
       Pair(Len(heard), link[c].in["serv"], out[c], ThanksLen)

ThanksOf(c) ==
  /\ cpc[c] \in {"leave", "done"} => out[c] = <<>>
  /\ cpc[c] \in {"write", "leave", "done"} => cur = c
  /\ cpc[c] \in {"off", "read"} \/ cur # c => link[c].in["serv"] = <<>>
  /\ link[c].err["serv"] = "reset" => cpc[c] = "gone"
  /\ cur = c /\ link[c].way["serv"] # "closed" => ThanksPieces(c)

TextMain ==
  /\ spc \in {"accept", "load", "write", "reply", "leave", "ended", "killed"}
  /\ spc = "accept" => cur = None
  /\ spc # "accept" => cur \in Clients
  /\ Run(heard, 0) /\ Len(heard) <= ThanksLen
  /\ spc \in {"load", "write"} \/ ~Replies => heard = <<>>
  /\ spc = "reply" => /\ Replies /\ Len(heard) < ThanksLen
                      /\ program = "file_server" => heard = <<>>
  /\ spc \in {"leave", "ended"} /\ Replies /\ ~Left(cur) =>
       IF program = "file_server" THEN heard # <<>> ELSE Len(heard) = ThanksLen

TextOf(c) == TextPieces(c) /\ TextConn(c) /\ (Thanks => ThanksOf(c))

TextAll == SessTypeOK /\ TextMain /\ \A c \in Clients : TextOf(c)

TextInv == program \in TextPrograms => TextAll

LEMMA TextFrame ==
  ASSUME NEW d \in Clients, TextOf(d), program' = program,
         link'[d] = link[d], out'[d] = out[d], got'[d] = got[d], cpc'[d] = cpc[d],
         d \in waiting' => d \in waiting, spc' \notin Over => spc \notin Over,
         cur = d => cur' = d,
         cur' = d => cur = d /\ spc' = spc /\ buf' = buf /\ heard' = heard
  PROVE  TextOf(d)'
<1>1. /\ HasLeft(d)' = HasLeft(d) /\ Shown(d)' = Shown(d) /\ Thanks' = Thanks
  BY DEF HasLeft, Shown, Thanks
<1>2. TextPieces(d)'
  BY <1>1 DEF TextOf, TextPieces
<1>3. TextConn(d)'
  BY <1>1 DEF TextOf, TextConn
<1>4. Thanks => ThanksOf(d)'
  BY <1>1 DEF TextOf, ThanksOf, ThanksPieces
<1> QED BY <1>1, <1>2, <1>3, <1>4 DEF TextOf

LEMMA TextClientStep ==
  ASSUME TextAll, NEW c \in Clients, SessTypeOK', TextOf(c)', cpc[c] # "gone",
         program' = program, UNCHANGED serv, waiting' \in {waiting, waiting \cup {c}},
         \A d \in Clients \ {c} :
           link'[d] = link[d] /\ out'[d] = out[d] /\ got'[d] = got[d] /\ cpc'[d] = cpc[d]
  PROVE  TextAll'
<1>1. ASSUME NEW d \in Clients \ {c} PROVE TextOf(d)'
  BY TextFrame DEF TextAll, serv
<1>2. Left(cur) => Left(cur)'
  BY DEF Left, serv
<1>3. TextMain'
  BY <1>2 DEF TextAll, TextMain, serv, Replies
<1> QED BY <1>1, <1>3 DEF TextAll

LEMMA TextKinds ==
  ASSUME program \in TextPrograms
  PROVE  /\ program \in TransferPrograms /\ ~Peeks
         /\ Thanks => program # "hello_server"
         /\ Replies => Thanks
         /\ Thanks /\ program # "sep_serv" => Replies
BY DEF TextPrograms, TransferPrograms, Peeks, Thanks, Replies

(* Part of the thanks is written.                                            *)
LEMMA ThanksPut ==
  ASSUME TextAll, program \in TextPrograms, UNCHANGED program, NEW c \in Clients,
         ClientPut(c)
  PROVE  TextAll'
<1> DEFINE k == link[c]
           x == Head(out[c])
<1>0. /\ cpc[c] = "write" /\ out[c] # <<>> /\ CanPut(k, "clnt", Room)
      /\ link' = [link EXCEPT ![c] = Put(k, "clnt", x)]
      /\ out' = [out EXCEPT ![c] = Tail(out[c])]
      /\ UNCHANGED <<waiting, serv, cpc, got, asked>>
  BY DEF ClientPut
<1>1. /\ SessTypeOK /\ TextPieces(c) /\ TextConn(c) /\ (Thanks => ThanksOf(c))
      /\ k \in Links /\ out[c] \in Seq(Nat) /\ got[c] \in Seq(Nat)
      /\ k.in["clnt"] \in Seq(Nat) /\ k.in["serv"] \in Seq(Nat)
      /\ x \in Nat /\ Tail(out[c]) \in Seq(Nat) /\ heard \in Seq(Nat)
  <2>1. /\ SessTypeOK /\ TextPieces(c) /\ TextConn(c) /\ (Thanks => ThanksOf(c))
    BY DEF TextAll, TextOf
  <2>2. /\ k \in Links /\ out[c] \in Seq(Nat) /\ got[c] \in Seq(Nat)
        /\ k.in["clnt"] \in Seq(Nat) /\ k.in["serv"] \in Seq(Nat) /\ heard \in Seq(Nat)
    BY <2>1, Unmoved DEF SessTypeOK
  <2> QED BY <1>0, <2>1, <2>2
<1>2. /\ Put(k, "clnt", x) \in Links
      /\ Put(k, "clnt", x).way = k.way /\ Put(k, "clnt", x).err = k.err
      /\ Put(k, "clnt", x).in["clnt"] = k.in["clnt"]
      /\ Put(k, "clnt", x).in["serv"] = Append(k.in["serv"], x)
  <2> HIDE DEF k, x
  <2> QED BY <1>1, PutLink
<1>3. /\ SessTypeOK' /\ link'[c] = Put(k, "clnt", x) /\ out'[c] = Tail(out[c])
      /\ got'[c] = got[c] /\ cpc'[c] = cpc[c]
      /\ \A d \in Clients \ {c} :
           link'[d] = link[d] /\ out'[d] = out[d] /\ got'[d] = got[d] /\ cpc'[d] = cpc[d]
  <2> HIDE DEF k, x
  <2> QED BY <1>0, <1>1, <1>2 DEF SessTypeOK, serv
<1>4. HasLeft(c)' = HasLeft(c) /\ Shown(c)' = Shown(c) /\ Thanks' = Thanks
  BY <1>2, <1>3 DEF HasLeft, Shown, Thanks
<1>5. k.way["serv"] # "closed"
  BY <1>0 DEF CanPut, Gone, Other
<1>6. TextPieces(c)'
  BY <1>0, <1>1, <1>2, <1>3, <1>4 DEF TextPieces, serv
<1>7. TextConn(c)'
  BY <1>0, <1>1, <1>2, <1>3, <1>4 DEF TextConn, serv
<1>8. Thanks => ThanksOf(c)'
  <2>1. SUFFICES ASSUME Thanks PROVE ThanksOf(c)'
    OBVIOUS
  <2>2. Pair(Len(heard), k.in["serv"], out[c], ThanksLen)
    BY <1>0, <1>1, <1>5, <2>1 DEF ThanksOf, ThanksPieces
  <2>3. Len(heard) \in Nat /\ ThanksLen \in Nat
    BY <1>1, TransferAssumption
  <2>4. /\ Pair(Len(heard), Append(k.in["serv"], x), Tail(out[c]), ThanksLen)
        /\ Run(Append(k.in["serv"], x), Len(heard))
        /\ Len(heard) + Len(Append(k.in["serv"], x)) <= ThanksLen
    <3> HIDE DEF k
    <3>1. /\ Pair(Len(heard), Append(k.in["serv"], x), Tail(out[c]), ThanksLen)
          /\ Append(k.in["serv"], x) \in Seq(Nat) /\ Tail(out[c]) \in Seq(Nat)
      BY <1>0, <1>1, <2>2, <2>3, PairPut
    <3> HIDE DEF x
    <3> QED BY <2>3, <3>1, PairBound
  <2>5. ThanksPieces(c)'
    BY <1>0, <1>2, <1>3, <2>4 DEF ThanksPieces, serv
  <2> QED BY <1>0, <1>1, <1>2, <1>3, <2>1, <2>5 DEF ThanksOf, serv
<1> QED BY <1>0, <1>3, <1>4, <1>6, <1>7, <1>8, TextClientStep DEF TextOf

(* Part of the text is read.                                                 *)
LEMMA TextRead ==
  ASSUME TextAll, program \in TextPrograms, UNCHANGED program, NEW c \in Clients,
         ReadText(c)
  PROVE  TextAll'
<1> DEFINE k == link[c]
           i == k.in["clnt"]
<1>0. PICK l \in {"leave", "read"}, n \in 1..Len(i) :
        ClientGet(c, n, l) /\ (l = "leave" <=> program = "hello_server")
  BY DEF ReadText
<1> DEFINE h == SubSeq(i, 1, n)
           r == SubSeq(i, n + 1, Len(i))
<1>1. /\ SessTypeOK /\ TextPieces(c) /\ TextConn(c) /\ (Thanks => ThanksOf(c))
      /\ cpc[c] = "read" /\ ~HasLeft(c) /\ l \in Places
  BY DEF TextAll, TextOf, ReadText, HasLeft, Places
<1>2. /\ k \in Links /\ got[c] \in Seq(Nat) /\ i \in Seq(Nat) /\ k.in["serv"] \in Seq(Nat)
      /\ n \in 0..Len(i) /\ n > 0 /\ n <= Len(i)
  BY <1>1, Unmoved
<1>3. /\ h \in Seq(Nat) /\ Len(h) = n /\ r \in Seq(Nat) /\ Len(r) = Len(i) - n
  BY <1>2, SplitLens
<1>4. /\ got[c] \o h \in Seq(Nat) /\ Len(got[c] \o h) = Len(got[c]) + n
      /\ Run(got[c] \o h, 0) /\ Run(r, Len(got[c]) + n)
  <2>1. Run(h, Len(got[c])) /\ Run(r, Len(got[c]) + n)
    BY <1>1, <1>2, RunSplit DEF TextPieces
  <2> HIDE DEF h, r
  <2>2. Run(got[c], 0) /\ Run(h, 0 + Len(got[c]))
    BY <1>1, <1>2, <2>1 DEF TextPieces
  <2> QED BY <1>2, <1>3, <2>1, <2>2, RunConcat
<1>5. /\ Drop(k, "clnt", n) \in Links
      /\ Drop(k, "clnt", n).way = k.way /\ Drop(k, "clnt", n).err = k.err
      /\ Drop(k, "clnt", n).in["clnt"] = r
      /\ Drop(k, "clnt", n).in["serv"] = k.in["serv"]
  BY <1>2, DropLink DEF Ends, Other
<1>6. /\ link' = [link EXCEPT ![c] = Drop(k, "clnt", n)]
      /\ got' = [got EXCEPT ![c] = got[c] \o h]
      /\ cpc' = [cpc EXCEPT ![c] = l] /\ UNCHANGED <<waiting, serv, out, asked>>
  BY <1>0 DEF ClientGet, Gotoc, First
<1>7. /\ SessTypeOK' /\ link'[c] = Drop(k, "clnt", n) /\ out'[c] = out[c]
      /\ got'[c] = got[c] \o h /\ cpc'[c] = l
      /\ \A d \in Clients \ {c} :
           link'[d] = link[d] /\ out'[d] = out[d] /\ got'[d] = got[d] /\ cpc'[d] = cpc[d]
  <2> HIDE DEF h, k
  <2> QED BY <1>1, <1>4, <1>5, <1>6 DEF SessTypeOK, serv
<1>8. ~HasLeft(c)' /\ Thanks' = Thanks /\ got'[c] # <<>>
  <2>1. Len(got[c]) + n > 0
    BY <1>2
  <2> HIDE DEF h
  <2> QED BY <1>4, <1>7, <2>1 DEF HasLeft, Thanks
<1>9. Shown(c)' = Shown(c) /\ Shown(c) > 0
  <2>1. Shown(c)' = Len(got[c] \o h) + Len(r)
    BY <1>5, <1>7 DEF Shown
  <2>2. Len(got[c]) \in Nat /\ Len(i) \in Nat
    BY <1>2
  <2>3. ASSUME NEW x \in Nat, NEW y \in Nat, n <= y
        PROVE  (x + n) + (y - n) = x + y /\ x + y > 0
    BY <1>2, <2>3
  <2>4. Shown(c) = Len(got[c]) + Len(i)
    BY DEF Shown
  <2> HIDE DEF h, r, i
  <2> QED BY <1>2, <1>3, <1>4, <2>1, <2>2, <2>3, <2>4
<1> HIDE DEF h, r
<1>10. TextPieces(c)'
  BY <1>0, <1>1, <1>4, <1>5, <1>6, <1>7, <1>8, <1>9 DEF TextPieces, serv
<1>11. TextConn(c)'
  BY <1>1, <1>5, <1>6, <1>7, <1>8, <1>9 DEF TextConn, serv
<1>12. Thanks => ThanksOf(c)'
  <2>1. SUFFICES ASSUME Thanks PROVE ThanksOf(c)'
    OBVIOUS
  <2>2. l = "read"
    BY <1>0, <2>1, TextKinds
  <2>3. ThanksPieces(c) => ThanksPieces(c)'
    BY <1>1, <1>5, <1>6, <1>7, <2>2 DEF ThanksPieces, serv
  <2> QED BY <1>1, <1>5, <1>6, <1>7, <2>1, <2>2, <2>3 DEF ThanksOf, serv
<1> QED BY <1>1, <1>6, <1>7, <1>8, <1>10, <1>11, <1>12, TextClientStep DEF TextOf

(* A client moves on without a read or a write, after it connected, when the *)
(* text or its thanks are complete, or when either failed.                   *)
LEMMA TextMove ==
  ASSUME TextAll, program \in TextPrograms, UNCHANGED program, NEW c \in Clients,
         NEW l \in {"read", "leave", "lost"}, Gotoc(c, l),
         cpc[c] \in {"off", "read", "write"},
         waiting' \in {waiting, waiting \cup {c}},
         l = "read" => cpc[c] = "off",
         waiting' # waiting => cpc[c] = "off", cpc[c] = "off" => spc \notin Over,
         l = "leave" =>
           \/ cpc[c] = "write" /\ out[c] = <<>>
           \/ ~Thanks /\ IF program = "hello_server" THEN got[c] # <<>>
                         ELSE Len(got[c]) = TextLen,
         UNCHANGED <<link, serv, out, got, asked>>
  PROVE  TextAll'
<1>1. /\ SessTypeOK /\ TextPieces(c) /\ TextConn(c) /\ (Thanks => ThanksOf(c))
  BY DEF TextAll, TextOf
<1>2. /\ SessTypeOK' /\ link'[c] = link[c] /\ out'[c] = out[c] /\ got'[c] = got[c]
      /\ cpc'[c] = l
      /\ \A d \in Clients \ {c} :
           link'[d] = link[d] /\ out'[d] = out[d] /\ got'[d] = got[d] /\ cpc'[d] = cpc[d]
  BY <1>1 DEF SessTypeOK, serv, Gotoc, Places
<1>3. ~HasLeft(c) /\ ~HasLeft(c)' /\ Thanks' = Thanks /\ Shown(c)' = Shown(c)
  BY <1>2 DEF HasLeft, Thanks, Shown
<1>4. TextPieces(c)'
  BY <1>1, <1>2, <1>3 DEF TextPieces, serv
<1>5. TextConn(c)'
  BY <1>1, <1>2, <1>3 DEF TextConn, serv
<1>6. Thanks => ThanksOf(c)'
  <2>1. SUFFICES ASSUME Thanks PROVE ThanksOf(c)'
    OBVIOUS
  <2>2. ThanksPieces(c) /\ (l = "read" => cpc[c] = "read") => ThanksPieces(c)'
    BY <1>2, <2>1 DEF ThanksPieces, serv
  <2>3. CASE cpc[c] = "off"
    <3>1. cur # c
      BY <1>1, <2>3 DEF TextConn
    <3> QED BY <1>1, <1>2, <2>1, <2>2, <2>3, <3>1 DEF ThanksOf, serv
  <2>4. CASE cpc[c] # "off"
    BY <1>1, <1>2, <2>1, <2>2, <2>4 DEF ThanksOf, serv
  <2> QED BY <2>3, <2>4
<1> QED BY <1>2, <1>3, <1>4, <1>5, <1>6, TextClientStep DEF TextOf

(* A client closes its socket.                                               *)
LEMMA TextLeave ==
  ASSUME TextAll, program \in TextPrograms, UNCHANGED program, NEW c \in Clients,
         NEW l \in {"done", "gone"}, ~HasLeft(c), Gotoc(c, l), l = "done" => cpc[c] = "leave",
         link' = [link EXCEPT ![c] = Close(@, "clnt")],
         UNCHANGED <<waiting, serv, out, got, asked>>
  PROVE  TextAll'
<1> DEFINE k == link[c]
           i == k.in["clnt"]
<1>1. /\ SessTypeOK /\ TextPieces(c) /\ TextConn(c) /\ (Thanks => ThanksOf(c)) /\ l \in Places
  BY DEF TextAll, TextOf, Places
<1>2. /\ k \in Links /\ got[c] \in Seq(Nat) /\ i \in Seq(Nat) /\ k.in["serv"] \in Seq(Nat)
      /\ Shown(c) \in Nat /\ Len(got[c]) \in Nat /\ Len(got[c]) <= Shown(c)
  BY <1>1, Unmoved
<1>3. /\ Close(k, "clnt") \in Links
      /\ Close(k, "clnt").way["clnt"] = "closed"
      /\ Close(k, "clnt").way["serv"] = k.way["serv"]
      /\ Close(k, "clnt").in["clnt"] = <<>> /\ Close(k, "clnt").in["serv"] = k.in["serv"]
      /\ Close(k, "clnt").err["serv"] = IF i # <<>> /\ k.way["serv"] # "closed"
                                        THEN "reset" ELSE k.err["serv"]
  BY <1>2, CloseLink DEF Ends, Other
<1>4. /\ link' = [link EXCEPT ![c] = Close(k, "clnt")] /\ cpc' = [cpc EXCEPT ![c] = l]
      /\ out' = out /\ got' = got /\ asked' = asked /\ waiting' = waiting /\ UNCHANGED serv
  BY DEF Gotoc
<1>5. /\ SessTypeOK' /\ link'[c] = Close(k, "clnt") /\ cpc'[c] = l
      /\ \A d \in Clients \ {c} :
           link'[d] = link[d] /\ out'[d] = out[d] /\ got'[d] = got[d] /\ cpc'[d] = cpc[d]
  <2> HIDE DEF k
  <2> QED BY <1>1, <1>3, <1>4 DEF SessTypeOK, serv
<1>6. HasLeft(c)' /\ Thanks' = Thanks
  BY <1>5 DEF HasLeft, Thanks
<1>7. Shown(c)' = Len(got[c])
  <2>1. got'[c] = got[c] /\ Len(link'[c].in["clnt"]) = 0
    BY <1>3, <1>4, <1>5
  <2>2. Shown(c)' = Len(got[c]) + 0
    BY <2>1 DEF Shown
  <2> QED BY <1>2, <2>2
<1>8. TextPieces(c)'
  <2>1. Run(<<>>, Len(got[c])) /\ Len(got[c]) <= TextLen
    BY <1>1, <1>2, RunEmpty, TransferAssumption DEF TextPieces
  <2> QED BY <1>1, <1>3, <1>4, <1>5, <1>6, <1>7, <2>1 DEF TextPieces
<1>9. TextConn(c)'
  <2>1. Shown(c) = 0 => Len(got[c]) = 0
    BY <1>2
  <2> QED BY <1>1, <1>3, <1>4, <1>5, <1>6, <1>7, <2>1 DEF TextConn, serv
<1>10. Thanks => ThanksOf(c)'
  <2>1. SUFFICES ASSUME Thanks PROVE ThanksOf(c)'
    OBVIOUS
  <2>2. l = "done" => i = <<>>
    <3>1. SUFFICES ASSUME l = "done" PROVE i = <<>>
      OBVIOUS
    <3>2. Len(got[c]) = TextLen /\ Shown(c) <= TextLen
      BY <1>1, <2>1, <3>1, TextKinds DEF TextPieces
    <3>3. Shown(c) = Len(got[c]) + Len(i) /\ Len(i) \in Nat
      BY <1>2 DEF Shown
    <3> HIDE DEF i
    <3>4. Len(i) = 0
      BY <1>2, <3>2, <3>3
    <3> QED BY <1>2, <3>4
  <2>3. ThanksPieces(c) => ThanksPieces(c)'
    BY <1>3, <1>4, <1>5 DEF ThanksPieces, serv
  <2> QED BY <1>1, <1>3, <1>4, <1>5, <2>1, <2>2, <2>3 DEF ThanksOf, serv
<1>11. cpc[c] # "gone" /\ waiting' = waiting /\ UNCHANGED serv
  BY DEF HasLeft
<1> QED BY <1>4, <1>5, <1>6, <1>8, <1>9, <1>10, <1>11, TextClientStep DEF TextOf

(* Only the client whose connection ends in order reaches the end of the     *)
(* text, and it has all of it.                                               *)
LEMMA TextWhole ==
  ASSUME TextAll, NEW c \in Clients, cpc[c] = "read", HasEof(link[c], "clnt")
  PROVE  cur = c /\ Len(got[c]) = TextLen
<1>1. SessTypeOK /\ TextMain /\ TextPieces(c) /\ TextConn(c) /\ ~HasLeft(c)
  BY DEF TextAll, TextOf, HasLeft
<1>2. /\ link[c].way["serv"] # "open" /\ link[c].err["clnt"] # "reset"
      /\ link[c].in["clnt"] = <<>>
  BY DEF HasEof, Other
<1>3. cur = c
  BY <1>1, <1>2 DEF TextConn
<1>4. spc \in {"reply", "leave", "ended"}
  BY <1>1, <1>2, <1>3, SessionAssumption DEF TextConn, TextMain
<1>5. Shown(c) = TextLen
  BY <1>1, <1>3, <1>4 DEF TextPieces
<1>6. Len(got[c]) \in Nat
  BY <1>1, Unmoved
<1>7. Len(link[c].in["clnt"]) = 0
  BY <1>2
<1>8. Shown(c) = Len(got[c]) + 0
  BY <1>7 DEF Shown
<1> QED BY <1>3, <1>5, <1>6, <1>8

LEMMA TextOfNumbers ==
  ASSUME NEW n \in Nat
  PROVE  Text(n) \in Seq(Nat) /\ Len(Text(n)) = n /\ Run(Text(n), 0)
BY DEF Text, Run

LEMMA TextEnded ==
  ASSUME TextAll, program \in TextPrograms, UNCHANGED program, NEW c \in Clients,
         TextEnds(c)
  PROVE  TextAll'
<1>1. /\ cpc[c] = "read" /\ HasEof(link[c], "clnt")
      /\ UNCHANGED <<link, waiting, serv, got, asked>>
  BY DEF TextEnds
<1>2. cur = c /\ Len(got[c]) = TextLen
  BY <1>1, TextWhole
<1>3. /\ SessTypeOK /\ TextPieces(c) /\ TextConn(c) /\ (Thanks => ThanksOf(c)) /\ ~HasLeft(c)
      /\ got[c] \in Seq(Nat)
  BY <1>1, Unmoved DEF TextAll, TextOf, HasLeft
<1>4. CASE ~Thanks
  <2>1. Gotoc(c, "leave") /\ UNCHANGED out
    BY <1>4 DEF TextEnds
  <2>2. Len(got[c]) > 0
    BY <1>2, TransferAssumption
  <2>3. got[c] # <<>>
    BY <1>3, <2>2
  <2> QED BY <1>1, <1>2, <1>4, <2>1, <2>3, TextMove
<1>5. CASE Thanks
  <2> DEFINE o == Text(ThanksLen)
  <2>1. out' = [out EXCEPT ![c] = o] /\ cpc' = [cpc EXCEPT ![c] = "write"]
    BY <1>5 DEF TextEnds, Gotoc
  <2>2. o \in Seq(Nat) /\ Len(o) = ThanksLen /\ Run(o, 0)
    BY TransferAssumption, TextOfNumbers
  <2> HIDE DEF o
  <2>3. /\ SessTypeOK' /\ link' = link /\ out'[c] = o /\ got' = got /\ cpc'[c] = "write"
        /\ \A d \in Clients \ {c} :
             link'[d] = link[d] /\ out'[d] = out[d] /\ got'[d] = got[d] /\ cpc'[d] = cpc[d]
    BY <1>1, <1>3, <2>1, <2>2 DEF SessTypeOK, Places, serv
  <2>4. ~HasLeft(c)' /\ Thanks' = Thanks /\ Shown(c)' = Shown(c)
    BY <2>3 DEF HasLeft, Thanks, Shown
  <2>5. TextPieces(c)'
    BY <1>1, <1>2, <1>3, <1>5, <2>3, <2>4, TextKinds DEF TextPieces, serv
  <2>6. TextConn(c)'
    BY <1>1, <1>2, <1>3, <2>3, <2>4 DEF TextConn, serv
  <2>7. ThanksOf(c) /\ link[c].in["serv"] = <<>>
    BY <1>1, <1>3, <1>5 DEF ThanksOf
  <2>8. ThanksPieces(c) => ThanksPieces(c)'
    <3>1. SUFFICES ASSUME ThanksPieces(c) PROVE ThanksPieces(c)'
      OBVIOUS
    <3>2. heard = <<>> /\ Len(heard) = 0 /\ Len(link[c].in["serv"]) = 0
      BY <1>1, <2>7, <3>1 DEF ThanksPieces
    <3>3. Pair(0, <<>>, o, ThanksLen)
      <4>1. Len(<<>>) = 0 /\ 0 + 0 = 0 /\ 0 + 0 + ThanksLen = ThanksLen
        BY TransferAssumption
      <4> QED BY <2>2, <4>1, RunEmpty DEF Pair
    <3>4. Pair(Len(heard), link[c].in["serv"], o, ThanksLen)
      BY <2>7, <3>2, <3>3
    <3> QED BY <1>1, <2>3, <3>1, <3>4 DEF ThanksPieces, serv
  <2>9. ThanksOf(c)'
    BY <1>1, <1>2, <2>3, <2>7, <2>8 DEF ThanksOf, serv
  <2> QED BY <1>1, <2>3, <2>5, <2>6, <2>9, TextClientStep DEF TextOf
<1> QED BY <1>4, <1>5

(* What is left of the thanks goes nowhere.                                  *)
LEMMA ThanksGone ==
  ASSUME TextAll, program \in TextPrograms, UNCHANGED program, NEW c \in Clients,
         ThanksLost(c)
  PROVE  TextAll'
<1>1. /\ cpc[c] = "write" /\ Gone(link[c], "clnt")
      /\ UNCHANGED <<waiting, serv, got, asked>>
  BY DEF ThanksLost
<1>2. /\ SessTypeOK /\ TextPieces(c) /\ TextConn(c) /\ (Thanks => ThanksOf(c)) /\ ~HasLeft(c)
      /\ link[c] \in Links /\ link[c].way["serv"] = "closed"
  BY <1>1, Unmoved DEF TextAll, TextOf, HasLeft, Gone, Other
<1>3. CASE Gotoc(c, "lost") /\ UNCHANGED <<link, out>>
  BY <1>1, <1>3, TextMove
<1>4. ASSUME NEW m \in PutGone(link[c], "clnt"), link' = [link EXCEPT ![c] = m],
             link[c].err["clnt"] = "no",
             out' = [out EXCEPT ![c] = <<>>], UNCHANGED cpc
      PROVE  TextAll'
  <2>1. /\ m \in Links /\ m.in = link[c].in /\ m.way = link[c].way
        /\ m.err["serv"] = link[c].err["serv"]
    BY <1>2, NotePut DEF Ends, Other
  <2>2. /\ SessTypeOK' /\ link'[c] = m /\ out'[c] = <<>> /\ got' = got /\ cpc' = cpc
        /\ \A d \in Clients \ {c} :
             link'[d] = link[d] /\ out'[d] = out[d] /\ got'[d] = got[d] /\ cpc'[d] = cpc[d]
    BY <1>1, <1>2, <1>4, <2>1 DEF SessTypeOK, serv
  <2>3. ~HasLeft(c)' /\ Thanks' = Thanks /\ Shown(c)' = Shown(c)
    BY <1>2, <2>1, <2>2 DEF HasLeft, Thanks, Shown
  <2>4. TextPieces(c)'
    BY <1>1, <1>2, <2>1, <2>2, <2>3 DEF TextPieces, serv
  <2>5. TextConn(c)'
    BY <1>1, <1>2, <1>4, <2>1, <2>2, <2>3 DEF TextConn, serv
  <2>6. Thanks => ThanksOf(c)'
    BY <1>1, <1>2, <2>1, <2>2 DEF ThanksOf, serv
  <2> QED BY <1>1, <2>2, <2>3, <2>4, <2>5, <2>6, TextClientStep DEF TextOf
<1> QED BY <1>3, <1>4 DEF ThanksLost

LEMMA TextClientMoves ==
  ASSUME TextAll, program \in TextPrograms, UNCHANGED program, NEW c \in Clients,
         TransferClient(c) \/ Start(c) \/ Interrupt(c)
  PROVE  TextAll'
<1>1. TextConn(c)
  BY DEF TextAll, TextOf
<1>2. CASE SendText(c)
  BY <1>1, <1>2 DEF SendText, TextConn
<1>3. CASE ReadText(c) \/ TextEnds(c) \/ ClientPut(c) \/ ThanksLost(c)
  BY <1>3, TextRead, TextEnded, ThanksPut, ThanksGone
<1>4. CASE TextFails(c)
  BY <1>4, TextMove DEF TextFails
<1>5. CASE ClientSent(c, "leave")
  BY <1>5, TextMove DEF ClientSent
<1>6. CASE Leave(c)
  <2>1. ~HasLeft(c)
    BY <1>6 DEF Leave, HasLeft
  <2> QED BY <1>6, <2>1, TextLeave DEF Leave, ClientClose
<1>7. CASE Start(c)
  <2>1. /\ cpc[c] = "off" /\ spc \notin Over /\ Gotoc(c, "read")
        /\ waiting' = waiting \cup {c} /\ UNCHANGED <<link, serv, out, got, asked>>
    BY <1>7, TextKinds DEF Start, Connect
  <2> QED BY <2>1, TextMove
<1>8. CASE Interrupt(c)
  <2>1. ~HasLeft(c)
    BY <1>8 DEF Interrupt, HasLeft
  <2> QED BY <1>8, <2>1, TextLeave DEF Interrupt
<1> QED BY <1>2, <1>3, <1>4, <1>5, <1>6, <1>7, <1>8 DEF TransferClient

(* A step of the server that touches only the connection it serves.          *)
LEMMA TextServerStep ==
  ASSUME TextAll, NEW c \in Clients, cur = c, cur' = cur, program' = program,
         UNCHANGED <<waiting, clnt>>, SessTypeOK', TextMain', TextOf(c)',
         spc' \notin Over => spc \notin Over, \A d \in Clients \ {c} : link'[d] = link[d]
  PROVE  TextAll'
<1>1. ASSUME NEW d \in Clients \ {c} PROVE TextOf(d)'
  <2>1. TextOf(d)
    BY DEF TextAll
  <2> QED BY <2>1, TextFrame DEF clnt
<1> QED BY <1>1 DEF TextAll

LEMMA TextServed ==
  ASSUME TextAll, spc # "accept"
  PROVE  /\ cur \in Clients /\ cur # None /\ SessTypeOK /\ TextMain
         /\ TextPieces(cur) /\ TextConn(cur)
         /\ (Thanks => ThanksOf(cur)) /\ link[cur] \in Links
         /\ link[cur].in["clnt"] \in Seq(Nat) /\ link[cur].in["serv"] \in Seq(Nat)
         /\ got[cur] \in Seq(Nat) /\ out[cur] \in Seq(Nat)
         /\ Shown(cur) \in Nat /\ Len(got[cur]) \in Nat
         /\ buf \in Seq(Nat) /\ heard \in Seq(Nat)
<1>1. cur \in Clients /\ SessTypeOK /\ TextMain
  BY DEF TextAll, TextMain
<1>2. TextPieces(cur) /\ TextConn(cur) /\ (Thanks => ThanksOf(cur))
  BY <1>1 DEF TextAll, TextOf
<1>3. buf \in Seq(Nat) /\ heard \in Seq(Nat)
  BY <1>1 DEF SessTypeOK
<1> QED BY <1>1, <1>2, <1>3, Unmoved, SessionAssumption

LEMMA TextAdmit ==
  ASSUME TextAll, program \in TextPrograms, UNCHANGED program, Admit
  PROVE  TextAll'
<1>1. Accept("load")
  BY TextKinds DEF Admit
<1>2. PICK c \in waiting : cur' = c /\ waiting' = waiting \ {c}
  BY <1>1 DEF Accept
<1>3. /\ spc = "accept" /\ spc' = "load" /\ heard' = <<>>
      /\ UNCHANGED <<link, buf, clnt>>
  BY <1>1 DEF Accept
<1>4. SessTypeOK /\ TextMain /\ c \in Clients /\ spc \notin Over /\ TextOf(c)
      /\ cur = None /\ cur # c /\ cur \notin Clients
  BY <1>2, <1>3, SessionAssumption DEF TextAll, SessTypeOK, TextMain, Over
<1>5. SessTypeOK'
  BY <1>2, <1>3, <1>4 DEF SessTypeOK, clnt
<1>6. Run(<<>>, 0) /\ Len(<<>>) = 0 /\ 0 + 0 = 0 /\ 0 <= ThanksLen
  BY RunEmpty, TransferAssumption
<1>7. TextMain'
  BY <1>2, <1>3, <1>4, <1>6 DEF TextMain
<1>8. ASSUME NEW d \in Clients \ {c} PROVE TextOf(d)'
  <2>1. TextOf(d) /\ cur # d /\ cur' # d
    BY <1>2, <1>4 DEF TextAll
  <2> QED BY <1>2, <1>3, <1>4, <2>1, TextFrame DEF clnt
<1>9. HasLeft(c)' = HasLeft(c) /\ Shown(c)' = Shown(c) /\ Thanks' = Thanks
  BY <1>3 DEF HasLeft, Shown, Thanks, clnt
<1>10. TextPieces(c)'
  BY <1>2, <1>3, <1>4, <1>9 DEF TextOf, TextPieces, TextConn, clnt
<1>11. TextConn(c)'
  BY <1>2, <1>3, <1>4, <1>9 DEF TextOf, TextConn, clnt, Over
<1>12. Thanks => ThanksOf(c)'
  <2>1. SUFFICES ASSUME Thanks PROVE ThanksOf(c)'
    OBVIOUS
  <2>2. /\ ThanksOf(c) /\ cpc[c] \notin {"write", "leave", "done"}
        /\ link[c].in["serv"] = <<>>
    BY <1>4, <2>1 DEF TextOf, ThanksOf
  <2>3. ThanksPieces(c)'
    BY <1>3, <1>6, <2>2 DEF ThanksPieces, clnt
  <2> QED BY <1>2, <1>3, <2>2, <2>3 DEF ThanksOf, clnt
<1> QED BY <1>5, <1>7, <1>8, <1>9, <1>10, <1>11, <1>12 DEF TextAll, TextOf

LEMMA TextLoad ==
  ASSUME TextAll, program \in TextPrograms, UNCHANGED program, Load
  PROVE  TextAll'
<1>1. /\ spc = "load" /\ spc' = "write" /\ buf' = Text(TextLen)
      /\ UNCHANGED <<link, waiting, cur, heard, clnt>>
  BY DEF Load
<1>2. PICK c \in Clients : c = cur
  BY <1>1, TextServed
<1>3. /\ SessTypeOK /\ TextMain /\ TextPieces(c) /\ TextConn(c) /\ (Thanks => ThanksOf(c))
  BY <1>1, <1>2, TextServed
<1>4. Text(TextLen) \in Seq(Nat) /\ Len(Text(TextLen)) = TextLen /\ Run(Text(TextLen), 0)
      /\ 0 + TextLen = TextLen
  BY TransferAssumption, TextOfNumbers
<1>5. SessTypeOK' /\ TextMain'
  BY <1>1, <1>3, <1>4 DEF SessTypeOK, TextMain, Replies, clnt
<1>6. HasLeft(c)' = HasLeft(c) /\ Shown(c)' = Shown(c) /\ Thanks' = Thanks
  BY <1>1 DEF HasLeft, Shown, Thanks, clnt
<1>7. TextPieces(c)'
  BY <1>1, <1>2, <1>3, <1>4, <1>6 DEF TextPieces, clnt
<1>8. TextConn(c)'
  BY <1>1, <1>2, <1>3, <1>6 DEF TextConn, clnt, Over
<1>9. Thanks => ThanksOf(c)'
  BY <1>1, <1>3 DEF ThanksOf, ThanksPieces, clnt
<1> QED BY <1>1, <1>2, <1>5, <1>6, <1>7, <1>8, <1>9, TextServerStep DEF TextOf, Over

LEMMA TextWrite ==
  ASSUME TextAll, program \in TextPrograms, UNCHANGED program, ServerPut
  PROVE  TextAll'
<1>1. spc = "write" /\ buf # <<>> /\ CanPut(link[cur], "serv", Room)
  BY DEF ServerPut
<1>2. PICK c \in Clients : c = cur
  BY <1>1, TextServed
<1> DEFINE k == link[c]
           i == k.in["clnt"]
           x == Head(buf)
<1>3. /\ link' = [link EXCEPT ![c] = Put(k, "serv", x)] /\ buf' = Tail(buf)
      /\ UNCHANGED <<waiting, spc, cur, heard, clnt>>
  BY <1>2 DEF ServerPut
<1>4. /\ SessTypeOK /\ TextMain /\ TextPieces(c) /\ TextConn(c) /\ (Thanks => ThanksOf(c))
      /\ k \in Links /\ i \in Seq(Nat) /\ k.in["serv"] \in Seq(Nat) /\ got[c] \in Seq(Nat)
      /\ buf \in Seq(Nat) /\ Shown(c) \in Nat /\ Len(got[c]) \in Nat
  BY <1>1, <1>2, TextServed
<1>5. ~HasLeft(c)
  BY <1>1, <1>2, <1>4 DEF CanPut, Gone, Other, TextConn
<1>6. Run(buf, Shown(c)) /\ Shown(c) + Len(buf) = TextLen
  BY <1>1, <1>2, <1>4, <1>5 DEF TextPieces
<1>7. /\ x = Shown(c) + 1 /\ x \in Nat /\ Tail(buf) \in Seq(Nat)
      /\ Len(Tail(buf)) = Len(buf) - 1 /\ Run(Tail(buf), Shown(c) + 1)
  BY <1>1, <1>4, <1>6, RunTail
<1>8. Shown(c) + 1 <= TextLen /\ Shown(c) + 1 + Len(Tail(buf)) = TextLen
  <2>1. ASSUME NEW s \in Nat, NEW l \in Nat, s + l = TextLen, l > 0
        PROVE  s + 1 <= TextLen /\ s + 1 + (l - 1) = TextLen
    BY <2>1, TransferAssumption
  <2>2. Len(buf) \in Nat /\ Len(buf) > 0
    BY <1>1, <1>4
  <2> QED BY <1>4, <1>6, <1>7, <2>1, <2>2
<1>9. /\ Append(i, x) \in Seq(Nat) /\ Len(Append(i, x)) = Len(i) + 1
      /\ Run(Append(i, x), Len(got[c]))
  <2>1. Shown(c) = Len(got[c]) + Len(i) /\ Run(i, Len(got[c]))
    BY <1>4 DEF Shown, TextPieces
  <2> HIDE DEF i, x
  <2>2. x = Len(got[c]) + Len(i) + 1
    BY <1>7, <2>1
  <2> QED BY <1>4, <2>1, <2>2, RunAppend
<1>10. /\ Put(k, "serv", x) \in Links
       /\ Put(k, "serv", x).way = k.way /\ Put(k, "serv", x).err = k.err
       /\ Put(k, "serv", x).in["clnt"] = Append(i, x)
       /\ Put(k, "serv", x).in["serv"] = k.in["serv"]
  <2> HIDE DEF k, x
  <2> QED BY <1>4, <1>7, PutLink DEF i
<1> HIDE DEF x
<1>11. /\ SessTypeOK' /\ link'[c] = Put(k, "serv", x)
       /\ \A d \in Clients \ {c} : link'[d] = link[d]
  <2> HIDE DEF k
  <2> QED BY <1>3, <1>4, <1>7, <1>10 DEF SessTypeOK, clnt
<1>12. HasLeft(c)' = HasLeft(c) /\ Thanks' = Thanks /\ got'[c] = got[c] /\ cpc'[c] = cpc[c]
  BY <1>3 DEF HasLeft, Thanks, clnt
<1>13. Shown(c)' = Shown(c) + 1
  <2>1. Shown(c)' = Len(got[c]) + Len(Append(i, x))
    BY <1>10, <1>11, <1>12 DEF Shown
  <2>2. Shown(c) = Len(got[c]) + Len(i) /\ Len(i) \in Nat
    BY <1>4 DEF Shown
  <2>3. ASSUME NEW g \in Nat, NEW n \in Nat PROVE g + (n + 1) = g + n + 1
    OBVIOUS
  <2>4. Len(Append(i, x)) = Len(i) + 1
    BY <1>9
  <2> HIDE DEF i
  <2> QED BY <1>4, <2>1, <2>2, <2>3, <2>4
<1>14. TextPieces(c)'
  BY <1>1, <1>3, <1>4, <1>7, <1>8, <1>9, <1>10, <1>11, <1>12, <1>13 DEF TextPieces
<1>15. TextConn(c)'
  BY <1>1, <1>2, <1>3, <1>4, <1>10, <1>11, <1>12 DEF TextConn, Over
<1>16. Thanks => ThanksOf(c)'
  BY <1>3, <1>4, <1>10, <1>11, <1>12 DEF ThanksOf, ThanksPieces, clnt
<1>17. TextMain'
  BY <1>1, <1>3, <1>4 DEF TextMain, Replies
<1> QED BY <1>1, <1>2, <1>3, <1>11, <1>12, <1>14, <1>15, <1>16, <1>17, TextServerStep
        DEF TextOf

(* The server's process ends.                                                *)
LEMMA TextExit ==
  ASSUME TextAll, program \in TextPrograms, UNCHANGED program, NEW c \in Clients, cur = c,
         NEW pos \in {"ended", "killed"}, spc \in {"leave", "write"},
         pos = "ended" => spc = "leave", pos = "killed" => HasLeft(c),
         Exit(pos, link), buf' \in Seq(Nat), UNCHANGED <<waiting, cur, heard, clnt>>
  PROVE  TextAll'
<1>1. /\ SessTypeOK /\ TextMain /\ TextConn(c) /\ c \notin waiting /\ link[c] \in Links
      /\ spc \notin Over
  BY TextServed DEF TextConn, Over
<1>2. /\ spc' = pos /\ pos \in Over
      /\ link' = [d \in Clients |-> IF d \in waiting THEN Refused(link[d])
                                    ELSE IF d = c THEN Close(link[c], "serv") ELSE link[d]]
  BY <1>1 DEF Exit, Over
<1>3. /\ Close(link[c], "serv") \in Links /\ Close(link[c], "serv").way["serv"] = "closed"
      /\ Close(link[c], "serv").way["clnt"] = link[c].way["clnt"]
      /\ Close(link[c], "serv").in["clnt"] = link[c].in["clnt"]
      /\ Close(link[c], "serv").in["serv"] = <<>>
      /\ Close(link[c], "serv").err["serv"] = link[c].err["serv"]
  BY <1>1, CloseLink DEF Ends, Other
<1>4. ASSUME NEW d \in Clients
      PROVE  /\ Refused(link[d]) \in Links /\ Refused(link[d]).way["serv"] = "closed"
             /\ Refused(link[d]).way["clnt"] = link[d].way["clnt"]
             /\ Refused(link[d]).in["clnt"] = link[d].in["clnt"]
             /\ Refused(link[d]).in["serv"] = <<>>
             /\ Refused(link[d]).err["serv"] = link[d].err["serv"]
             /\ Refused(link[d]).err["clnt"] = IF link[d].way["clnt"] = "closed"
                                               THEN link[d].err["clnt"] ELSE "reset"
  BY <1>1, RefusedLink DEF SessTypeOK
<1>5. SessTypeOK'
  <2>1. \A d \in Clients : link[d] \in Links
    BY <1>1 DEF SessTypeOK
  <2>2. link' \in [Clients -> Links]
    BY <1>2, <1>3, <1>4, <2>1
  <2> QED BY <1>1, <2>2 DEF SessTypeOK, clnt
<1>6. ASSUME NEW d \in Clients
      PROVE  /\ HasLeft(d)' = HasLeft(d) /\ got'[d] = got[d] /\ cpc'[d] = cpc[d]
             /\ out'[d] = out[d] /\ Thanks' = Thanks /\ TextOf(d)
  BY DEF HasLeft, Thanks, clnt, TextAll
<1>7. ASSUME NEW d \in Clients, link'[d].way["serv"] = "closed",
             link'[d].way["clnt"] = link[d].way["clnt"],
             link'[d].in["clnt"] = link[d].in["clnt"], link'[d].in["serv"] = <<>>,
             link'[d].err["serv"] = link[d].err["serv"],
             HasLeft(d) \/ link'[d].err["clnt"] = "reset" \/ cur = d
      PROVE  TextOf(d)'
  <2>1. Shown(d)' = Shown(d)
    BY <1>6, <1>7 DEF Shown
  <2>2. TextPieces(d)'
    BY <1>2, <1>6, <1>7, <2>1 DEF TextOf, TextPieces
  <2>3. TextConn(d)'
    BY <1>2, <1>6, <1>7 DEF TextOf, TextConn
  <2>4. Thanks => ThanksOf(d)'
    BY <1>6, <1>7 DEF TextOf, ThanksOf
  <2> QED BY <1>6, <2>2, <2>3, <2>4 DEF TextOf
<1>8. ASSUME NEW d \in Clients PROVE TextOf(d)'
  <2>1. CASE d \in waiting
    <3>1. link'[d] = Refused(link[d])
      BY <1>2, <2>1
    <3>2. link[d].way["clnt"] = "closed" => HasLeft(d)
      BY <1>6 DEF TextOf, TextConn
    <3> QED BY <1>4, <1>7, <3>1, <3>2
  <2>2. CASE d = c
    <3>1. link'[d] = Close(link[c], "serv")
      BY <1>1, <1>2, <2>2
    <3> QED BY <1>3, <1>7, <2>2, <3>1
  <2>3. CASE d \notin waiting /\ d # c
    <3>1. link'[d] = link[d]
      BY <1>2, <2>3
    <3> QED BY <1>1, <1>6, <2>3, <3>1, TextFrame
  <2> QED BY <2>1, <2>2, <2>3
<1>9. TextMain'
  <2>1. Left(cur)' = Left(cur)
    BY DEF Left, clnt
  <2> QED BY <1>1, <1>2, <2>1 DEF TextMain, Replies
<1> QED BY <1>5, <1>8, <1>9 DEF TextAll

LEMMA NextPieces ==
  ASSUME buf \in Seq(Nat)
  PROVE  NextWrites \in Seq(Nat)
<1> DEFINE q == (TextLen - Len(buf)) \div BUF_SIZE
           n == IF program = "file_server" THEN TextLen - BUF_SIZE * (q + 1) ELSE 0
<1>1. Len(buf) \in Nat /\ TextLen \in Nat /\ BUF_SIZE \in Nat \ {0}
  BY TransferAssumption, SessionAssumption
<1>2. ASSUME NEW t \in Int, NEW b \in Nat \ {0}
      PROVE  t \div b \in Int /\ t < b * ((t \div b) + 1)
  OBVIOUS
<1>3. q \in Int /\ TextLen - Len(buf) < BUF_SIZE * (q + 1)
  BY <1>1, <1>2
<1>4. BUF_SIZE * (q + 1) \in Int
  BY <1>1, <1>3
<1> HIDE DEF q
<1>5. n \in Int /\ n <= Len(buf)
  BY <1>1, <1>3, <1>4
<1>6. NextWrites = SubSeq(buf, Len(buf) - n + 1, Len(buf))
  BY DEF NextWrites, q
<1> HIDE DEF n
<1>7. SubSeq(buf, Len(buf) - n + 1, Len(buf)) \in Seq(Nat)
  BY <1>1, <1>5
<1> QED BY <1>6, <1>7

LEMMA TextWriteGone ==
  ASSUME TextAll, program \in TextPrograms, UNCHANGED program,
         ServerPutGone(FALSE, NextWrites)
  PROVE  TextAll'
<1>1. /\ spc = "write" /\ Gone(link[cur], "serv") /\ buf' = NextWrites
      /\ UNCHANGED <<waiting, cur, heard, clnt>>
  BY DEF ServerPutGone
<1>2. PICK c \in Clients : c = cur
  BY <1>1, TextServed
<1>3. /\ SessTypeOK /\ TextMain /\ TextPieces(c) /\ TextConn(c) /\ (Thanks => ThanksOf(c))
      /\ link[c] \in Links /\ buf \in Seq(Nat)
  BY <1>1, <1>2, TextServed
<1>4. HasLeft(c) /\ buf' \in Seq(Nat)
  BY <1>1, <1>2, <1>3, NextPieces DEF Gone, Other, TextConn
<1>5. \/ \E m \in PutGone(link[c], "serv") : link' = [link EXCEPT ![c] = m] /\ spc' = spc
      \/ Exit("killed", link)
  BY <1>2 DEF ServerPutGone
<1>6. CASE Exit("killed", link)
  BY <1>1, <1>2, <1>4, <1>6, TextExit
<1>7. ASSUME NEW m \in PutGone(link[c], "serv"), link' = [link EXCEPT ![c] = m], spc' = spc
      PROVE  TextAll'
  <2>1. /\ m \in Links /\ m.in = link[c].in /\ m.way = link[c].way
        /\ m.err["clnt"] = link[c].err["clnt"] /\ m.err["serv"] # "reset"
    BY <1>3, NotePut DEF Ends, Other
  <2>2. /\ SessTypeOK' /\ link'[c] = m /\ \A d \in Clients \ {c} : link'[d] = link[d]
    BY <1>1, <1>3, <1>4, <1>7, <2>1 DEF SessTypeOK, clnt
  <2>3. /\ HasLeft(c)' = HasLeft(c) /\ Thanks' = Thanks /\ Shown(c)' = Shown(c)
        /\ got'[c] = got[c] /\ cpc'[c] = cpc[c] /\ out'[c] = out[c]
    BY <1>1, <2>1, <2>2 DEF HasLeft, Thanks, Shown, clnt
  <2>4. TextPieces(c)'
    BY <1>1, <1>3, <1>4, <1>7, <2>1, <2>2, <2>3 DEF TextPieces
  <2>5. TextConn(c)'
    BY <1>1, <1>2, <1>3, <1>7, <2>1, <2>2, <2>3 DEF TextConn, Over
  <2>6. Thanks => ThanksOf(c)'
    BY <1>1, <1>3, <2>1, <2>2, <2>3 DEF ThanksOf, ThanksPieces
  <2>7. TextMain'
    BY <1>1, <1>3, <1>7 DEF TextMain, Replies
  <2> QED BY <1>1, <1>2, <1>7, <2>2, <2>3, <2>4, <2>5, <2>6, <2>7, TextServerStep DEF TextOf
<1> QED BY <1>5, <1>6, <1>7

LEMMA TextHalfClose ==
  ASSUME TextAll, program \in TextPrograms, UNCHANGED program, HalfClose
  PROVE  TextAll'
<1>1. /\ spc = "write" /\ buf = <<>> /\ UNCHANGED <<waiting, cur, buf, heard, clnt>>
      /\ spc' = IF Replies THEN "reply" ELSE "leave"
  BY DEF HalfClose, Replies
<1>2. PICK c \in Clients : c = cur
  BY <1>1, TextServed
<1>3. /\ SessTypeOK /\ TextMain /\ TextPieces(c) /\ TextConn(c) /\ (Thanks => ThanksOf(c))
      /\ link[c] \in Links /\ Shown(c) \in Nat /\ heard = <<>>
  BY <1>1, <1>2, TextServed DEF TextMain
<1>4. PICK m \in Links :
        /\ link' = [link EXCEPT ![c] = m]
        /\ m.in["clnt"] = link[c].in["clnt"] /\ m.way["clnt"] = link[c].way["clnt"]
        /\ m.err["serv"] = link[c].err["serv"]
        /\ m.in["serv"] \in {link[c].in["serv"], <<>>}
        /\ IF Replies THEN m.way["serv"] = "shut" /\ m.in = link[c].in
           ELSE Thanks => m.way["serv"] = "closed"
  <2>1. CASE ~Thanks
    <3>1. link' = [link EXCEPT ![c] = link[c]]
      BY <1>3, <2>1, Unmoved DEF HalfClose
    <3> QED BY <1>3, <2>1, <3>1, TextKinds
  <2>2. CASE program = "sep_serv"
    <3>1. link' = [link EXCEPT ![c] = Close(link[c], "serv")] /\ ~Replies
      BY <1>2, <2>2 DEF HalfClose, Replies, Thanks
    <3>2. /\ Close(link[c], "serv") \in Links /\ Close(link[c], "serv").way["serv"] = "closed"
          /\ Close(link[c], "serv").way["clnt"] = link[c].way["clnt"]
          /\ Close(link[c], "serv").in["clnt"] = link[c].in["clnt"]
          /\ Close(link[c], "serv").in["serv"] = <<>>
          /\ Close(link[c], "serv").err["serv"] = link[c].err["serv"]
      BY <1>3, CloseLink DEF Ends, Other
    <3> QED BY <3>1, <3>2
  <2>3. CASE Thanks /\ program # "sep_serv"
    <3>1. link' = [link EXCEPT ![c] = Shut(link[c], "serv")] /\ Replies
      BY <1>2, <2>3, TextKinds DEF HalfClose
    <3>2. /\ Shut(link[c], "serv") \in Links /\ Shut(link[c], "serv").in = link[c].in
          /\ Shut(link[c], "serv").err = link[c].err
          /\ Shut(link[c], "serv").way["serv"] = "shut"
          /\ Shut(link[c], "serv").way["clnt"] = link[c].way["clnt"]
      BY <1>3, ShutLink DEF Ends, Other
    <3> QED BY <3>1, <3>2
  <2> QED BY <2>1, <2>2, <2>3
<1>5. ~HasLeft(c) => Shown(c) = TextLen
  <2>1. ~HasLeft(c) => Shown(c) + Len(buf) = TextLen
    BY <1>1, <1>2, <1>3 DEF TextPieces
  <2>2. Len(buf) = 0
    BY <1>1
  <2> QED BY <1>3, <2>1, <2>2
<1>6. /\ SessTypeOK' /\ link'[c] = m /\ \A d \in Clients \ {c} : link'[d] = link[d]
  BY <1>1, <1>3, <1>4 DEF SessTypeOK, clnt
<1>7. /\ HasLeft(c)' = HasLeft(c) /\ Thanks' = Thanks /\ Shown(c)' = Shown(c)
      /\ got'[c] = got[c] /\ cpc'[c] = cpc[c] /\ out'[c] = out[c]
  BY <1>1, <1>4, <1>6 DEF HasLeft, Thanks, Shown, clnt
<1>8. TextPieces(c)'
  BY <1>1, <1>3, <1>4, <1>5, <1>6, <1>7 DEF TextPieces
<1>9. TextConn(c)'
  BY <1>1, <1>2, <1>3, <1>4, <1>6, <1>7 DEF TextConn, Over
<1>10. Thanks => ThanksOf(c)'
  <2>1. SUFFICES ASSUME Thanks PROVE ThanksOf(c)'
    OBVIOUS
  <2>2. ThanksOf(c) /\ link[c].way["serv"] = "open"
    BY <1>1, <1>2, <1>3, <2>1 DEF TextConn
  <2>3. CASE Replies
    BY <1>1, <1>4, <1>6, <1>7, <2>2, <2>3 DEF ThanksOf, ThanksPieces
  <2>4. CASE ~Replies
    BY <1>1, <1>4, <1>6, <1>7, <2>1, <2>2, <2>4 DEF ThanksOf
  <2> QED BY <2>3, <2>4
<1>11. TextMain'
  <2>1. Len(heard) = 0 /\ 0 < ThanksLen
    BY <1>3, TransferAssumption
  <2> QED BY <1>1, <1>3, <2>1 DEF TextMain, Replies
<1> QED BY <1>1, <1>2, <1>6, <1>7, <1>8, <1>9, <1>10, <1>11, TextServerStep DEF TextOf, Over

LEMMA TextReply ==
  ASSUME TextAll, program \in TextPrograms, UNCHANGED program, ReadReply
  PROVE  TextAll'
<1>1. spc = "reply"
  BY DEF ReadReply
<1>2. PICK c \in Clients : c = cur
  BY <1>1, TextServed
<1> DEFINE k == link[c]
           v == k.in["serv"]
<1>3. PICK n \in 1..Len(v) :
        heard' = heard \o SubSeq(v, 1, n) /\ link' = [link EXCEPT ![c] = Drop(k, "serv", n)]
  BY <1>2 DEF ReadReply, First
<1>4. /\ UNCHANGED <<waiting, cur, buf, clnt>>
      /\ spc' = IF program = "file_server" \/ Len(heard') = ThanksLen THEN "leave" ELSE "reply"
  BY DEF ReadReply
<1>5. /\ SessTypeOK /\ TextMain /\ TextPieces(c) /\ TextConn(c) /\ (Thanks => ThanksOf(c))
      /\ k \in Links /\ v \in Seq(Nat) /\ out[c] \in Seq(Nat) /\ heard \in Seq(Nat)
  BY <1>1, <1>2, TextServed
<1>6. Replies /\ Thanks /\ ThanksOf(c) /\ ThanksPieces(c) /\ k.way["serv"] = "shut"
  BY <1>1, <1>2, <1>5, TextKinds DEF TextMain, TextConn, ThanksOf
<1> DEFINE h == SubSeq(v, 1, n)
           r == SubSeq(v, n + 1, Len(v))
<1>7. /\ n \in 0..Len(v) /\ n > 0 /\ h \in Seq(Nat) /\ r \in Seq(Nat)
      /\ Len(h) = n /\ Len(r) = Len(v) - n
  BY <1>5, SplitLens
<1>8. /\ Drop(k, "serv", n) \in Links
      /\ Drop(k, "serv", n).way = k.way /\ Drop(k, "serv", n).err = k.err
      /\ Drop(k, "serv", n).in["serv"] = r
      /\ Drop(k, "serv", n).in["clnt"] = k.in["clnt"]
  BY <1>5, <1>7, DropLink DEF Ends, Other
<1>9. Len(heard) \in Nat /\ Len(v) \in Nat /\ ThanksLen \in Nat
  BY <1>5, TransferAssumption
<1>10. /\ heard' \in Seq(Nat) /\ Len(heard') = Len(heard) + n /\ Run(heard', 0)
       /\ Run(r, Len(heard) + n)
  <2>1. Run(heard, 0) /\ Run(v, Len(heard))
    BY <1>5, <1>6 DEF TextMain, ThanksPieces
  <2>2. Run(h, Len(heard)) /\ Run(r, Len(heard) + n)
    <3> HIDE DEF v
    <3> QED BY <1>5, <1>7, <1>9, <2>1, RunSplit
  <2> HIDE DEF h, r
  <2>3. Run(h, 0 + Len(heard))
    BY <1>9, <2>2
  <2>4. heard' = heard \o h
    BY <1>3 DEF h
  <2>5. heard \o h \in Seq(Nat) /\ Len(heard \o h) = Len(heard) + Len(h) /\ Run(heard \o h, 0)
    BY <1>5, <1>7, <2>1, <2>3, RunConcat
  <2> QED BY <1>7, <2>2, <2>4, <2>5
<1>11. Len(heard') + Len(r) <= ThanksLen /\ Len(heard') <= ThanksLen /\ Len(heard') > 0
  <2>1. Len(heard) + Len(v) <= ThanksLen
    BY <1>6 DEF ThanksPieces
  <2>2. ASSUME NEW x \in Nat, NEW y \in Nat, x + y <= ThanksLen, n <= y
        PROVE  (x + n) + (y - n) <= ThanksLen /\ x + n <= ThanksLen /\ x + n > 0
    BY <1>7, <1>9, <2>2
  <2>3. n <= Len(v)
    BY <1>7
  <2> HIDE DEF r, v
  <2> QED BY <1>7, <1>9, <1>10, <2>1, <2>2, <2>3
<1> HIDE DEF h, r
<1>12. /\ SessTypeOK' /\ link'[c] = Drop(k, "serv", n)
       /\ \A d \in Clients \ {c} : link'[d] = link[d]
  <2> HIDE DEF k
  <2> QED BY <1>3, <1>4, <1>5, <1>8, <1>10 DEF SessTypeOK, clnt
<1>13. /\ HasLeft(c)' = HasLeft(c) /\ Thanks' = Thanks /\ Shown(c)' = Shown(c)
       /\ got'[c] = got[c] /\ cpc'[c] = cpc[c] /\ out'[c] = out[c]
  BY <1>4, <1>8, <1>12 DEF HasLeft, Thanks, Shown, clnt
<1>14. TextPieces(c)'
  BY <1>1, <1>2, <1>4, <1>5, <1>8, <1>12, <1>13 DEF TextPieces
<1>15. TextConn(c)'
  BY <1>1, <1>2, <1>4, <1>5, <1>6, <1>8, <1>12, <1>13 DEF TextConn, Over
<1>16. ThanksOf(c)'
  <2>1. cpc[c] # "read"
    BY <1>5, <1>6, <1>7 DEF ThanksOf
  <2>2. cpc[c] \in {"write", "leave", "done"} =>
          Pair(Len(heard'), r, out[c], ThanksLen)
    <3>1. SUFFICES ASSUME cpc[c] \in {"write", "leave", "done"}
                   PROVE  Pair(Len(heard'), r, out[c], ThanksLen)
      OBVIOUS
    <3>2. Run(out[c], Len(heard) + Len(v)) /\ Len(heard) + Len(v) + Len(out[c]) = ThanksLen
      BY <1>6, <3>1 DEF ThanksPieces, Pair
    <3>3. ASSUME NEW x \in Nat, NEW y \in Nat PROVE (x + n) + (y - n) = x + y
      BY <1>7
    <3>4. Len(heard') + Len(r) = Len(heard) + Len(v)
      <4> HIDE DEF v
      <4> QED BY <1>7, <1>9, <1>10, <3>3
    <3> HIDE DEF v
    <3> QED BY <1>10, <3>2, <3>4 DEF Pair
  <2>3. ThanksPieces(c)'
    BY <1>8, <1>10, <1>11, <1>12, <1>13, <2>1, <2>2 DEF ThanksPieces
  <2> QED BY <1>2, <1>4, <1>6, <1>8, <1>12, <1>13, <2>1, <2>3 DEF ThanksOf
<1>17. TextMain'
  <2>1. heard' # <<>>
    BY <1>10, <1>11
  <2>2. Left(cur)' = Left(cur) /\ Replies' = Replies
    BY <1>4 DEF Left, clnt, Replies
  <2>3. spc' = "reply" => Len(heard') < ThanksLen /\ program # "file_server"
    BY <1>4, <1>9, <1>10, <1>11
  <2>4. spc' = "leave" => program = "file_server" \/ Len(heard') = ThanksLen
    BY <1>4
  <2> QED BY <1>2, <1>4, <1>6, <1>10, <1>11, <2>1, <2>2, <2>3, <2>4, SessionAssumption
          DEF TextMain
<1> QED BY <1>1, <1>2, <1>4, <1>12, <1>13, <1>14, <1>15, <1>16, <1>17, TextServerStep
        DEF TextOf, Over

(* A step of the server that only moves on.                                  *)
LEMMA TextServerMove ==
  ASSUME TextAll, program \in TextPrograms, UNCHANGED program,
         spc = "reply", spc' = "leave", UNCHANGED <<link, waiting, cur, buf, heard, clnt>>,
         ~Left(cur) =>
           IF program = "file_server" THEN heard # <<>> ELSE Len(heard) = ThanksLen
  PROVE  TextAll'
<1>1. PICK c \in Clients : c = cur
  BY TextServed
<1>2. /\ SessTypeOK /\ TextMain /\ TextPieces(c) /\ TextConn(c) /\ (Thanks => ThanksOf(c))
  BY <1>1, TextServed
<1>3. SessTypeOK' /\ HasLeft(c)' = HasLeft(c) /\ Thanks' = Thanks /\ Shown(c)' = Shown(c)
  BY <1>2 DEF SessTypeOK, HasLeft, Thanks, Shown, clnt
<1>4. TextPieces(c)'
  BY <1>1, <1>2, <1>3 DEF TextPieces, clnt
<1>5. TextConn(c)'
  BY <1>1, <1>2, <1>3 DEF TextConn, clnt, Over
<1>6. Thanks => ThanksOf(c)'
  BY <1>1, <1>2 DEF ThanksOf, ThanksPieces, clnt
<1>7. TextMain'
  BY <1>2 DEF TextMain, Replies, Left, clnt
<1> QED BY <1>1, <1>3, <1>4, <1>5, <1>6, <1>7, TextServerStep DEF TextOf, Over

LEMMA TextReplyFails ==
  ASSUME TextAll, program \in TextPrograms, UNCHANGED program, ReplyFails
  PROVE  TextAll'
<1>1. /\ spc = "reply" /\ spc' = "leave" /\ UNCHANGED <<link, waiting, cur, buf, heard, clnt>>
      /\ HasEof(link[cur], "serv") \/ HasError(link[cur], "serv")
  BY DEF ReplyFails
<1>2. PICK c \in Clients : c = cur
  BY <1>1, TextServed
<1>3. /\ SessTypeOK /\ TextMain /\ TextPieces(c) /\ TextConn(c) /\ (Thanks => ThanksOf(c))
      /\ heard \in Seq(Nat)
  BY <1>1, <1>2, TextServed
<1>4. Replies /\ Thanks /\ Len(heard) < ThanksLen /\ ThanksPieces(c) /\ ThanksOf(c)
  BY <1>1, <1>2, <1>3, TextKinds DEF TextMain, TextConn, ThanksOf
<1>5. link[c].in["serv"] = <<>>
  BY <1>1, <1>2 DEF HasEof, HasError
<1>6. cpc[c] # "done"
  <2>1. SUFFICES ASSUME cpc[c] = "done" PROVE FALSE
    OBVIOUS
  <2>2. Pair(Len(heard), <<>>, <<>>, ThanksLen)
    BY <1>4, <1>5, <2>1 DEF ThanksPieces, ThanksOf
  <2>3. Len(heard) + Len(<<>>) + Len(<<>>) = ThanksLen
    BY <2>2 DEF Pair
  <2>4. Len(heard) \in Nat /\ Len(<<>>) = 0
    BY <1>3
  <2> QED BY <1>4, <2>3, <2>4
<1>7. cpc[c] = "gone"
  <2>1. CASE HasError(link[c], "serv")
    BY <1>4, <2>1 DEF HasError, ThanksOf
  <2>2. CASE HasEof(link[c], "serv")
    <3>1. HasLeft(c)
      BY <1>3, <2>2 DEF HasEof, Other, TextConn
    <3> QED BY <1>6, <3>1 DEF HasLeft
  <2> QED BY <1>1, <1>2, <2>1, <2>2
<1>8. Left(cur)
  BY <1>2, <1>7 DEF Left
<1> QED BY <1>1, <1>8, TextServerMove

LEMMA TextServerMoves ==
  ASSUME TextAll, program \in TextPrograms, UNCHANGED program, TransferServer
  PROVE  TextAll'
<1>1. spc \notin {"peek", "recv"}
  BY DEF TextAll, TextMain
<1>2. CASE Peek \/ RecvAgain
  BY <1>1, <1>2 DEF Peek, RecvAgain
<1>3. CASE Admit \/ Load \/ ServerPut \/ ServerPutGone(FALSE, NextWrites) \/ HalfClose
  BY <1>3, TextAdmit, TextLoad, TextWrite, TextWriteGone, TextHalfClose
<1>4. CASE ReadReply \/ ReplyFails
  BY <1>4, TextReply, TextReplyFails
<1>5. CASE Depart
  <2>1. /\ spc = "leave" /\ Exit("ended", link) /\ UNCHANGED <<waiting, cur, buf, heard, clnt>>
    BY <1>5 DEF Depart
  <2>2. cur \in Clients /\ buf \in Seq(Nat)
    BY <2>1, TextServed
  <2>3. PICK c \in Clients : c = cur
    BY <2>2
  <2> QED BY <2>1, <2>2, <2>3, TextExit
<1> QED BY <1>2, <1>3, <1>4, <1>5 DEF TransferServer

LEMMA TextInit ==
  ASSUME Init
  PROVE  TextInv
<1>1. SUFFICES ASSUME SessionInit PROVE TextAll
  BY DEF TextInv, Init
<1>2. TextMain
  <2>1. Len(heard) = 0 /\ 0 <= ThanksLen /\ Run(heard, 0)
    BY <1>1, SessInit, TransferAssumption, RunEmpty
  <2> QED BY <1>1, <2>1, SessInit DEF TextMain
<1>3. ASSUME NEW c \in Clients PROVE TextOf(c)
  <2>1. /\ link[c].in["clnt"] = <<>> /\ link[c].in["serv"] = <<>> /\ got[c] = <<>>
        /\ out[c] = <<>> /\ cpc[c] = "off" /\ cur # c
    BY <1>1, SessInit, SessionAssumption
  <2>2. Len(got[c]) = 0 /\ Len(link[c].in["clnt"]) = 0 /\ 0 <= TextLen
    BY <2>1, TransferAssumption
  <2>3. Shown(c) = 0 /\ ~HasLeft(c)
    BY <2>1, <2>2 DEF Shown, HasLeft
  <2>4. TextPieces(c)
    BY <2>1, <2>2, <2>3, RunEmpty DEF TextPieces
  <2>5. TextConn(c)
    BY <1>1, <2>1, <2>3, SessInit DEF TextConn
  <2>6. ThanksOf(c)
    BY <1>1, <2>1, SessInit DEF ThanksOf
  <2> QED BY <2>4, <2>5, <2>6 DEF TextOf
<1> QED BY <1>1, <1>2, <1>3, SessInit DEF TextAll

LEMMA TextNext ==
  ASSUME TextInv, [Next]_vars
  PROVE  TextInv'
<1>1. CASE UNCHANGED vars
  <2>1. TextAll => TextAll'
    <3>1. SUFFICES ASSUME TextAll PROVE TextAll'
      OBVIOUS
    <3>2. SessTypeOK' /\ TextMain'
      BY <1>1, <3>1 DEF vars, serv, clnt, TextAll, SessTypeOK, TextMain, Replies, Left
    <3>3. ASSUME NEW d \in Clients PROVE TextOf(d)'
      <4>1. TextOf(d)
        BY <3>1 DEF TextAll
      <4> QED BY <1>1, <4>1, TextFrame DEF vars, serv, clnt
    <3> QED BY <3>2, <3>3 DEF TextAll
  <2> QED BY <1>1, <2>1 DEF TextInv, vars
<1>2. CASE Next
  <2>1. program' = program
    BY <1>2 DEF Next
  <2>2. SUFFICES ASSUME program \in TextPrograms, TextAll PROVE TextAll'
    BY <2>1 DEF TextInv
  <2>3. program \notin EchoPrograms /\ program # "op_server"
    BY <2>2, TextKinds, Kinds
  <2>4. CASE Server
    BY <2>1, <2>2, <2>3, <2>4, TextServerMoves DEF Server
  <2>5. ASSUME NEW c \in Clients, Client(c) \/ Writer(c) \/ User(c) PROVE TextAll'
    BY <2>1, <2>2, <2>3, <2>5, TextClientMoves DEF Client, Writer, User
  <2> QED BY <1>2, <2>4, <2>5 DEF Next
<1> QED BY <1>1, <1>2

-----------------------------------------------------------------------------
(* peek_recv.  What its client has sent, and the server has not taken, is    *)
(* the beginning of the text; what the server peeked at is the beginning of  *)
(* that.                                                                     *)
Taken(c) == cur = c /\ spc \in {"leave", "ended"}

PeekOf(c) ==
  /\ spc \notin Over /\ (c \in waiting \/ cpc[c] = "off") =>
       link[c].way["serv"] = "open" /\ cur # c
  /\ c \in waiting => cpc[c] # "off"
  /\ cur = c /\ spc \in {"peek", "recv"} => link[c].way["serv"] = "open"
  /\ cpc[c] \in {"off", "open"} => link[c].in["serv"] = <<>>
  /\ link[c].way["serv"] = "open" /\ ~Taken(c) =>
       /\ Run(link[c].in["serv"], 0) /\ Len(link[c].in["serv"]) <= TextLen
       /\ cpc[c] = "write" => Pair(0, link[c].in["serv"], out[c], TextLen)

PeekMain ==
  /\ spc \in {"accept", "peek", "recv", "leave", "ended"}
  /\ spc = "accept" => cur = None
  /\ spc # "accept" => cur \in Clients
  /\ spc \in {"recv", "leave", "ended"} => Run(buf, 0) /\ buf # <<>>
  /\ spc \in {"leave", "ended"} =>
       Run(heard, 0) /\ Len(buf) <= Len(heard) /\ Len(heard) <= TextLen

PeekAll == SessTypeOK /\ PeekMain /\ \A c \in Clients : PeekOf(c)

PeekInv == Peeks => PeekAll

LEMMA PeekFrame ==
  ASSUME NEW d \in Clients, PeekOf(d), link'[d] = link[d], out'[d] = out[d],
         cpc'[d] = cpc[d], d \in waiting' => d \in waiting, spc' \notin Over => spc \notin Over,
         cur' = d <=> cur = d, cur' = d => spc' = spc
  PROVE  PeekOf(d)'
BY DEF PeekOf, Taken

LEMMA PeekClientStep ==
  ASSUME PeekAll, NEW c \in Clients, SessTypeOK', PeekOf(c)',
         UNCHANGED serv, waiting' \in {waiting, waiting \cup {c}},
         \A d \in Clients \ {c} : link'[d] = link[d] /\ out'[d] = out[d] /\ cpc'[d] = cpc[d]
  PROVE  PeekAll'
<1>1. ASSUME NEW d \in Clients \ {c} PROVE PeekOf(d)'
  BY PeekFrame DEF PeekAll, serv
<1>2. PeekMain'
  BY DEF PeekAll, PeekMain, serv
<1> QED BY <1>1, <1>2 DEF PeekAll

(* A client does not write.                                                  *)
LEMMA PeekMove ==
  ASSUME PeekAll, NEW c \in Clients, NEW m \in Links, NEW g \in Seq(Nat),
         NEW l \in {"open", "read", "leave", "lost", "done", "gone"},
         link' = [link EXCEPT ![c] = m], got' = [got EXCEPT ![c] = g],
         m.in["serv"] = link[c].in["serv"], m.way["serv"] = link[c].way["serv"],
         Gotoc(c, l), l = "open" => cpc[c] = "off",
         waiting' \in {waiting, waiting \cup {c}}, waiting' # waiting => cpc[c] = "off",
         UNCHANGED <<serv, out, asked>>
  PROVE  PeekAll'
<1>1. SessTypeOK /\ PeekOf(c)
  BY DEF PeekAll
<1>2. /\ SessTypeOK' /\ link'[c] = m /\ out' = out /\ cpc'[c] = l
      /\ \A d \in Clients \ {c} : link'[d] = link[d] /\ out'[d] = out[d] /\ cpc'[d] = cpc[d]
  BY <1>1 DEF SessTypeOK, serv, Gotoc, Places
<1>3. PeekOf(c)'
  BY <1>1, <1>2 DEF PeekOf, Taken, serv
<1> QED BY <1>2, <1>3, PeekClientStep

LEMMA PeekSend ==
  ASSUME PeekAll, NEW c \in Clients, SendText(c)
  PROVE  PeekAll'
<1> DEFINE o == Text(TextLen)
<1>1. /\ cpc[c] = "open" /\ out' = [out EXCEPT ![c] = o]
      /\ cpc' = [cpc EXCEPT ![c] = "write"] /\ UNCHANGED <<link, waiting, serv, got, asked>>
  BY DEF SendText, Gotoc
<1>2. SessTypeOK /\ PeekOf(c) /\ link[c].in["serv"] = <<>>
  BY <1>1 DEF PeekAll, PeekOf
<1>3. o \in Seq(Nat) /\ Len(o) = TextLen /\ Run(o, 0)
  BY TransferAssumption, TextOfNumbers
<1>4. Pair(0, <<>>, o, TextLen)
  <2>1. Len(<<>>) = 0 /\ 0 + 0 = 0 /\ 0 + 0 + TextLen = TextLen
    BY TransferAssumption
  <2> QED BY <1>3, <2>1, RunEmpty DEF Pair
<1> HIDE DEF o
<1>5. /\ SessTypeOK' /\ link' = link /\ out'[c] = o /\ cpc'[c] = "write"
      /\ \A d \in Clients \ {c} : link'[d] = link[d] /\ out'[d] = out[d] /\ cpc'[d] = cpc[d]
  BY <1>1, <1>2, <1>3 DEF SessTypeOK, serv, Places
<1>6. PeekOf(c)'
  BY <1>1, <1>2, <1>4, <1>5 DEF PeekOf, Taken, serv
<1> QED BY <1>1, <1>5, <1>6, PeekClientStep

LEMMA PeekPut ==
  ASSUME PeekAll, NEW c \in Clients, ClientPut(c)
  PROVE  PeekAll'
<1> DEFINE k == link[c]
           x == Head(out[c])
<1>0. /\ cpc[c] = "write" /\ out[c] # <<>>
      /\ link' = [link EXCEPT ![c] = Put(k, "clnt", x)]
      /\ out' = [out EXCEPT ![c] = Tail(out[c])]
      /\ UNCHANGED <<waiting, serv, cpc, got, asked>>
  BY DEF ClientPut
<1>1. SessTypeOK /\ PeekOf(c)
  BY DEF PeekAll
<1>2. /\ k \in Links /\ out[c] \in Seq(Nat) /\ k.in["serv"] \in Seq(Nat)
      /\ x \in Nat /\ Tail(out[c]) \in Seq(Nat)
  <2>1. k \in Links /\ out[c] \in Seq(Nat) /\ k.in["serv"] \in Seq(Nat)
    BY <1>1, Unmoved
  <2> QED BY <1>0, <2>1
<1>3. /\ Put(k, "clnt", x) \in Links /\ Put(k, "clnt", x).way = k.way
      /\ Put(k, "clnt", x).in["serv"] = Append(k.in["serv"], x)
  <2> HIDE DEF k, x
  <2> QED BY <1>2, PutLink
<1>4. /\ SessTypeOK' /\ link'[c] = Put(k, "clnt", x) /\ out'[c] = Tail(out[c]) /\ cpc' = cpc
      /\ \A d \in Clients \ {c} : link'[d] = link[d] /\ out'[d] = out[d] /\ cpc'[d] = cpc[d]
  <2> HIDE DEF k, x
  <2> QED BY <1>0, <1>1, <1>2, <1>3 DEF SessTypeOK, serv
<1>5. k.way["serv"] = "open" /\ ~Taken(c) =>
        /\ Pair(0, Append(k.in["serv"], x), Tail(out[c]), TextLen)
        /\ Run(Append(k.in["serv"], x), 0) /\ Len(Append(k.in["serv"], x)) <= TextLen
  <2>1. SUFFICES ASSUME Pair(0, k.in["serv"], out[c], TextLen)
                 PROVE  /\ Pair(0, Append(k.in["serv"], x), Tail(out[c]), TextLen)
                        /\ Run(Append(k.in["serv"], x), 0)
                        /\ Len(Append(k.in["serv"], x)) <= TextLen
    BY <1>0, <1>1 DEF PeekOf
  <2>2. TextLen \in Nat /\ 0 \in Nat
    BY TransferAssumption
  <2> HIDE DEF k
  <2>3. /\ Pair(0, Append(k.in["serv"], x), Tail(out[c]), TextLen)
        /\ Append(k.in["serv"], x) \in Seq(Nat)
    BY <1>0, <1>2, <2>1, <2>2, PairPut
  <2> HIDE DEF x
  <2> DEFINE v == Append(k.in["serv"], x)
  <2> HIDE DEF v
  <2>4. Pair(0, v, Tail(out[c]), TextLen) /\ v \in Seq(Nat)
    BY <2>3 DEF v
  <2> DEFINE w == Tail(out[c])
  <2>5. w \in Seq(Nat) /\ Pair(0, v, w, TextLen) /\ Len(v) \in Nat
    BY <1>2, <2>4
  <2> HIDE DEF w
  <2>6. Run(v, 0) /\ 0 + Len(v) <= TextLen
    BY <2>2, <2>4, <2>5, PairBound
  <2>7. Len(v) <= TextLen
    BY <2>2, <2>5, <2>6
  <2> QED BY <2>3, <2>6, <2>7 DEF v
<1>6. PeekOf(c)'
  BY <1>0, <1>1, <1>3, <1>4, <1>5 DEF PeekOf, Taken, serv
<1> QED BY <1>0, <1>4, <1>6, PeekClientStep

LEMMA PeekLost ==
  ASSUME PeekAll, NEW c \in Clients, ThanksLost(c)
  PROVE  PeekAll'
<1>1. /\ cpc[c] = "write" /\ Gone(link[c], "clnt") /\ UNCHANGED <<waiting, serv, got, asked>>
  BY DEF ThanksLost
<1>2. /\ SessTypeOK /\ PeekOf(c) /\ link[c] \in Links /\ got[c] \in Seq(Nat)
      /\ link[c].way["serv"] = "closed"
      /\ link = [link EXCEPT ![c] = link[c]] /\ got = [got EXCEPT ![c] = got[c]]
  BY <1>1, Unmoved DEF PeekAll, Gone, Other
<1>3. CASE Gotoc(c, "lost") /\ UNCHANGED <<link, out>>
  BY <1>1, <1>2, <1>3, PeekMove
<1>4. ASSUME NEW m \in PutGone(link[c], "clnt"), link' = [link EXCEPT ![c] = m],
             out' = [out EXCEPT ![c] = <<>>], UNCHANGED cpc
      PROVE  PeekAll'
  <2>1. m \in Links /\ m.in = link[c].in /\ m.way = link[c].way
    BY <1>2, NotePut DEF Ends
  <2>2. /\ SessTypeOK' /\ link'[c] = m /\ cpc' = cpc
        /\ \A d \in Clients \ {c} : link'[d] = link[d] /\ out'[d] = out[d] /\ cpc'[d] = cpc[d]
    BY <1>1, <1>2, <1>4, <2>1 DEF SessTypeOK, serv
  <2>3. PeekOf(c)'
    BY <1>1, <1>2, <2>1, <2>2 DEF PeekOf, serv
  <2> QED BY <1>1, <2>2, <2>3, PeekClientStep
<1> QED BY <1>3, <1>4 DEF ThanksLost

LEMMA PeekClientMoves ==
  ASSUME PeekAll, Peeks, NEW c \in Clients, TransferClient(c) \/ Start(c) \/ Interrupt(c)
  PROVE  PeekAll'
<1> DEFINE k == link[c]
<1>1. /\ SessTypeOK /\ k \in Links /\ got[c] \in Seq(Nat)
      /\ link = [link EXCEPT ![c] = k] /\ got = [got EXCEPT ![c] = got[c]]
  BY Unmoved DEF PeekAll
<1>2. CASE SendText(c) \/ ClientPut(c) \/ ThanksLost(c)
  BY <1>2, PeekSend, PeekPut, PeekLost
<1>3. CASE TextEnds(c) \/ TextFails(c) \/ ClientSent(c, "leave")
  <2>1. PICK l \in {"leave", "lost"} :
          Gotoc(c, l) /\ UNCHANGED <<link, waiting, serv, out, got, asked>>
    BY <1>3 DEF TextEnds, TextFails, ClientSent, Peeks, Thanks
  <2> QED BY <1>1, <2>1, PeekMove
<1>4. CASE ReadText(c)
  <2> DEFINE i == k.in["clnt"]
  <2>1. PICK l \in {"leave", "read"}, n \in 1..Len(i) : ClientGet(c, n, l)
    BY <1>4 DEF ReadText
  <2>2. i \in Seq(Nat)
    BY <1>1, Unmoved
  <2>3. n \in 0..Len(i) /\ SubSeq(i, 1, n) \in Seq(Nat)
    BY <2>2, SplitLens
  <2>4. /\ Drop(k, "clnt", n) \in Links /\ Drop(k, "clnt", n).way = k.way
        /\ Drop(k, "clnt", n).in["serv"] = k.in["serv"]
    BY <1>1, <2>3, DropLink DEF Ends, Other
  <2> DEFINE h == SubSeq(i, 1, n)
  <2>5. /\ link' = [link EXCEPT ![c] = Drop(k, "clnt", n)]
        /\ got' = [got EXCEPT ![c] = got[c] \o h] /\ Gotoc(c, l)
        /\ UNCHANGED <<waiting, serv, out, asked>>
    BY <2>1 DEF ClientGet, First
  <2> HIDE DEF h, k
  <2>6. got[c] \o h \in Seq(Nat)
    BY <1>1, <2>3 DEF h
  <2> QED BY <2>4, <2>5, <2>6, PeekMove DEF k
<1>5. CASE Leave(c) \/ Interrupt(c)
  <2>1. PICK l \in {"done", "gone"} :
          /\ Gotoc(c, l) /\ link' = [link EXCEPT ![c] = Close(k, "clnt")]
          /\ UNCHANGED <<waiting, serv, out, got, asked>>
    BY <1>5 DEF Leave, Interrupt, ClientClose
  <2>2. /\ Close(k, "clnt") \in Links /\ Close(k, "clnt").way["serv"] = k.way["serv"]
        /\ Close(k, "clnt").in["serv"] = k.in["serv"]
    BY <1>1, CloseLink DEF Ends, Other
  <2> HIDE DEF k
  <2> QED BY <1>1, <2>1, <2>2, PeekMove DEF k
<1>6. CASE Start(c)
  <2>1. /\ cpc[c] = "off" /\ Gotoc(c, "open") /\ waiting' = waiting \cup {c}
        /\ UNCHANGED <<link, serv, out, got, asked>>
    BY <1>6 DEF Start, Connect
  <2> QED BY <1>1, <2>1, PeekMove
<1> QED BY <1>2, <1>3, <1>4, <1>5, <1>6 DEF TransferClient


(* The server of peek_recv.                                                  *)
LEMMA PeekServed ==
  ASSUME PeekAll, spc # "accept", NEW c \in Clients, c = cur
  PROVE  /\ SessTypeOK /\ PeekMain /\ PeekOf(c) /\ link[c] \in Links
         /\ link[c].in["serv"] \in Seq(Nat) /\ buf \in Seq(Nat) /\ heard \in Seq(Nat)
<1>1. SessTypeOK /\ PeekMain /\ PeekOf(c)
  BY DEF PeekAll
<1> QED BY <1>1, Unmoved DEF SessTypeOK

LEMMA PeekServerStep ==
  ASSUME PeekAll, NEW c \in Clients, cur = c, cur' = cur, UNCHANGED <<waiting, clnt>>,
         SessTypeOK', PeekMain', PeekOf(c)', spc' \notin Over => spc \notin Over,
         \A d \in Clients \ {c} : link'[d] = link[d]
  PROVE  PeekAll'
<1>1. ASSUME NEW d \in Clients \ {c} PROVE PeekOf(d)'
  BY PeekFrame DEF PeekAll, clnt
<1> QED BY <1>1 DEF PeekAll

LEMMA PeekAdmit ==
  ASSUME PeekAll, Peeks, Admit
  PROVE  PeekAll'
<1>1. Accept("peek")
  BY DEF Admit
<1>2. PICK c \in waiting : cur' = c /\ waiting' = waiting \ {c}
  BY <1>1 DEF Accept
<1>3. /\ spc = "accept" /\ spc' = "peek" /\ heard' = <<>>
      /\ UNCHANGED <<link, buf, clnt>>
  BY <1>1 DEF Accept
<1>4. /\ SessTypeOK /\ PeekMain /\ c \in Clients /\ PeekOf(c) /\ spc \notin Over
      /\ cur = None /\ cur # c /\ cur \notin Clients
  BY <1>2, <1>3, SessionAssumption DEF PeekAll, SessTypeOK, PeekMain, Over
<1>5. SessTypeOK'
  BY <1>2, <1>3, <1>4 DEF SessTypeOK, clnt
<1>6. PeekMain'
  BY <1>2, <1>3, <1>4 DEF PeekMain
<1>7. ASSUME NEW d \in Clients \ {c} PROVE PeekOf(d)'
  <2>1. PeekOf(d) /\ cur # d /\ cur' # d
    BY <1>2, <1>4 DEF PeekAll
  <2> QED BY <1>2, <1>3, <1>4, <2>1, PeekFrame DEF clnt
<1>8. PeekOf(c)'
  BY <1>2, <1>3, <1>4 DEF PeekOf, Taken, clnt
<1> QED BY <1>5, <1>6, <1>7, <1>8 DEF PeekAll

LEMMA PeekPeek ==
  ASSUME PeekAll, NEW c \in Clients, c = cur, Peek
  PROVE  PeekAll'
<1> DEFINE i == link[c].in["serv"]
<1>1. /\ spc = "peek" /\ spc' = "recv" /\ UNCHANGED <<link, waiting, cur, heard, clnt>>
  BY DEF Peek
<1>2. PICK n \in 1..Len(i) : buf' = SubSeq(i, 1, n)
  BY DEF Peek, First
<1>3. SessTypeOK /\ PeekMain /\ PeekOf(c) /\ i \in Seq(Nat)
  BY <1>1, PeekServed
<1>4. Run(i, 0)
  BY <1>1, <1>3 DEF PeekOf, Taken
<1>5. buf' \in Seq(Nat) /\ Len(buf') = n /\ Run(buf', 0) /\ buf' # <<>>
  <2> DEFINE b == SubSeq(i, 1, n)
  <2> HIDE DEF i
  <2>1. n \in 0..Len(i) /\ n > 0 /\ 0 \in Nat
    BY <1>3
  <2>2. b \in Seq(Nat) /\ Len(b) = n
    BY <1>3, <2>1, SplitLens
  <2>3. Run(b, 0)
    BY <1>3, <1>4, <2>1, RunSplit
  <2> HIDE DEF b
  <2>4. b # <<>>
    BY <2>1, <2>2
  <2> QED BY <1>2, <2>2, <2>3, <2>4 DEF b
<1>6. SessTypeOK' /\ PeekMain'
  BY <1>1, <1>3, <1>5 DEF SessTypeOK, PeekMain, clnt
<1>7. PeekOf(c)'
  BY <1>1, <1>3 DEF PeekOf, Taken, clnt, Over
<1> QED BY <1>1, <1>6, <1>7, PeekServerStep DEF Over

LEMMA PeekRecv ==
  ASSUME PeekAll, NEW c \in Clients, c = cur, RecvAgain
  PROVE  PeekAll'
<1> DEFINE i == link[c].in["serv"]
<1>1. /\ spc = "recv" /\ spc' = "leave" /\ UNCHANGED <<waiting, cur, buf, clnt>>
  BY DEF RecvAgain
<1>2. PICK n \in Len(buf)..Len(i) :
        /\ heard' = SubSeq(i, 1, n)
        /\ link' = [link EXCEPT ![c] = Drop(link[c], "serv", n)]
  BY DEF RecvAgain, First
<1>3. /\ SessTypeOK /\ PeekMain /\ PeekOf(c) /\ link[c] \in Links /\ i \in Seq(Nat)
      /\ buf \in Seq(Nat) /\ c \notin waiting
  <2>1. /\ SessTypeOK /\ PeekMain /\ PeekOf(c) /\ link[c] \in Links /\ i \in Seq(Nat)
        /\ buf \in Seq(Nat)
    BY <1>1, PeekServed
  <2> QED BY <1>1, <2>1 DEF PeekOf, Over
<1>4. Run(i, 0) /\ Len(i) <= TextLen /\ buf # <<>> /\ Run(buf, 0)
  BY <1>1, <1>3 DEF PeekOf, PeekMain, Taken
<1>5. /\ n \in 0..Len(i) /\ Len(buf) <= n /\ n <= TextLen /\ 0 \in Nat /\ i # <<>>
  <2>1. Len(buf) \in Nat \ {0} /\ Len(i) \in Nat /\ TextLen \in Nat
    BY <1>3, <1>4, TransferAssumption
  <2>2. n \in 0..Len(i) /\ Len(buf) <= n /\ n <= TextLen /\ Len(i) # 0
    BY <1>4, <2>1
  <2> QED BY <2>2
<1> DEFINE m == Drop(link[c], "serv", n)
<1>6. /\ m \in Links /\ m.way = link[c].way
  BY <1>3, <1>5, DropLink DEF Ends, Other
<1> DEFINE h == SubSeq(i, 1, n)
<1>7. heard' = h /\ link' = [link EXCEPT ![c] = m]
  BY <1>2
<1>8. h \in Seq(Nat) /\ Len(h) = n /\ Run(h, 0)
  <2> HIDE DEF i
  <2> QED BY <1>3, <1>4, <1>5, SplitLens, RunSplit
<1> HIDE DEF i, h, m
<1>9. SessTypeOK' /\ PeekMain' /\ link'[c] = m /\ cpc' = cpc
  BY <1>1, <1>3, <1>4, <1>5, <1>6, <1>7, <1>8 DEF SessTypeOK, PeekMain, clnt
<1>10. cpc[c] \notin {"off", "open"}
  BY <1>3, <1>5 DEF PeekOf, i
<1>11. PeekOf(c)'
  BY <1>1, <1>3, <1>6, <1>9, <1>10 DEF PeekOf, Taken, Over
<1> QED BY <1>1, <1>7, <1>9, <1>11, PeekServerStep DEF Over

LEMMA PeekDepart ==
  ASSUME PeekAll, NEW c \in Clients, c = cur, Depart
  PROVE  PeekAll'
<1>1. /\ spc = "leave" /\ Exit("ended", link) /\ UNCHANGED <<waiting, cur, buf, heard, clnt>>
  BY DEF Depart
<1>2. SessTypeOK /\ PeekMain /\ PeekOf(c) /\ link[c] \in Links /\ c \notin waiting
  <2>1. SessTypeOK /\ PeekMain /\ PeekOf(c) /\ link[c] \in Links
    BY <1>1, PeekServed
  <2> QED BY <1>1, <2>1 DEF PeekOf, Over
<1>3. /\ spc' = "ended"
      /\ link' = [d \in Clients |-> IF d \in waiting THEN Refused(link[d])
                                    ELSE IF d = c THEN Close(link[c], "serv") ELSE link[d]]
  BY <1>1, <1>2 DEF Exit
<1>4. /\ Close(link[c], "serv") \in Links /\ Close(link[c], "serv").way["serv"] = "closed"
      /\ Close(link[c], "serv").in["serv"] = <<>>
  BY <1>2, CloseLink DEF Ends, Other
<1>5. ASSUME NEW d \in Clients
      PROVE  /\ Refused(link[d]) \in Links /\ Refused(link[d]).way["serv"] = "closed"
             /\ Refused(link[d]).in["serv"] = <<>>
  BY <1>2, RefusedLink DEF SessTypeOK
<1>6. SessTypeOK'
  <2>1. \A d \in Clients : link[d] \in Links
    BY <1>2 DEF SessTypeOK
  <2>2. link' \in [Clients -> Links]
    BY <1>3, <1>4, <1>5, <2>1
  <2> QED BY <1>1, <1>2, <1>3, <2>2 DEF SessTypeOK, clnt
<1>7. PeekMain'
  BY <1>1, <1>2, <1>3 DEF PeekMain
<1>8. ASSUME NEW d \in Clients PROVE PeekOf(d)'
  <2>1. PeekOf(d) /\ cpc' = cpc /\ out' = out
    BY <1>1 DEF PeekAll, clnt
  <2>2. CASE d \in waiting \/ d = c
    <3>1. link'[d].way["serv"] = "closed" /\ link'[d].in["serv"] = <<>>
      BY <1>2, <1>3, <1>4, <1>5, <2>2
    <3> QED BY <1>1, <1>3, <2>1, <3>1 DEF PeekOf, Over
  <2>3. CASE d \notin waiting /\ d # c
    <3>1. link'[d] = link[d]
      BY <1>3, <2>3
    <3> QED BY <1>1, <1>3, <2>1, <2>3, <3>1, PeekFrame DEF Over
  <2> QED BY <2>2, <2>3
<1> QED BY <1>6, <1>7, <1>8 DEF PeekAll

LEMMA PeekServerMoves ==
  ASSUME PeekAll, Peeks, TransferServer
  PROVE  PeekAll'
<1>1. PeekMain
  BY DEF PeekAll
<1>2. CASE Load \/ ServerPut \/ ServerPutGone(FALSE, NextWrites) \/ HalfClose \/ ReadReply
             \/ ReplyFails
  <2>1. spc \in {"load", "write", "reply"}
    BY <1>2 DEF Load, ServerPut, ServerPutGone, HalfClose, ReadReply, ReplyFails
  <2> QED BY <1>1, <2>1 DEF PeekMain
<1>3. CASE Admit
  BY <1>3, PeekAdmit
<1>4. CASE Peek \/ RecvAgain \/ Depart
  <2>1. spc # "accept"
    BY <1>4 DEF Peek, RecvAgain, Depart
  <2>2. PICK c \in Clients : c = cur
    BY <1>1, <2>1 DEF PeekMain
  <2> QED BY <1>4, <2>2, PeekPeek, PeekRecv, PeekDepart
<1> QED BY <1>2, <1>3, <1>4 DEF TransferServer

LEMMA PeekInit ==
  ASSUME Init
  PROVE  PeekInv
<1>1. SUFFICES ASSUME SessionInit PROVE PeekAll
  BY DEF PeekInv, Init
<1>2. PeekMain
  BY <1>1, SessInit DEF PeekMain
<1>3. ASSUME NEW c \in Clients PROVE PeekOf(c)
  <2>1. /\ link[c].in["serv"] = <<>> /\ cpc[c] = "off" /\ cur # c /\ c \notin waiting
        /\ link[c].way["serv"] = "open"
    BY <1>1, SessInit, SessionAssumption
  <2>2. Len(<<>>) = 0 /\ 0 <= TextLen
    BY TransferAssumption
  <2> QED BY <2>1, <2>2, RunEmpty DEF PeekOf
<1> QED BY <1>1, <1>2, <1>3, SessInit DEF PeekAll

LEMMA PeekNext ==
  ASSUME PeekInv, [Next]_vars
  PROVE  PeekInv'
<1>1. CASE UNCHANGED vars
  <2>1. PeekAll => PeekAll'
    <3>1. SUFFICES ASSUME PeekAll PROVE PeekAll'
      OBVIOUS
    <3>2. SessTypeOK' /\ PeekMain'
      BY <1>1, <3>1 DEF vars, serv, clnt, PeekAll, SessTypeOK, PeekMain
    <3>3. ASSUME NEW d \in Clients PROVE PeekOf(d)'
      <4>1. PeekOf(d)
        BY <3>1 DEF PeekAll
      <4> QED BY <1>1, <4>1, PeekFrame DEF vars, serv, clnt
    <3> QED BY <3>2, <3>3 DEF PeekAll
  <2> QED BY <1>1, <2>1 DEF PeekInv, Peeks, vars
<1>2. CASE Next
  <2>1. program' = program
    BY <1>2 DEF Next
  <2>2. SUFFICES ASSUME Peeks, PeekAll PROVE PeekAll'
    BY <2>1 DEF PeekInv, Peeks
  <2>3. program \notin EchoPrograms /\ program # "op_server"
    BY <2>2, Kinds DEF Peeks, TransferPrograms
  <2>4. CASE Server
    BY <2>2, <2>3, <2>4, PeekServerMoves DEF Server
  <2>5. ASSUME NEW c \in Clients, Client(c) \/ Writer(c) \/ User(c) PROVE PeekAll'
    BY <2>2, <2>3, <2>5, PeekClientMoves DEF Client, Writer, User
  <2> QED BY <1>2, <2>4, <2>5 DEF Next
<1> QED BY <1>1, <1>2

-----------------------------------------------------------------------------
LEMMA RunIsText ==
  ASSUME NEW n \in Nat, NEW s \in Seq(Nat), Run(s, 0), Len(s) = n
  PROVE  s = Text(n)
<1> DEFINE t == Text(n)
<1>1. t \in Seq(Nat) /\ Len(t) = n /\ Run(t, 0)
  BY TextOfNumbers
<1> HIDE DEF t
<1>2. \A j \in 1..Len(s) : s[j] = t[j]
  BY <1>1 DEF Run
<1>3. s = t
  BY <1>1, <1>2
<1> QED BY <1>3 DEF t

LEMMA RunIsPrefix ==
  ASSUME NEW s \in Seq(Nat), NEW t \in Seq(Nat), Run(s, 0), Run(t, 0), Len(s) <= Len(t)
  PROVE  IsPrefix(s, t)
<1> DEFINE n == Len(s)
<1>1. n \in Nat /\ n \in 0..Len(s) /\ n \in 0..Len(t) /\ 0 \in Nat
  OBVIOUS
<1> HIDE DEF n
<1>2. /\ SubSeq(s, 1, n) \in Seq(Nat) /\ Len(SubSeq(s, 1, n)) = n /\ Run(SubSeq(s, 1, n), 0)
      /\ SubSeq(t, 1, n) \in Seq(Nat) /\ Len(SubSeq(t, 1, n)) = n /\ Run(SubSeq(t, 1, n), 0)
  BY <1>1, SplitLens, RunSplit
<1>3. SubSeq(s, 1, n) = Text(n) /\ SubSeq(t, 1, n) = Text(n)
  BY <1>1, <1>2, RunIsText
<1> QED BY <1>3 DEF IsPrefix, n

(* A client that read to the end has the whole text, though the server may   *)
(* be gone; the thanks reach a server that reads them; what peek_recv reads  *)
(* begins with what it peeked at.                                            *)
THEOREM TextDelivered == Spec => []Delivered
<1>1. TextInv /\ PeekInv => Delivered
  <2> DEFINE whole == Text(TextLen)
             thanks == Text(ThanksLen)
  <2>1. /\ TextLen \in Nat /\ ThanksLen \in Nat \ {0}
        /\ whole \in Seq(Nat) /\ Len(whole) = TextLen /\ Run(whole, 0)
        /\ thanks \in Seq(Nat) /\ Len(thanks) = ThanksLen /\ Run(thanks, 0)
    BY TransferAssumption, TextOfNumbers
  <2>2. SUFFICES ASSUME program \in TransferPrograms, TextInv, PeekInv PROVE Delivered
    BY DEF Delivered
  <2>3. CASE Peeks
    <3>1. PeekMain /\ buf \in Seq(Nat) /\ heard \in Seq(Nat)
      BY <2>2, <2>3 DEF PeekInv, PeekAll, SessTypeOK
    <3>2. spc = "ended" => IsPrefix(heard, whole) /\ buf # <<>> /\ IsPrefix(buf, heard)
      <4> HIDE DEF whole
      <4> QED BY <2>1, <3>1, RunIsPrefix DEF PeekMain
    <3> QED BY <2>3, <3>2 DEF Delivered, Peeks
  <2>4. CASE ~Peeks
    <3>1. TextAll
      BY <2>2, <2>4 DEF TextInv, TextPrograms, Peeks
    <3>2. TextMain /\ heard \in Seq(Nat)
      BY <3>1 DEF TextAll, SessTypeOK
    <3>3. ASSUME NEW c \in Clients, cpc[c] \in {"write", "leave", "done"}
          PROVE  IF program = "hello_server" THEN got[c] # <<>> /\ IsPrefix(got[c], whole)
                 ELSE got[c] = whole
      <4>1. /\ TextPieces(c) /\ got[c] \in Seq(Nat) /\ Len(got[c]) \in Nat
            /\ Shown(c) \in Nat /\ Len(got[c]) <= Shown(c)
        BY <3>1, Unmoved DEF TextAll, TextOf
      <4>2. Run(got[c], 0) /\ Len(got[c]) <= TextLen
        BY <2>1, <4>1 DEF TextPieces
      <4>3. IF program = "hello_server" THEN got[c] # <<>> ELSE Len(got[c]) = TextLen
        BY <3>3, <4>1 DEF TextPieces
      <4>4. IsPrefix(got[c], whole)
        <5> HIDE DEF whole
        <5> QED BY <2>1, <4>1, <4>2, RunIsPrefix
      <4>5. Len(got[c]) = TextLen => got[c] = whole
        BY <2>1, <4>1, <4>2, RunIsText
      <4> QED BY <4>3, <4>4, <4>5
    <3>4. CASE Replies
      <4>1. IsPrefix(heard, thanks)
        <5> HIDE DEF thanks
        <5> QED BY <2>1, <3>2, RunIsPrefix DEF TextMain
      <4>2. Len(heard) = ThanksLen => heard = thanks /\ heard # <<>>
        <5>1. SUFFICES ASSUME Len(heard) = ThanksLen PROVE heard = thanks /\ heard # <<>>
          OBVIOUS
        <5>2. heard = thanks
          BY <2>1, <3>2, <5>1, RunIsText DEF TextMain
        <5>3. heard # <<>>
          BY <2>1, <3>2, <5>1
        <5> QED BY <5>2, <5>3
      <4>3. spc = "ended" => /\ Left(cur) \/ heard # <<>>
                             /\ Left(cur) \/ program = "file_server" \/ heard = thanks
        BY <3>2, <3>4, <4>2 DEF TextMain
      <4> HIDE DEF whole, thanks
      <4> QED BY <2>4, <3>3, <3>4, <4>1, <4>3 DEF Delivered, Replies, whole, thanks
    <3>5. CASE ~Replies
      <4>1. heard = <<>>
        BY <3>2, <3>5 DEF TextMain
      <4> HIDE DEF whole, thanks
      <4> QED BY <2>4, <3>3, <3>5, <4>1 DEF Delivered, Replies, whole, thanks
    <3> QED BY <3>4, <3>5
  <2> QED BY <2>3, <2>4
<1> QED BY <1>1, TextInit, TextNext, PeekInit, PeekNext, PTL DEF Spec

-----------------------------------------------------------------------------
(* The calculator.  Sets of numbers have a least element, which stands in    *)
(* for induction; so what is defined by recursion on 0..m exists.            *)
LEMMA Induct ==
  ASSUME NEW m \in Nat, NEW S \in SUBSET (0..m), 0 \in S, \A j \in 1..m : j - 1 \in S => j \in S
  PROVE  S = 0..m
<1> DEFINE T == (0..m) \ S
<1>1. SUFFICES ASSUME T # {} PROVE FALSE
  OBVIOUS
<1>2. T \in SUBSET Nat
  OBVIOUS
<1>3. PICK x \in T : \A y \in T : ~(<<y, x>> \in OpToRel(<, Nat))
  BY <1>1, <1>2, NatLessThanWellFounded, WFMin
<1>4. \A y \in T : ~(y < x)
  BY <1>2, <1>3 DEF OpToRel
<1>5. x \in 1..m /\ x - 1 \in 0..m /\ x - 1 < x
  <2>1. x \in 0..m /\ x # 0
    OBVIOUS
  <2> QED BY <2>1
<1>6. x - 1 \in S
  BY <1>4, <1>5
<1> QED BY <1>3, <1>5, <1>6

Steps(f, m, x, G) == f[0] = x /\ \A k \in 1..m : f[k] = G[k][f[k - 1]]

LEMMA Recursive ==
  ASSUME NEW m \in Nat, NEW X, NEW x \in X, NEW G \in [1..m -> [X -> X]]
  PROVE  \E f \in [0..m -> X] : Steps(f, m, x, G)
<1> DEFINE S == {j \in 0..m : \E f \in [0..j -> X] : Steps(f, j, x, G)}
<1>1. 0 \in S
  <2> DEFINE f == [k \in 0..0 |-> x]
  <2>1. f \in [0..0 -> X] /\ f[0] = x /\ 1..0 = {}
    OBVIOUS
  <2>2. Steps(f, 0, x, G)
    BY <2>1 DEF Steps
  <2> QED BY <2>1, <2>2
<1>2. ASSUME NEW j \in 1..m, j - 1 \in S PROVE j \in S
  <2>1. PICK f \in [0..j - 1 -> X] : Steps(f, j - 1, x, G)
    BY <1>2
  <2> DEFINE g == [k \in 0..j |-> IF k = j THEN G[j][f[j - 1]] ELSE f[k]]
  <2>2. G[j] \in [X -> X] /\ f[j - 1] \in X
    BY <2>1
  <2>3. g \in [0..j -> X]
    <3>1. ASSUME NEW k \in 0..j PROVE (IF k = j THEN G[j][f[j - 1]] ELSE f[k]) \in X
      <4>1. k # j => k \in 0..j - 1
        OBVIOUS
      <4> QED BY <2>1, <2>2, <4>1
    <3> QED BY <3>1
  <2>4. \A k \in 0..j : g[k] = IF k = j THEN G[j][f[j - 1]] ELSE f[k]
    OBVIOUS
  <2> HIDE DEF g
  <2>5. g[0] = x /\ \A k \in 0..j - 1 : g[k] = f[k]
    <3>1. 0 \in 0..j /\ 0 # j /\ \A k \in 0..j - 1 : k \in 0..j /\ k # j
      OBVIOUS
    <3> QED BY <2>1, <2>4, <3>1 DEF Steps
  <2>6. ASSUME NEW k \in 1..j PROVE g[k] = G[k][g[k - 1]]
    <3>1. CASE k = j
      <4>1. k - 1 = j - 1 /\ j - 1 \in 0..j - 1 /\ j \in 0..j
        BY <3>1
      <4> QED BY <2>4, <2>5, <3>1, <4>1
    <3>2. CASE k # j
      <4>1. k \in 1..j - 1 /\ k \in 0..j - 1 /\ k - 1 \in 0..j - 1
        BY <3>2
      <4> QED BY <2>1, <2>5, <4>1 DEF Steps
    <3> QED BY <3>1, <3>2
  <2>7. Steps(g, j, x, G)
    BY <2>5, <2>6 DEF Steps
  <2> QED BY <2>3, <2>7
<1>3. S \in SUBSET (0..m)
  OBVIOUS
<1> HIDE DEF S
<1>4. m \in S
  <2>1. S = 0..m
    BY <1>1, <1>2, <1>3, Induct
  <2> QED BY <2>1
<1> QED BY <1>4 DEF S

(* The place values of the bytes.                                            *)
LEMMA PowerIs ==
  /\ Power \in [0..IntSize -> Nat \ {0}] /\ Power[0] = 1
  /\ \A k \in 1..IntSize : Power[k] = Base * Power[k - 1]
<1>0. Base \in Nat \ {0} /\ IntSize \in Nat
  BY CalculatorAssumption
<1> DEFINE Is(f) == f = [k \in 0..IntSize |-> IF k = 0 THEN 1 ELSE Base * f[k - 1]]
           X == Nat \ {0}
           G == [k \in 1..IntSize |-> [v \in X |-> Base * v]]
<1>1. 1 \in X /\ G \in [1..IntSize -> [X -> X]] /\ \A k \in 1..IntSize, v \in X : G[k][v] = Base * v
  <2>1. \A v \in X : Base * v \in X
    BY <1>0
  <2> QED BY <2>1
<1> HIDE DEF X, G
<1>2. PICK f \in [0..IntSize -> X] : Steps(f, IntSize, 1, G)
  BY <1>0, <1>1, Recursive
<1>3. Is(f)
  <2>1. ASSUME NEW k \in 0..IntSize PROVE f[k] = IF k = 0 THEN 1 ELSE Base * f[k - 1]
    <3>1. CASE k = 0
      BY <1>2, <3>1 DEF Steps
    <3>2. CASE k # 0
      <4>1. k \in 1..IntSize /\ k - 1 \in 0..IntSize
        BY <1>0, <3>2
      <4> QED BY <1>1, <1>2, <3>2, <4>1 DEF Steps
    <3> QED BY <3>1, <3>2
  <2> QED BY <2>1
<1>4. Power = CHOOSE h : Is(h)
  BY Zenon DEF Power
<1> HIDE DEF Is
<1>5. Is(Power)
  BY <1>3, <1>4
<1>6. Power = [k \in 0..IntSize |-> IF k = 0 THEN 1 ELSE Base * Power[k - 1]]
  BY <1>5 DEF Is
<1>7. Power[0] = 1 /\ \A k \in 1..IntSize : Power[k] = Base * Power[k - 1]
  <2>1. 0 \in 0..IntSize /\ \A k \in 1..IntSize : k \in 0..IntSize /\ k # 0
    BY <1>0
  <2>2. \A k \in 0..IntSize : Power[k] = IF k = 0 THEN 1 ELSE Base * Power[k - 1]
    BY <1>6
  <2> QED BY <2>1, <2>2
<1>8. DOMAIN Power = 0..IntSize
  BY <1>6
<1>9. \A k \in 0..IntSize : Power[k] \in Nat \ {0}
  <2> DEFINE T == {k \in 0..IntSize : Power[k] \in Nat \ {0}}
  <2>1. 0 \in T /\ T \in SUBSET (0..IntSize)
    BY <1>0, <1>7
  <2>2. \A k \in 1..IntSize : k - 1 \in T => k \in T
    BY <1>0, <1>7
  <2> HIDE DEF T
  <2>3. T = 0..IntSize
    BY <1>0, <2>1, <2>2, Induct
  <2> QED BY <2>3 DEF T
<1> QED BY <1>6, <1>7, <1>8, <1>9

(* Division.                                                                 *)
LEMMA Divided ==
  ASSUME NEW w \in Nat \ {0}, NEW k \in Int, NEW m \in 0..w - 1
  PROVE  (k * w + m) \div w = k /\ (k * w + m) % w = m
<1> DEFINE a == k * w + m
           q == a \div w
           r == a % w
<1>1. a \in Int /\ k * w \in Int
  OBVIOUS
<1> HIDE DEF a
<1>2. q \in Int /\ r \in 0..w - 1 /\ a = w * q + r
  BY <1>1
<1> HIDE DEF q, r
<1>3. k * w + m = w * q + r
  BY <1>2 DEF a
<1>4. q = k
  <2>1. CASE q < k
    <3>1. PICK d \in Nat : k = q + 1 + d
      <4>1. k = q + 1 + (k - q - 1) /\ k - q - 1 \in Nat
        BY <2>1, <1>2
      <4> QED BY <4>1
    <3>2. k * w = w * q + w + d * w /\ d * w \in Nat /\ w * q \in Int
      BY <3>1, <1>2
    <3> QED BY <3>2, <1>2, <1>3
  <2>2. CASE q > k
    <3>1. PICK d \in Nat : q = k + 1 + d
      <4>1. q = k + 1 + (q - k - 1) /\ q - k - 1 \in Nat
        BY <2>2, <1>2
      <4> QED BY <4>1
    <3>2. w * q = k * w + w + d * w /\ d * w \in Nat
      BY <3>1, <1>2
    <3> QED BY <3>2, <1>1, <1>2, <1>3
  <2> QED BY <2>1, <2>2, <1>2
<1>5. r = m
  <2>1. k * w = w * q /\ w * q \in Int
    BY <1>2, <1>4
  <2> QED BY <2>1, <1>3, <1>2
<1> QED BY <1>4, <1>5 DEF q, r, a

LEMMA Quotient ==
  ASSUME NEW y \in Nat, NEW w \in Nat \ {0}
  PROVE  y \div w \in Nat /\ y % w \in 0..w - 1 /\ y = (y \div w) * w + (y % w)
<1>1. y \div w \in Nat
  OBVIOUS
<1>2. y % w \in 0..w - 1
  OBVIOUS
<1>3. y = w * (y \div w) + (y % w)
  OBVIOUS
<1>4. w * (y \div w) = (y \div w) * w
  BY <1>1
<1> QED BY <1>1, <1>2, <1>3, <1>4

LEMMA DividedTwice ==
  ASSUME NEW y \in Nat, NEW b \in Nat \ {0}, NEW p \in Nat \ {0}
  PROVE  y \div (b * p) = (y \div p) \div b
<1> DEFINE a == y \div p
           r == y % p
           c == a \div b
           d == a % b
<1>1. a \in Nat /\ r \in 0..p - 1 /\ y = a * p + r
  BY Quotient
<1>2. c \in Nat /\ d \in 0..b - 1 /\ a = c * b + d
  BY <1>1, Quotient
<1> HIDE DEF a, r, c, d
<1>3. PICK w \in Nat \ {0} : w = b * p
  OBVIOUS
<1>4. PICK m \in Nat : m = d * p + r
  <2>1. d * p \in Nat
    BY <1>2
  <2> QED BY <1>1, <2>1
<1>5. m \in 0..w - 1
  <2>1. PICK e \in Nat : b = d + 1 + e
    <3>1. b = d + 1 + (b - d - 1) /\ b - d - 1 \in Nat
      BY <1>2
    <3> QED BY <3>1
  <2>2. w = d * p + p + e * p /\ e * p \in Nat /\ d * p \in Nat
    BY <1>2, <1>3, <2>1
  <2> QED BY <1>1, <1>4, <2>2
<1>6. y = c * w + m
  <2>1. (c * b + d) * p = c * (b * p) + d * p
    BY <1>2
  <2>2. c * (b * p) \in Nat /\ d * p \in Nat
    BY <1>2, <1>3
  <2> QED BY <1>1, <1>2, <1>3, <1>4, <2>1, <2>2
<1>7. y \div w = c
  BY <1>2, <1>5, <1>6, Divided
<1> QED BY <1>3, <1>7 DEF a, c

(* What an int is, and that its bytes give it back.                          *)
LEMMA IntsAre ==
  ASSUME NEW x \in Ints
  PROVE  /\ Width \in Nat /\ Width > 0 /\ Width \div 2 \in Nat /\ x \in Int
         /\ x % Width = IF x >= 0 THEN x ELSE x + Width
         /\ x % Width \in 0..Width - 1
         /\ x = IF x % Width > Width \div 2 - 1 THEN (x % Width) - Width ELSE x % Width
<1>1. Width \in Nat \ {0}
  BY PowerIs, CalculatorAssumption DEF Width
<1>2. PICK w \in Nat \ {0} : w = Width
  BY <1>1
<1>3. PICK h \in Nat : h = w \div 2
  OBVIOUS
<1>4. w = 2 * h \/ w = 2 * h + 1
  BY <1>3
<1>5. x \in -h..h - 1 /\ x \in Int
  BY <1>2, <1>3 DEF Ints
<1>6. x % w = IF x >= 0 THEN x ELSE x + w
  <2>1. CASE x >= 0
    <3>1. 0 * w + x = x /\ x \in 0..w - 1
      BY <1>4, <1>5, <2>1
    <3> QED BY <2>1, <3>1, Divided
  <2>2. CASE x < 0
    <3>1. (-1) * w + (x + w) = x /\ x + w \in 0..w - 1 /\ -1 \in Int
      BY <1>4, <1>5, <2>2
    <3>2. ((-1) * w + (x + w)) % w = x + w
      BY <3>1, Divided
    <3> QED BY <1>5, <2>2, <3>1, <3>2
  <2> QED BY <1>5, <2>1, <2>2
<1>7. x % w \in 0..w - 1
  BY <1>4, <1>5, <1>6
<1>8. x = IF x % w > h - 1 THEN (x % w) - w ELSE x % w
  BY <1>4, <1>5, <1>6
<1> QED BY <1>2, <1>3, <1>5, <1>6, <1>7, <1>8

LEMMA EncodedIs ==
  ASSUME NEW x \in Ints
  PROVE  /\ Encoded(x) \in Seq(Nat) /\ Len(Encoded(x)) = IntSize
         /\ \A j \in 1..IntSize : Encoded(x)[j] = ((x % Width) \div Power[IntSize - j]) % Base
<1>1. x % Width \in Nat /\ IntSize \in Nat /\ Base \in Nat \ {0}
  BY IntsAre, CalculatorAssumption
<1>2. ASSUME NEW j \in 1..IntSize PROVE ((x % Width) \div Power[IntSize - j]) % Base \in Nat
  <2>1. Power[IntSize - j] \in Nat \ {0}
    <3>1. IntSize - j \in 0..IntSize
      BY <1>1
    <3> QED BY <3>1, PowerIs
  <2>2. (x % Width) \div Power[IntSize - j] \in Nat
    BY <1>1, <2>1, Quotient
  <2> QED BY <1>1, <2>2, Quotient
<1> QED BY <1>1, <1>2 DEF Encoded

Horner(f, b) == f = [j \in 0..IntSize |-> IF j = 0 THEN 0 ELSE f[j - 1] * Base + b[j]]

LEMMA DecodedIs ==
  ASSUME NEW b \in Seq(Nat), Len(b) = IntSize
  PROVE  \E f : /\ Horner(f, b)
                /\ Decoded(b) = IF f[IntSize] > Width \div 2 - 1 THEN f[IntSize] - Width
                                ELSE f[IntSize]
<1>0. Base \in Nat /\ IntSize \in Nat
  BY CalculatorAssumption
<1> DEFINE G == [k \in 1..IntSize |-> [v \in Nat |-> v * Base + b[k]]]
<1>1. /\ G \in [1..IntSize -> [Nat -> Nat]]
      /\ \A k \in 1..IntSize, v \in Nat : G[k][v] = v * Base + b[k]
  <2>1. \A k \in 1..IntSize, v \in Nat : v * Base + b[k] \in Nat
    BY <1>0
  <2> QED BY <2>1
<1> HIDE DEF G
<1>2. PICK f \in [0..IntSize -> Nat] : Steps(f, IntSize, 0, G)
  BY <1>0, <1>1, Recursive
<1>3. Horner(f, b)
  <2>1. ASSUME NEW k \in 0..IntSize PROVE f[k] = IF k = 0 THEN 0 ELSE f[k - 1] * Base + b[k]
    <3>1. CASE k = 0
      BY <1>2, <3>1 DEF Steps
    <3>2. CASE k # 0
      <4>1. k \in 1..IntSize /\ k - 1 \in 0..IntSize
        BY <1>0, <3>2
      <4> QED BY <1>1, <1>2, <3>2, <4>1 DEF Steps
    <3> QED BY <3>1, <3>2
  <2> QED BY <2>1 DEF Horner
<1> DEFINE g == CHOOSE h : Horner(h, b)
<1>4. Horner(g, b)
  BY <1>3
<1>5. Decoded(b) = IF g[IntSize] > Width \div 2 - 1 THEN g[IntSize] - Width ELSE g[IntSize]
  BY Zenon DEF Decoded, Horner
<1> QED BY <1>4, <1>5

LEMMA DecodedEncoded ==
  ASSUME NEW x \in Ints
  PROVE  Decoded(Encoded(x)) = x
<1>0. Base \in Nat \ {0} /\ IntSize \in Nat
  BY CalculatorAssumption
<1> DEFINE b == Encoded(x)
<1>1. /\ b \in Seq(Nat) /\ Len(b) = IntSize
      /\ \A j \in 1..IntSize : b[j] = ((x % Width) \div Power[IntSize - j]) % Base
  BY EncodedIs
<1> HIDE DEF b
<1>2. PICK f : /\ Horner(f, b)
               /\ Decoded(b) = IF f[IntSize] > Width \div 2 - 1 THEN f[IntSize] - Width
                               ELSE f[IntSize]
  BY <1>1, DecodedIs
<1>3. PICK y \in 0..Width - 1 : y = x % Width
  BY IntsAre
<1>4. y \in Nat /\ Width \in Nat /\ y < Width
  BY <1>3, IntsAre
<1>5. \A j \in 0..IntSize : f[j] = y \div Power[IntSize - j]
  <2> DEFINE S == {j \in 0..IntSize : f[j] = y \div Power[IntSize - j]}
  <2>1. 0 \in S
    <3>1. f[0] = 0
      BY <1>0, <1>2 DEF Horner
    <3>2. IntSize - 0 = IntSize /\ Power[IntSize] = Width
      BY <1>0 DEF Width
    <3>3. y \div Width = 0
      <4>1. 0 * Width + y = y /\ y \in 0..Width - 1
        BY <1>4
      <4> QED BY <1>4, <4>1, Divided
    <3> QED BY <1>0, <3>1, <3>2, <3>3
  <2>2. ASSUME NEW j \in 1..IntSize, j - 1 \in S PROVE j \in S
    <3>1. PICK s \in 0..IntSize - 1 : s = IntSize - j
      BY <1>0
    <3>2. IntSize - (j - 1) = s + 1 /\ s + 1 \in 1..IntSize /\ s + 1 - 1 = s
      BY <1>0, <3>1
    <3>3. PICK p \in Nat \ {0} : p = Power[s]
      BY <1>0, <3>1, PowerIs
    <3>4. Power[s + 1] = Base * p
      BY <3>2, <3>3, PowerIs
    <3>5. f[j] = f[j - 1] * Base + b[j]
      BY <1>0, <1>2 DEF Horner
    <3>6. f[j - 1] = (y \div p) \div Base
      <4>1. f[j - 1] = y \div (Base * p)
        BY <2>2, <3>2, <3>4
      <4> QED BY <1>0, <1>4, <4>1, DividedTwice
    <3>7. b[j] = (y \div p) % Base
      BY <1>1, <1>3, <3>1, <3>3
    <3>8. y \div p \in Nat
      BY <1>4, Quotient
    <3>9. f[j] = y \div p
      BY <1>0, <3>5, <3>6, <3>7, <3>8, Quotient
    <3> QED BY <3>1, <3>3, <3>9
  <2>3. S \in SUBSET (0..IntSize)
    OBVIOUS
  <2> HIDE DEF S
  <2>4. S = 0..IntSize
    BY <1>0, <2>1, <2>2, <2>3, Induct
  <2> QED BY <2>4 DEF S
<1>6. f[IntSize] = y
  <2>1. IntSize \in 0..IntSize /\ IntSize - IntSize = 0
    BY <1>0
  <2>2. y \div 1 = y
    BY <1>4
  <2> QED BY <1>5, <2>1, <2>2, PowerIs
<1>7. Decoded(b) = x
  BY <1>2, <1>3, <1>6, IntsAre
<1> QED BY <1>7 DEF b

-----------------------------------------------------------------------------
(* What the client sends, word by word.                                      *)
Requests == [operands : {xs \in Seq(Operands) : Len(xs) <= MaxCount}, op : {Plus, Times, Letter}]

LEMMA RequestIs ==
  ASSUME NEW q \in Requests
  PROVE  LET n == Len(q.operands) IN
         /\ n \in Nat /\ n \in Ints /\ Len(Request(q)) = IntSize * (n + 1) + 1
         /\ Request(q) \in Seq(Nat) /\ Request(q)[Len(Request(q))] = q.op
         /\ \A k \in 0..n :
              SubSeq(Request(q), IntSize * k + 1, IntSize * k + IntSize)
                = Encoded(IF k = 0 THEN n ELSE q.operands[k])
<1> DEFINE n == Len(q.operands)
<1>0. Base \in Nat \ {0} /\ IntSize \in Nat \ {0}
  BY CalculatorAssumption
<1>1. /\ q.operands \in Seq(Ints) /\ q.operands \in Seq(Int) /\ n \in Nat /\ n <= MaxCount
      /\ q.op \in {1, 2, 3}
  <2>1. q.operands \in Seq(Operands) /\ n <= MaxCount /\ q.op \in {1, 2, 3}
    BY DEF Requests, Plus, Times, Letter
  <2>2. n \in Nat /\ \A k \in 1..n : q.operands[k] \in Operands
    BY <2>1
  <2>3. Operands \subseteq Ints /\ Ints \subseteq Int
    BY CalculatorAssumption DEF Ints
  <2>4. \A k \in 1..n : q.operands[k] \in Ints /\ q.operands[k] \in Int
    BY <2>2, <2>3
  <2> QED BY <2>1, <2>2, <2>4
<1>2. n \in Ints
  <2>1. PICK h \in Nat : h = Width \div 2
    <3>1. Width \in Nat \ {0}
      BY PowerIs, CalculatorAssumption DEF Width
    <3> QED BY <3>1
  <2> HIDE DEF n
  <2>2. MaxCount \in 0..h - 1
    BY <2>1, CalculatorAssumption
  <2>3. n \in -h..h - 1
    BY <1>1, <2>1, <2>2
  <2> QED BY <2>1, <2>3 DEF Ints
<1>3. /\ Len(Words(q)) = n + 1
      /\ \A k \in 0..n : Words(q)[k + 1] = (IF k = 0 THEN n ELSE q.operands[k])
      /\ \A k \in 0..n : Words(q)[k + 1] \in Ints
  <2>1. Words(q) = <<n>> \o q.operands
    BY DEF Words
  <2>2. Len(Words(q)) = n + 1 /\ Words(q)[1] = n
    BY <1>1, <2>1
  <2>3. ASSUME NEW k \in 1..n PROVE Words(q)[k + 1] = q.operands[k] /\ q.operands[k] \in Ints
    BY <1>1, <2>1
  <2> HIDE DEF n
  <2>4. ASSUME NEW k \in 0..n
        PROVE  /\ Words(q)[k + 1] = (IF k = 0 THEN n ELSE q.operands[k])
               /\ Words(q)[k + 1] \in Ints
    <3>1. CASE k = 0
      BY <1>2, <2>2, <3>1
    <3>2. CASE k # 0
      <4>1. k \in 1..n
        BY <1>1, <3>2
      <4> QED BY <2>3, <3>2, <4>1
    <3> QED BY <3>1, <3>2
  <2> QED BY <2>2, <2>4
<1> DEFINE end == IntSize * (n + 1)
<1>4. end \in Nat
  BY <1>0, <1>1
<1>5. Request(q) = [j \in 1..end + 1 |->
        IF j > end THEN q.op
        ELSE Encoded(Words(q)[(j - 1) \div IntSize + 1])[((j - 1) % IntSize) + 1]]
  BY <1>3 DEF Request
<1> HIDE DEF n, end
<1>6. ASSUME NEW k \in 0..n, NEW t \in 1..IntSize
      PROVE  /\ IntSize * k + t \in 1..end
             /\ Request(q)[IntSize * k + t] = Encoded(Words(q)[k + 1])[t]
  <2>1. IntSize * k + t \in 1..end
    <3>1. PICK d \in Nat : n = k + d
      <4>1. n = k + (n - k) /\ n - k \in Nat
        BY <1>1 DEF n
      <4> QED BY <4>1
    <3>2. end = IntSize * k + IntSize * d + IntSize /\ IntSize * d \in Nat /\ IntSize * k \in Nat
      BY <1>0, <3>1 DEF end
    <3> QED BY <1>0, <3>2
  <2>2. PICK j \in 1..end : j = IntSize * k + t
    BY <2>1
  <2>3. (j - 1) \div IntSize = k /\ (j - 1) % IntSize = t - 1
    <3>1. t - 1 \in 0..IntSize - 1 /\ j - 1 = k * IntSize + (t - 1)
      BY <1>0, <1>1, <2>2
    <3>2. k \in Int
      OBVIOUS
    <3> QED BY <1>0, <3>1, <3>2, Divided
  <2>4. Request(q)[j] = Encoded(Words(q)[(j - 1) \div IntSize + 1])[((j - 1) % IntSize) + 1]
    BY <1>4, <1>5
  <2>5. Request(q)[j] = Encoded(Words(q)[k + 1])[t]
    <3>1. t - 1 + 1 = t
      OBVIOUS
    <3> QED BY <2>3, <2>4, <3>1
  <2> QED BY <2>1, <2>2, <2>5
<1>7. \A j \in 1..end + 1 : Request(q)[j] \in Nat
  <2>1. ASSUME NEW j \in 1..end PROVE Request(q)[j] \in Nat
    <3>1. PICK k \in Nat, r \in 0..IntSize - 1 : j - 1 = k * IntSize + r
      <4>1. j - 1 \in Nat
        BY <1>4
      <4> QED BY <1>0, <4>1, Quotient
    <3>2. k <= n
      <4>1. CASE k > n
        <5>1. PICK d \in Nat : k = n + 1 + d
          <6>1. k = n + 1 + (k - n - 1) /\ k - n - 1 \in Nat
            BY <1>1, <4>1
          <6> QED BY <6>1
        <5>2. k * IntSize = end + d * IntSize /\ d * IntSize \in Nat
          BY <1>0, <1>1, <5>1 DEF end
        <5> QED BY <1>4, <3>1, <5>2
      <4> QED BY <1>1, <4>1
    <3>3. r + 1 \in 1..IntSize /\ IntSize * k + (r + 1) = j /\ k \in 0..n
      BY <1>0, <1>1, <3>1, <3>2
    <3>4. Request(q)[j] = Encoded(Words(q)[k + 1])[r + 1]
      BY <1>6, <3>3
    <3>5. Encoded(Words(q)[k + 1]) \in Seq(Nat) /\ Len(Encoded(Words(q)[k + 1])) = IntSize
      BY <1>3, <3>3, EncodedIs
    <3> QED BY <3>3, <3>4, <3>5
  <2>2. Request(q)[end + 1] \in Nat
    BY <1>1, <1>4, <1>5
  <2> QED BY <1>4, <2>1, <2>2
<1>8. Request(q) \in Seq(Nat) /\ Len(Request(q)) = end + 1
  <2>1. Request(q) = [j \in 1..end + 1 |-> Request(q)[j]]
    BY <1>5
  <2> QED BY <1>4, <1>7, <2>1
<1>9. Request(q)[end + 1] = q.op
  BY <1>4, <1>5
<1>10. ASSUME NEW k \in 0..n
       PROVE  SubSeq(Request(q), IntSize * k + 1, IntSize * k + IntSize)
                = Encoded(IF k = 0 THEN n ELSE q.operands[k])
  <2> DEFINE s == SubSeq(Request(q), IntSize * k + 1, IntSize * k + IntSize)
             e == Encoded(Words(q)[k + 1])
  <2>1. e \in Seq(Nat) /\ Len(e) = IntSize
    BY <1>3, EncodedIs
  <2>2. PICK a \in Nat : a = IntSize * k
    BY <1>0, <1>1
  <2>3. s \in Seq(Nat) /\ Len(s) = IntSize /\ \A t \in 1..IntSize : s[t] = Request(q)[a + t]
    <3>1. \A c \in a + 1..a + IntSize : Request(q)[c] \in Nat
      <4>1. ASSUME NEW c \in a + 1..a + IntSize PROVE c \in 1..end
        <5>1. c - a \in 1..IntSize /\ a + (c - a) = c
          BY <1>0, <2>2
        <5> QED BY <1>6, <2>2, <5>1
      <4> QED BY <1>4, <1>7, <4>1
    <3>2. a + 1 \in Int /\ a + IntSize \in Int /\ a + IntSize - (a + 1) + 1 = IntSize
      BY <1>0, <2>2
    <3>3. PICK m \in Int, z \in Int : m = a + 1 /\ z = a + IntSize
      BY <3>2
    <3>4. /\ SubSeq(Request(q), m, z) \in Seq(Nat)
          /\ Len(SubSeq(Request(q), m, z)) = (IF m <= z THEN z - m + 1 ELSE 0)
          /\ \A t \in 1..z - m + 1 : SubSeq(Request(q), m, z)[t] = Request(q)[m + t - 1]
      BY <3>1, <3>3, SubSeqProperties
    <3>5. \A t \in 1..IntSize : m + t - 1 = a + t
      BY <3>3
    <3>6. m <= z /\ z - m + 1 = IntSize
      BY <1>0, <2>2, <3>3
    <3>7. s = SubSeq(Request(q), m, z)
      BY <2>2, <3>3
    <3> QED BY <3>4, <3>5, <3>6, <3>7
  <2>4. \A t \in 1..IntSize : s[t] = e[t]
    BY <1>6, <2>2, <2>3
  <2> HIDE DEF s, e
  <2>5. s = e
    BY <2>1, <2>3, <2>4, SeqEqual
  <2>6. s = Encoded(IF k = 0 THEN n ELSE q.operands[k])
    BY <1>3, <2>5 DEF e, n
  <2> QED BY <2>6 DEF s
<1> QED BY <1>1, <1>2, <1>8, <1>9, <1>10 DEF n, end

LEMMA ValueIs ==
  ASSUME NEW q \in Requests
  PROVE  LET n == Len(q.operands) IN
         /\ n \in Nat /\ Value(q)[0] = Neutral(q.op)
         /\ \A k \in 1..n : Value(q)[k] = Combined(q.op, Value(q)[k - 1], q.operands[k])
<1> DEFINE n == Len(q.operands)
           Is(f) == f = [k \in 0..n |-> IF k = 0 THEN Neutral(q.op)
                                        ELSE Combined(q.op, f[k - 1], q.operands[k])]
           G == [k \in 1..n |-> [v \in Int |-> Combined(q.op, v, q.operands[k])]]
<1>1. n \in Nat /\ \A k \in 1..n : q.operands[k] \in Int
  <2>1. q.operands \in Seq(Operands)
    BY DEF Requests
  <2>2. ASSUME NEW y \in Operands PROVE y \in Int
    <3>1. y \in Ints
      BY CalculatorAssumption
    <3> QED BY <3>1, IntsAre
  <2> QED BY <2>1, <2>2
<1> HIDE DEF n
<1>2. /\ Neutral(q.op) \in Int /\ G \in [1..n -> [Int -> Int]]
      /\ \A k \in 1..n, v \in Int : G[k][v] = Combined(q.op, v, q.operands[k])
  <2>1. Neutral(q.op) \in Int
    BY DEF Neutral
  <2>2. \A k \in 1..n, v \in Int : Combined(q.op, v, q.operands[k]) \in Int
    BY <1>1 DEF Combined
  <2> QED BY <2>1, <2>2
<1> HIDE DEF G
<1>3. PICK f \in [0..n -> Int] : Steps(f, n, Neutral(q.op), G)
  BY <1>1, <1>2, Recursive
<1>4. Is(f)
  <2>1. ASSUME NEW k \in 0..n
        PROVE  f[k] = IF k = 0 THEN Neutral(q.op) ELSE Combined(q.op, f[k - 1], q.operands[k])
    <3>1. CASE k = 0
      BY <1>3, <3>1 DEF Steps
    <3>2. CASE k # 0
      <4>1. k \in 1..n /\ k - 1 \in 0..n
        BY <1>1, <3>2
      <4> QED BY <1>2, <1>3, <3>2, <4>1 DEF Steps
    <3> QED BY <3>1, <3>2
  <2> QED BY <2>1
<1>5. Value(q) = CHOOSE h : Is(h)
  BY Zenon DEF Value, n
<1> HIDE DEF Is
<1>6. Is(Value(q))
  BY <1>4, <1>5
<1>7. \A k \in 0..n :
        Value(q)[k] = IF k = 0 THEN Neutral(q.op)
                      ELSE Combined(q.op, Value(q)[k - 1], q.operands[k])
  BY <1>6 DEF Is
<1>8. 0 \in 0..n /\ \A k \in 1..n : k \in 0..n /\ k # 0
  BY <1>1
<1>9. Value(q)[0] = Neutral(q.op)
  BY <1>7, <1>8
<1>10. \A k \in 1..n : Value(q)[k] = Combined(q.op, Value(q)[k - 1], q.operands[k])
  BY <1>7, <1>8
<1> QED BY <1>1, <1>9, <1>10 DEF n

LEMMA OperandIs ==
  ASSUME NEW q \in Requests, heard = Request(q), NEW k \in 1..Len(q.operands)
  PROVE  Operand(k) = {q.operands[k]}
<1> DEFINE n == Len(q.operands)
<1>1. /\ n \in Nat /\ Len(heard) = IntSize * (n + 1) + 1
      /\ SubSeq(heard, IntSize * k + 1, IntSize * k + IntSize)
           = Encoded(IF k = 0 THEN n ELSE q.operands[k])
  BY RequestIs
<1>2. k # 0 /\ k \in 1..n /\ IntSize \in Nat \ {0}
  BY CalculatorAssumption
<1>3. q.operands[k] \in Ints
  BY CalculatorAssumption DEF Requests
<1> HIDE DEF n
<1>4. IntSize * k + IntSize <= Len(heard)
  <2>1. PICK d \in Nat : n = k + d
    <3>1. n = k + (n - k) /\ n - k \in Nat
      BY <1>1, <1>2
    <3> QED BY <3>1
  <2>2. /\ IntSize * (n + 1) = IntSize * k + IntSize * d + IntSize
        /\ IntSize * d \in Nat /\ IntSize * k \in Nat
    BY <1>2, <2>1
  <2> QED BY <1>1, <1>2, <2>2
<1>5. Decoded(SubSeq(heard, IntSize * k + 1, IntSize * k + IntSize)) = q.operands[k]
  BY <1>1, <1>2, <1>3, DecodedEncoded
<1> QED BY <1>4, <1>5 DEF Operand

(* The loop of the server computes what the value is.                        *)
Loop(f, op, count) ==
  f = [i \in 0..count |->
         IF i = 0 THEN {Neutral(op)}
         ELSE OneMore(op, f[i - 1], i)]

LEMMA ResultsAre ==
  ASSUME NEW q \in Requests, heard = Request(q)
  PROVE  LET n == Len(q.operands) IN
         /\ q.op \notin {Plus, Times} => Results(n) = {}
         /\ q.op \in {Plus, Times} /\ (\A k \in 0..n : Value(q)[k] \in Ints)
              => Results(n) = {Value(q)[n]}
<1> DEFINE n == Len(q.operands)
<1>1. heard[Len(heard)] = q.op
  BY RequestIs
<1>2. q.op \notin {Plus, Times} => Results(n) = {}
  BY <1>1 DEF Results
<1>3. ASSUME q.op \in {Plus, Times}, \A k \in 0..n : Value(q)[k] \in Ints
      PROVE  Results(n) = {Value(q)[n]}
  <2> DEFINE v == Value(q)
  <2>1. /\ n \in Nat /\ v[0] = Neutral(q.op)
        /\ \A k \in 1..n : v[k] = Combined(q.op, v[k - 1], q.operands[k])
    BY ValueIs
  <2>2. \A k \in 1..n : Operand(k) = {q.operands[k]}
    BY OperandIs
  <2>3. \A k \in 0..n : v[k] \in Ints
    BY <1>3
  <2> HIDE DEF n, v
  <2>4. ASSUME NEW k \in 1..n PROVE OneMore(q.op, {v[k - 1]}, k) = {v[k]}
    <3> DEFINE a == v[k - 1]  b == q.operands[k]
    <3>1. v[k] = Combined(q.op, a, b) /\ Operand(k) = {b}
      BY <2>1, <2>2
    <3>2. Plain(v[k]) = {v[k]}
      <4>1. k \in 0..n
        BY <2>1
      <4> QED BY <2>3, <4>1 DEF Plain
    <3> HIDE DEF a, b
    <3>3. ASSUME NEW y PROVE y \in OneMore(q.op, {a}, k) <=> y \in Plain(Combined(q.op, a, b))
      BY <3>1 DEF OneMore
    <3>6. OneMore(q.op, {a}, k) = {v[k]}
      BY <3>1, <3>2, <3>3
    <3> QED BY <3>6 DEF a
  <2>5. Loop([k \in 0..n |-> {v[k]}], q.op, n)
    <3> DEFINE f == [k \in 0..n |-> {v[k]}]
    <3>1. ASSUME NEW k \in 0..n
          PROVE  f[k] = IF k = 0 THEN {Neutral(q.op)}
                        ELSE OneMore(q.op, f[k - 1], k)
      <4>1. CASE k = 0
        BY <2>1, <4>1
      <4>2. CASE k # 0
        <5>1. k \in 1..n /\ k - 1 \in 0..n
          BY <2>1, <4>2
        <5>2. f[k - 1] = {v[k - 1]} /\ f[k] = {v[k]}
          BY <5>1
        <5> HIDE DEF f
        <5> QED BY <2>4, <4>2, <5>1, <5>2
      <4> QED BY <4>1, <4>2
    <3>2. f = [k \in 0..n |-> f[k]]
      OBVIOUS
    <3> HIDE DEF f
    <3>3. f = [k \in 0..n |->
                 IF k = 0 THEN {Neutral(q.op)}
                 ELSE OneMore(q.op, f[k - 1], k)]
      BY <3>1, <3>2
    <3>4. Loop(f, q.op, n)
      BY <3>3 DEF Loop
    <3> QED BY <3>4 DEF f
  <2> DEFINE g == CHOOSE h : Loop(h, q.op, n)
  <2>6. Loop(g, q.op, n)
    BY <2>5
  <2>7. Results(n) = g[n]
    <3>1. Results(n) = LET op == heard[Len(heard)] IN
                       IF op \in {Plus, Times} THEN (CHOOSE h : Loop(h, op, n))[n] ELSE {}
      BY Zenon DEF Results, Loop
    <3> QED BY <1>1, <1>3, <3>1
  <2> HIDE DEF g
  <2>8. \A k \in 0..n :
          g[k] = IF k = 0 THEN {Neutral(q.op)}
                 ELSE OneMore(q.op, g[k - 1], k)
    BY <2>6 DEF Loop
  <2> DEFINE S == {k \in 0..n : g[k] = {v[k]}}
  <2>9. 0 \in S /\ S \in SUBSET (0..n)
    BY <2>1, <2>8
  <2>10. ASSUME NEW k \in 1..n, k - 1 \in S PROVE k \in S
    <3>1. k \in 0..n /\ k # 0 /\ g[k - 1] = {v[k - 1]}
      BY <2>1, <2>10
    <3>2. g[k] = OneMore(q.op, g[k - 1], k)
      BY <2>8, <3>1
    <3>3. g[k] = {v[k]}
      BY <2>4, <3>1, <3>2
    <3> QED BY <3>1, <3>3
  <2> HIDE DEF S
  <2>11. S = 0..n
    BY <2>1, <2>9, <2>10, Induct
  <2>12. n \in S
    BY <2>1, <2>11
  <2> QED BY <2>7, <2>12 DEF S, v
<1> QED BY <1>2, <1>3

(* Whatever was heard, what the server may send back is an int.              *)
LEMMA NeutralIn == ASSUME NEW op PROVE Neutral(op) \in Ints
<1>1. PICK b \in Nat : b = Base /\ b > 3
  BY CalculatorAssumption
<1>2. IntSize \in 1..IntSize /\ IntSize \in Nat /\ IntSize - 1 \in 0..IntSize
  BY CalculatorAssumption
<1>3. PICK p \in Nat \ {0} : p = Power[IntSize - 1]
  BY <1>2, PowerIs
<1>4. Width = b * p
  BY <1>1, <1>2, <1>3, PowerIs DEF Width
<1>5. PICK w \in Nat : w = b * p /\ w > 3
  <2>1. PICK r \in Nat : p = r + 1
    <3>1. p - 1 \in Nat /\ p = (p - 1) + 1
      BY <1>3
    <3> QED BY <3>1
  <2>2. b * (r + 1) = b * r + b /\ b * r \in Nat
    BY <1>1
  <2> QED BY <1>1, <2>1, <2>2
<1>6. PICK h \in Int : h = w \div 2 /\ h >= 2
  BY <1>5
<1>7. Neutral(op) \in -h..h - 1
  BY <1>6 DEF Neutral
<1> QED BY <1>4, <1>5, <1>6, <1>7 DEF Ints

LEMMA OneMoreIn ==
  ASSUME NEW op, NEW M, NEW i
  PROVE  OneMore(op, M, i) \in SUBSET Ints
<1>1. ASSUME NEW x PROVE Plain(x) \subseteq Ints
  BY DEF Plain
<1> QED BY <1>1 DEF OneMore

LEMMA ResultsIn ==
  ASSUME NEW count \in Nat
  PROVE  Results(count) \subseteq Ints
<1> DEFINE op == heard[Len(heard)]
           X == SUBSET Ints
           G == [k \in 1..count |-> [M \in X |-> OneMore(op, M, k)]]
<1> HIDE DEF op
<1>1. /\ {Neutral(op)} \in X /\ G \in [1..count -> [X -> X]]
      /\ \A k \in 1..count, M \in X : G[k][M] = OneMore(op, M, k)
  <2>1. {Neutral(op)} \in X
    BY NeutralIn
  <2>2. \A k \in 1..count, M \in X : OneMore(op, M, k) \in X
    BY OneMoreIn
  <2> HIDE DEF X
  <2> QED BY <2>1, <2>2
<1> HIDE DEF G, X
<1>2. PICK f \in [0..count -> X] : Steps(f, count, {Neutral(op)}, G)
  BY <1>1, Recursive
<1>3. Loop(f, op, count)
  <2>1. ASSUME NEW k \in 0..count
        PROVE  f[k] = IF k = 0 THEN {Neutral(op)} ELSE OneMore(op, f[k - 1], k)
    <3>1. CASE k = 0
      BY <1>2, <3>1 DEF Steps
    <3>2. CASE k # 0
      <4>1. k \in 1..count /\ k - 1 \in 0..count
        BY <3>2
      <4>2. f[k - 1] \in X /\ f[k] = G[k][f[k - 1]]
        BY <1>2, <4>1 DEF Steps
      <4> QED BY <1>1, <3>2, <4>1, <4>2
    <3> QED BY <3>1, <3>2
  <2>2. f = [k \in 0..count |-> f[k]]
    OBVIOUS
  <2> QED BY <2>1, <2>2 DEF Loop
<1> DEFINE g == CHOOSE h : Loop(h, op, count)
<1>4. Loop(g, op, count)
  BY <1>3
<1>5. Results(count) = IF op \in {Plus, Times} THEN g[count] ELSE {}
  BY Zenon DEF Results, Loop, op
<1> HIDE DEF g
<1>6. \A k \in 0..count : g[k] = IF k = 0 THEN {Neutral(op)} ELSE OneMore(op, g[k - 1], k)
  BY <1>4 DEF Loop
<1>7. g[count] \subseteq Ints
  <2>1. count \in 0..count
    OBVIOUS
  <2> QED BY <1>6, <2>1, NeutralIn, OneMoreIn
<1> QED BY <1>5, <1>7

-----------------------------------------------------------------------------
(* Sequences that begin others.                                              *)
Begins(s, a) == Len(s) <= Len(a) /\ \A j \in 1..Len(s) : s[j] = a[j]

LEMMA BeginsCut ==
  ASSUME NEW s \in Seq(Nat), NEW t \in Seq(Nat), NEW a \in Seq(Nat), Begins(s \o t, a),
         NEW n \in 0..Len(s)
  PROVE  SubSeq(s, 1, n) \in Seq(Nat) /\ Begins(SubSeq(s, 1, n), a)
<1>1. /\ Len(s) \in Nat /\ Len(t) \in Nat /\ Len(s \o t) = Len(s) + Len(t) /\ Len(a) \in Nat
      /\ \A j \in 1..Len(s) : (s \o t)[j] = s[j]
  OBVIOUS
<1>2. SubSeq(s, 1, n) \in Seq(Nat) /\ Len(SubSeq(s, 1, n)) = n
  BY SplitLens
<1>3. \A j \in 1..n : SubSeq(s, 1, n)[j] = s[j]
  OBVIOUS
<1>4. ASSUME NEW j \in 1..n PROVE s[j] = a[j]
  <2>1. j \in 1..Len(s) /\ j \in 1..Len(s \o t)
    BY <1>1
  <2> QED BY <1>1, <2>1 DEF Begins
<1>5. n <= Len(a)
  BY <1>1 DEF Begins
<1> QED BY <1>2, <1>3, <1>4, <1>5 DEF Begins

LEMMA BeginsOf ==
  ASSUME NEW s \in Seq(Nat), NEW a \in Seq(Nat), Begins(s, a), NEW n \in 0..Len(s)
  PROVE  SubSeq(s, 1, n) = SubSeq(a, 1, n)
<1>1. Len(s) \in Nat /\ Len(a) \in Nat /\ n \in 0..Len(a)
  BY DEF Begins
<1>2. /\ SubSeq(s, 1, n) \in Seq(Nat) /\ Len(SubSeq(s, 1, n)) = n
      /\ SubSeq(a, 1, n) \in Seq(Nat) /\ Len(SubSeq(a, 1, n)) = n
  BY <1>1, SplitLens
<1>3. \A j \in 1..n : SubSeq(s, 1, n)[j] = s[j] /\ SubSeq(a, 1, n)[j] = a[j] /\ s[j] = a[j]
  BY <1>1 DEF Begins
<1> HIDE DEF Begins
<1> QED BY <1>2, <1>3, SeqEqual

LEMMA Shifted ==
  ASSUME NEW s \in Seq(Nat), NEW t \in Seq(Nat), t # <<>>
  PROVE  /\ Head(t) \in Nat /\ Tail(t) \in Seq(Nat) /\ Append(s, Head(t)) \in Seq(Nat)
         /\ Append(s, Head(t)) \o Tail(t) = s \o t
<1>1. Head(t) \in Nat /\ Tail(t) \in Seq(Nat) /\ Append(s, Head(t)) \in Seq(Nat)
  OBVIOUS
<1> QED BY <1>1

(* The number that was sent first, if it was not cut.                        *)
LEMMA CountIs ==
  ASSUME NEW q \in Requests, heard \in Seq(Nat), Begins(heard, Request(q)),
         Len(heard) >= IntSize
  PROVE  Decoded(SubSeq(heard, 1, IntSize)) = Len(q.operands) /\ Len(q.operands) \in Nat
<1> DEFINE n == Len(q.operands)
<1>1. /\ n \in Nat /\ n \in Ints /\ Request(q) \in Seq(Nat)
      /\ SubSeq(Request(q), IntSize * 0 + 1, IntSize * 0 + IntSize)
           = Encoded(IF 0 = 0 THEN n ELSE q.operands[0])
  <2>1. n \in Nat
    BY RequestIs
  <2>2. 0 \in 0..n
    BY <2>1
  <2> QED BY <2>2, RequestIs
<1> HIDE DEF n
<1>2. IntSize * 0 + 1 = 1 /\ IntSize * 0 + IntSize = IntSize /\ IntSize \in 0..Len(heard)
  BY CalculatorAssumption
<1>3. SubSeq(Request(q), 1, IntSize) = Encoded(n)
  BY <1>1, <1>2
<1>4. SubSeq(heard, 1, IntSize) = Encoded(n)
  BY <1>1, <1>2, <1>3, BeginsOf
<1>5. Decoded(Encoded(n)) = n
  BY <1>1, DecodedEncoded
<1> QED BY <1>1, <1>4, <1>5 DEF n

(* What the server is to send to a client that asked q.                      *)
Right(a, q) ==
  IF q.op \in {Plus, Times}
  THEN (\A j \in 0..Len(q.operands) : Value(q)[j] \in Ints) =>
         a = Encoded(Value(q)[Len(q.operands)])
  ELSE a = Refusal

LEMMA RefusalIs == Refusal \in Seq(Nat) /\ Len(Refusal) = IntSize + 1
<1>1. IntSize + 1 \in Nat /\ Letter \in Nat
  BY CalculatorAssumption DEF Letter
<1> QED BY <1>1 DEF Refusal

LEMMA ComputeRight ==
  ASSUME Compute, NEW q \in Requests, heard \in Seq(Nat), Begins(heard, Request(q))
  PROVE  buf' \in Seq(Nat) /\ (heard = Request(q) => Right(buf', q))
<1> DEFINE n == Len(q.operands)
<1>1. CASE Len(heard) < IntSize
  <2>1. \/ \E x \in Ints : buf' = Encoded(x)
        \/ buf' = Refusal
    BY <1>1 DEF Compute
  <2>2. heard # Request(q)
    <3>1. n \in Nat /\ Len(Request(q)) = IntSize * (n + 1) + 1
      BY RequestIs
    <3>2. IntSize * (n + 1) + 1 >= IntSize /\ IntSize \in Nat
      <4>1. IntSize * (n + 1) = IntSize * n + IntSize /\ IntSize * n \in Nat
        BY <3>1, CalculatorAssumption
      <4> HIDE DEF n
      <4> QED BY <4>1, CalculatorAssumption
    <3> QED BY <1>1, <3>1, <3>2
  <2> QED BY <2>1, <2>2, EncodedIs, RefusalIs
<1>2. CASE ~(Len(heard) < IntSize)
  <2>1. Decoded(SubSeq(heard, 1, IntSize)) = n /\ n \in Nat
    <3>1. Len(heard) \in Nat /\ IntSize \in Nat
      BY CalculatorAssumption
    <3>2. Len(heard) >= IntSize
      BY <1>2, <3>1
    <3> QED BY <3>2, CountIs
  <2>2. IF Results(n) = {} THEN buf' = Refusal ELSE \E x \in Results(n) : buf' = Encoded(x)
    BY <1>2, <2>1 DEF Compute
  <2>3. Results(n) \subseteq Ints
    BY <2>1, ResultsIn
  <2>4. buf' \in Seq(Nat)
    BY <2>2, <2>3, EncodedIs, RefusalIs
  <2>5. ASSUME heard = Request(q) PROVE Right(buf', q)
    <3>1. CASE q.op \notin {Plus, Times}
      BY <2>2, <2>5, <3>1, ResultsAre DEF Right
    <3>2. CASE q.op \in {Plus, Times}
      <4>1. SUFFICES ASSUME \A j \in 0..n : Value(q)[j] \in Ints
                     PROVE  buf' = Encoded(Value(q)[n])
        BY <3>2 DEF Right
      <4>2. Results(n) = {Value(q)[n]}
        BY <2>5, <3>2, <4>1, ResultsAre
      <4> HIDE DEF n
      <4> QED BY <2>2, <4>2
    <3> QED BY <3>1, <3>2
  <2> QED BY <2>4, <2>5
<1> QED BY <1>1, <1>2

-----------------------------------------------------------------------------
(* The calculator.  Until the server has read, what is on its way to it and  *)
(* what is left to write begin a client's request.  The server reads once,   *)
(* so what it hears begins that request too; once it has computed, what its  *)
(* client has read - or what is on its way back and what the server has left *)
(* to write - begins the right answer, if the whole request was heard.       *)
Told == {"write"} \cup Over

CalcTypeOK ==
  /\ link \in [Clients -> Links] /\ waiting \subseteq Clients
  /\ cur \in Clients \cup {None} /\ buf \in Seq(Nat) /\ heard \in Seq(Nat)
  /\ cpc \in [Clients -> {"off", "ask", "write", "read", "done", "lost"}]
  /\ out \in [Clients -> Seq(Nat)] /\ got \in [Clients -> Seq(Nat)]
  /\ asked \in [Clients -> Requests \cup {<<>>}]

CalcMain ==
  /\ spc \in {"accept", "read", "compute"} \cup Told
  /\ spc = "accept" => cur = None
  /\ spc # "accept" => cur \in Clients

Shows(c) == IF cpc[c] = "done" THEN got[c] ELSE link[c].in["clnt"] \o buf

CalcAsks(c) ==
  /\ cpc[c] \in {"off", "ask"} => link[c].in["serv"] = <<>> /\ (cur = c => spc = "read")
  /\ cpc[c] \notin {"off", "ask"} =>
       /\ asked[c] \in Requests
       /\ spc \in {"accept", "read"} =>
            Begins(link[c].in["serv"] \o out[c], Request(asked[c]))
       /\ cur = c /\ spc # "read" => Begins(heard, Request(asked[c]))

CalcGets(c) ==
  /\ link[c].in["clnt"] # <<>> \/ cpc[c] = "done" => cur = c /\ spc \in Told
  /\ cur = c /\ spc \in Told /\ heard = Request(asked[c]) =>
       \E a \in Seq(Nat) : Right(a, asked[c]) /\ Begins(Shows(c), a)

CalcOf(c) == CalcAsks(c) /\ CalcGets(c)

CalcAll == CalcTypeOK /\ CalcMain /\ \A c \in Clients : CalcOf(c)

CalcInv == program = "op_server" => CalcAll

LEMMA CalcTypes ==
  ASSUME CalcTypeOK, NEW c \in Clients
  PROVE  /\ link[c] \in Links /\ link[c].in["clnt"] \in Seq(Nat)
         /\ link[c].in["serv"] \in Seq(Nat) /\ out[c] \in Seq(Nat) /\ got[c] \in Seq(Nat)
         /\ asked[c] \in Requests \cup {<<>>} /\ buf \in Seq(Nat) /\ heard \in Seq(Nat)
         /\ cpc[c] \in {"off", "ask", "write", "read", "done", "lost"}
BY DEF CalcTypeOK, Links, Ends

LEMMA CalcFrame ==
  ASSUME NEW d \in Clients, CalcOf(d), link'[d] = link[d], out'[d] = out[d], got'[d] = got[d],
         cpc'[d] = cpc[d], asked'[d] = asked[d], UNCHANGED serv
  PROVE  CalcOf(d)'
BY DEF CalcOf, CalcAsks, CalcGets, Shows, serv

LEMMA CalcClientStep ==
  ASSUME CalcAll, NEW c \in Clients, CalcTypeOK', CalcOf(c)', UNCHANGED serv,
         \A d \in Clients \ {c} :
           /\ link'[d] = link[d] /\ out'[d] = out[d] /\ got'[d] = got[d]
           /\ cpc'[d] = cpc[d] /\ asked'[d] = asked[d]
  PROVE  CalcAll'
<1>1. ASSUME NEW d \in Clients \ {c} PROVE CalcOf(d)'
  BY CalcFrame DEF CalcAll
<1>2. CalcMain'
  BY DEF CalcAll, CalcMain, serv
<1> QED BY <1>1, <1>2 DEF CalcAll

LEMMA CalcConnect ==
  ASSUME CalcAll, NEW c \in Clients, Connect(c, "ask")
  PROVE  CalcAll'
<1>1. /\ cpc[c] = "off" /\ cpc' = [cpc EXCEPT ![c] = "ask"] /\ waiting' = waiting \cup {c}
      /\ UNCHANGED <<link, serv, out, got, asked>>
  BY DEF Connect, Gotoc
<1>2. CalcTypeOK /\ CalcOf(c)
  BY DEF CalcAll
<1>3. CalcTypeOK' /\ cpc'[c] = "ask" /\ \A d \in Clients \ {c} : cpc'[d] = cpc[d]
  BY <1>1, <1>2 DEF CalcTypeOK, serv
<1>4. CalcOf(c)'
  BY <1>1, <1>2, <1>3 DEF CalcOf, CalcAsks, CalcGets, Shows, serv
<1> QED BY <1>1, <1>3, <1>4, CalcClientStep

LEMMA CalcType ==
  ASSUME CalcAll, NEW c \in Clients, TypeRequest(c)
  PROVE  CalcAll'
<1>1. PICK n \in 0..MaxCount, op \in {Plus, Times, Letter} :
        \E xs \in [1..n -> Operands] :
          /\ asked' = [asked EXCEPT ![c] = [operands |-> xs, op |-> op]]
          /\ out' = [out EXCEPT ![c] = Request([operands |-> xs, op |-> op])]
  BY DEF TypeRequest
<1>2. PICK xs \in [1..n -> Operands] :
        /\ asked' = [asked EXCEPT ![c] = [operands |-> xs, op |-> op]]
        /\ out' = [out EXCEPT ![c] = Request([operands |-> xs, op |-> op])]
  BY <1>1
<1> DEFINE q == [operands |-> xs, op |-> op]
<1>3. q \in Requests
  <2>1. n \in Nat /\ n <= MaxCount
    BY CalculatorAssumption
  <2>2. xs \in Seq(Operands) /\ Len(xs) = n
    BY <2>1
  <2> QED BY <2>1, <2>2 DEF Requests
<1>4. asked' = [asked EXCEPT ![c] = q] /\ out' = [out EXCEPT ![c] = Request(q)]
  BY <1>2
<1> HIDE DEF q
<1>5. /\ cpc[c] = "ask" /\ cpc' = [cpc EXCEPT ![c] = "write"]
      /\ UNCHANGED <<link, waiting, serv, got>>
  BY DEF TypeRequest, Gotoc
<1>6. CalcTypeOK /\ CalcOf(c) /\ Request(q) \in Seq(Nat)
  BY <1>3, RequestIs DEF CalcAll
<1>7. /\ CalcTypeOK' /\ cpc'[c] = "write" /\ asked'[c] = q /\ out'[c] = Request(q)
      /\ \A d \in Clients \ {c} : cpc'[d] = cpc[d] /\ asked'[d] = asked[d] /\ out'[d] = out[d]
  BY <1>3, <1>4, <1>5, <1>6 DEF CalcTypeOK, serv
<1>8. <<>> \o Request(q) = Request(q) /\ Begins(Request(q), Request(q))
  BY <1>6 DEF Begins
<1>9. link[c].in["serv"] = <<>> /\ (cur = c => spc = "read") /\ link[c].in["clnt"] = <<>>
  BY <1>5, <1>6 DEF CalcOf, CalcAsks, CalcGets, Told, Over
<1>10. CalcAsks(c)'
  BY <1>3, <1>5, <1>7, <1>8, <1>9 DEF CalcAsks, serv
<1>11. CalcGets(c)'
  BY <1>5, <1>7, <1>9 DEF CalcGets, serv, Told, Over
<1> QED BY <1>5, <1>7, <1>10, <1>11, CalcClientStep DEF CalcOf

LEMMA CalcPut ==
  ASSUME CalcAll, NEW c \in Clients, ClientPut(c)
  PROVE  CalcAll'
<1> DEFINE k == link[c]
           x == Head(out[c])
           t == Tail(out[c])
           m == Put(k, "clnt", x)
<1>1. /\ cpc[c] = "write" /\ out[c] # <<>>
      /\ link' = [link EXCEPT ![c] = m] /\ out' = [out EXCEPT ![c] = t]
      /\ UNCHANGED <<waiting, serv, cpc, got, asked>>
  BY DEF ClientPut
<1>2. CalcTypeOK /\ CalcOf(c)
  BY DEF CalcAll
<1>3. k \in Links /\ k.in["serv"] \in Seq(Nat) /\ out[c] \in Seq(Nat)
  BY <1>2, CalcTypes
<1>4. /\ x \in Nat /\ t \in Seq(Nat)
      /\ Append(k.in["serv"], x) \o t = k.in["serv"] \o out[c]
  <2> HIDE DEF k
  <2> QED BY <1>1, <1>3, Shifted
<1>5. /\ m \in Links /\ m.in["clnt"] = k.in["clnt"]
      /\ m.in["serv"] = Append(k.in["serv"], x)
  <2> HIDE DEF k, x
  <2> QED BY <1>3, <1>4, PutLink
<1> HIDE DEF x, t, m
<1>6. /\ CalcTypeOK' /\ link'[c] = m /\ out'[c] = t /\ UNCHANGED <<cpc, asked, got>>
      /\ \A d \in Clients \ {c} : link'[d] = link[d] /\ out'[d] = out[d]
  BY <1>1, <1>2, <1>4, <1>5 DEF CalcTypeOK, serv
<1>7. CalcAsks(c)'
  BY <1>1, <1>2, <1>4, <1>5, <1>6 DEF CalcOf, CalcAsks, serv
<1>8. CalcGets(c)'
  BY <1>1, <1>2, <1>5, <1>6 DEF CalcOf, CalcGets, Shows, serv
<1> QED BY <1>1, <1>6, <1>7, <1>8, CalcClientStep DEF CalcOf

LEMMA CalcGo ==
  ASSUME CalcAll, NEW c \in Clients, NEW l \in {"read", "lost"}, cpc[c] \in {"write", "read"},
         Gotoc(c, l), UNCHANGED <<link, waiting, serv, out, got, asked>>
  PROVE  CalcAll'
<1>1. CalcTypeOK /\ CalcOf(c)
  BY DEF CalcAll
<1>2. CalcTypeOK' /\ cpc'[c] = l /\ \A d \in Clients \ {c} : cpc'[d] = cpc[d]
  BY <1>1 DEF CalcTypeOK, serv, Gotoc
<1>3. CalcOf(c)'
  BY <1>1, <1>2 DEF CalcOf, CalcAsks, CalcGets, Shows, serv
<1> QED BY <1>2, <1>3, CalcClientStep

LEMMA CalcRead ==
  ASSUME CalcAll, NEW c \in Clients, ReadResult(c)
  PROVE  CalcAll'
<1> DEFINE k == link[c]
           i == k.in["clnt"]
<1>1. PICK n \in 1..Len(i) :
        /\ got' = [got EXCEPT ![c] = First(k, "clnt", n)]
        /\ link' = [link EXCEPT ![c] = Close(Drop(k, "clnt", n), "clnt")]
  BY DEF ReadResult
<1>2. /\ cpc[c] = "read" /\ cpc' = [cpc EXCEPT ![c] = "done"]
      /\ UNCHANGED <<waiting, serv, out, asked>>
  BY DEF ReadResult, Gotoc
<1>3. CalcTypeOK /\ CalcOf(c)
  BY DEF CalcAll
<1>4. /\ k \in Links /\ i \in Seq(Nat) /\ asked[c] \in Requests \cup {<<>>}
      /\ buf \in Seq(Nat)
  BY <1>3, CalcTypes
<1>5. n \in 0..Len(i) /\ i # <<>>
  BY <1>4
<1> DEFINE g == SubSeq(i, 1, n)
           m == Close(Drop(k, "clnt", n), "clnt")
<1>6. g \in Seq(Nat)
  <2> HIDE DEF i
  <2> QED BY <1>4, <1>5, SplitLens
<1>7. m \in Links /\ m.in["serv"] = k.in["serv"] /\ m.in["clnt"] = <<>>
  <2> DEFINE r == Drop(k, "clnt", n)
  <2>1. r \in Links /\ r.in["serv"] = k.in["serv"]
    BY <1>4, <1>5, DropLink DEF Ends, Other
  <2> HIDE DEF r
  <2>2. Close(r, "clnt") \in Links /\ Close(r, "clnt").in["serv"] = r.in["serv"]
        /\ Close(r, "clnt").in["clnt"] = <<>>
    BY <2>1, CloseLink DEF Ends, Other
  <2> QED BY <2>1, <2>2 DEF r
<1>8. got' = [got EXCEPT ![c] = g] /\ link' = [link EXCEPT ![c] = m]
  BY <1>1 DEF First
<1>9. \A a \in Seq(Nat) : Begins(i \o buf, a) => Begins(g, a)
  <2> HIDE DEF i
  <2> QED BY <1>4, <1>5, BeginsCut
<1>10. cur = c /\ spc \in Told
  BY <1>3, <1>5 DEF CalcOf, CalcGets
<1>11. heard = Request(asked[c]) => \E a \in Seq(Nat) : Right(a, asked[c]) /\ Begins(g, a)
  BY <1>2, <1>3, <1>9, <1>10 DEF CalcOf, CalcGets, Shows
<1> HIDE DEF g, m
<1>12. /\ CalcTypeOK' /\ link'[c] = m /\ got'[c] = g /\ cpc'[c] = "done"
       /\ \A d \in Clients \ {c} : link'[d] = link[d] /\ got'[d] = got[d] /\ cpc'[d] = cpc[d]
  BY <1>2, <1>3, <1>6, <1>7, <1>8 DEF CalcTypeOK, serv
<1>13. CalcAsks(c)'
  BY <1>2, <1>3, <1>7, <1>12 DEF CalcOf, CalcAsks, serv
<1>14. CalcGets(c)'
  BY <1>2, <1>10, <1>11, <1>12 DEF CalcGets, Shows, serv
<1> QED BY <1>2, <1>12, <1>13, <1>14, CalcClientStep DEF CalcOf

LEMMA CalcClientMoves ==
  ASSUME CalcAll, NEW c \in Clients, CalcClient(c) \/ CalcUser(c)
  PROVE  CalcAll'
<1>1. CASE ClientPutGone(c) \/ ClientSent(c, "read") \/ NoResult(c)
  <2>1. PICK l \in {"read", "lost"} :
          /\ cpc[c] \in {"write", "read"} /\ Gotoc(c, l)
          /\ UNCHANGED <<link, waiting, serv, out, got, asked>>
    BY <1>1 DEF ClientPutGone, ClientSent, NoResult
  <2> QED BY <2>1, CalcGo
<1> QED BY <1>1, CalcConnect, CalcType, CalcPut, CalcRead DEF CalcClient, CalcUser

(* The server of the calculator.  It serves one client only.                 *)
LEMMA CalcServed ==
  ASSUME CalcAll, spc # "accept"
  PROVE  /\ cur \in Clients /\ CalcTypeOK /\ CalcMain /\ CalcOf(cur)
         /\ link[cur] \in Links /\ link[cur].in["clnt"] \in Seq(Nat)
         /\ link[cur].in["serv"] \in Seq(Nat) /\ buf \in Seq(Nat) /\ heard \in Seq(Nat)
<1>1. cur \in Clients /\ CalcTypeOK /\ CalcMain
  BY DEF CalcAll, CalcMain
<1> QED BY <1>1, CalcTypes DEF CalcAll

LEMMA CalcOther ==
  ASSUME NEW d \in Clients, CalcOf(d), cur # d, cur' = cur, UNCHANGED clnt,
         link'[d].in["clnt"] = link[d].in["clnt"],
         link'[d].in["serv"] \in {link[d].in["serv"], <<>>},
         spc' \notin {"accept", "read"}
  PROVE  CalcOf(d)'
BY DEF CalcOf, CalcAsks, CalcGets, Shows, clnt

LEMMA CalcServerStep ==
  ASSUME CalcAll, NEW c \in Clients, cur = c, cur' = cur, UNCHANGED <<waiting, clnt>>,
         CalcTypeOK', CalcOf(c)', spc' \in {"compute"} \cup Told,
         \A d \in Clients \ {c} :
           /\ link'[d].in["clnt"] = link[d].in["clnt"]
           /\ link'[d].in["serv"] \in {link[d].in["serv"], <<>>}
  PROVE  CalcAll'
<1>1. ASSUME NEW d \in Clients \ {c} PROVE CalcOf(d)'
  <2>1. CalcOf(d) /\ cur # d /\ spc' \notin {"accept", "read"}
    BY DEF CalcAll, Told, Over
  <2> QED BY <2>1, CalcOther
<1>2. CalcMain'
  BY DEF CalcMain, Told, Over
<1> QED BY <1>1, <1>2 DEF CalcAll

LEMMA CalcAccept ==
  ASSUME CalcAll, Accept("read")
  PROVE  CalcAll'
<1>1. PICK c \in waiting : cur' = c /\ waiting' = waiting \ {c}
  BY DEF Accept
<1>2. /\ spc = "accept" /\ spc' = "read" /\ heard' = <<>> /\ UNCHANGED <<link, buf, clnt>>
  BY DEF Accept
<1>3. CalcTypeOK /\ CalcMain /\ c \in Clients /\ cur = None /\ None \notin Clients
  BY <1>1, <1>2, SessionAssumption DEF CalcAll, CalcTypeOK, CalcMain
<1>4. CalcTypeOK' /\ CalcMain'
  BY <1>1, <1>2, <1>3 DEF CalcTypeOK, CalcMain, clnt
<1>5. ASSUME NEW d \in Clients PROVE CalcOf(d)'
  <2>1. CalcOf(d) /\ cur # d
    BY <1>3 DEF CalcAll
  <2> QED BY <1>1, <1>2, <2>1 DEF CalcOf, CalcAsks, CalcGets, clnt, Told, Over
<1> QED BY <1>4, <1>5 DEF CalcAll

LEMMA CalcHear ==
  ASSUME CalcAll, NEW c \in Clients, c = cur, ReadRequest
  PROVE  CalcAll'
<1> DEFINE k == link[c]
           i == k.in["serv"]
<1>1. PICK n \in 1..Len(i) :
        heard' = SubSeq(i, 1, n) /\ link' = [link EXCEPT ![c] = Drop(k, "serv", n)]
  BY DEF ReadRequest, First
<1>2. spc = "read" /\ spc' = "compute" /\ UNCHANGED <<waiting, cur, buf, clnt>>
  BY DEF ReadRequest
<1>3. CalcTypeOK /\ CalcOf(c) /\ k \in Links /\ i \in Seq(Nat) /\ out[c] \in Seq(Nat)
  <2>1. spc # "accept"
    BY <1>2
  <2> QED BY <2>1, CalcServed, CalcTypes
<1>4. n \in 0..Len(i) /\ i # <<>>
  BY <1>3
<1>5. cpc[c] \notin {"off", "ask"} /\ asked[c] \in Requests /\ Begins(i \o out[c], Request(asked[c]))
  BY <1>2, <1>3, <1>4 DEF CalcOf, CalcAsks
<1>6. Request(asked[c]) \in Seq(Nat)
  BY <1>5, RequestIs
<1> DEFINE h == SubSeq(i, 1, n)
           m == Drop(k, "serv", n)
<1>7. h \in Seq(Nat) /\ Begins(h, Request(asked[c]))
  <2> DEFINE a == Request(asked[c])
  <2> HIDE DEF i, a
  <2>1. Begins(i \o out[c], a) /\ a \in Seq(Nat)
    BY <1>5, <1>6 DEF a
  <2>2. SubSeq(i, 1, n) \in Seq(Nat) /\ Begins(SubSeq(i, 1, n), a)
    BY <1>3, <1>4, <2>1, BeginsCut
  <2> QED BY <2>2 DEF a
<1>8. m \in Links /\ m.in["clnt"] = k.in["clnt"]
  BY <1>3, <1>4, DropLink DEF Ends, Other
<1>9. heard' = h /\ link' = [link EXCEPT ![c] = m]
  BY <1>1
<1> HIDE DEF h, m
<1>10. /\ CalcTypeOK' /\ link'[c] = m /\ UNCHANGED <<cpc, asked>>
       /\ \A d \in Clients \ {c} : link'[d] = link[d]
  BY <1>2, <1>3, <1>7, <1>8, <1>9 DEF CalcTypeOK, clnt
<1>11. CalcAsks(c)'
  BY <1>2, <1>5, <1>7, <1>9, <1>10 DEF CalcAsks
<1>12. CalcGets(c)'
  BY <1>2, <1>3, <1>8, <1>10 DEF CalcOf, CalcGets, Told, Over
<1> QED BY <1>2, <1>10, <1>11, <1>12, CalcServerStep DEF CalcOf

LEMMA CalcCompute ==
  ASSUME CalcAll, NEW c \in Clients, c = cur, Compute
  PROVE  CalcAll'
<1>1. spc = "compute" /\ spc' = "write" /\ UNCHANGED <<link, waiting, cur, heard, clnt>>
  BY DEF Compute
<1>2. CalcTypeOK /\ CalcOf(c) /\ heard \in Seq(Nat)
  <2>1. spc # "accept"
    BY <1>1
  <2> QED BY <2>1, CalcServed
<1>3. /\ cpc[c] \notin {"off", "ask", "done"} /\ link[c].in["clnt"] = <<>>
      /\ asked[c] \in Requests /\ Begins(heard, Request(asked[c]))
  BY <1>1, <1>2 DEF CalcOf, CalcAsks, CalcGets, Told, Over
<1>4. buf' \in Seq(Nat) /\ (heard = Request(asked[c]) => Right(buf', asked[c]))
  BY <1>2, <1>3, ComputeRight
<1>5. CalcTypeOK'
  BY <1>1, <1>2, <1>4 DEF CalcTypeOK, clnt
<1>6. CalcAsks(c)'
  BY <1>1, <1>3 DEF CalcAsks, clnt
<1>7. CalcGets(c)'
  <2>1. /\ cpc' = cpc /\ asked' = asked /\ link'[c].in["clnt"] = <<>> /\ heard' = heard
        /\ cur' = c /\ spc' \in Told
    BY <1>1, <1>3 DEF clnt, Told
  <2>2. Shows(c)' = buf' /\ Begins(buf', buf')
    BY <1>3, <1>4, <2>1 DEF Shows, Begins
  <2> QED BY <1>3, <1>4, <2>1, <2>2 DEF CalcGets
<1> QED BY <1>1, <1>5, <1>6, <1>7, CalcServerStep DEF CalcOf, Told

LEMMA CalcAnswer ==
  ASSUME CalcAll, NEW c \in Clients, c = cur, ServerPut
  PROVE  CalcAll'
<1> DEFINE k == link[c]
           i == k.in["clnt"]
           x == Head(buf)
           t == Tail(buf)
           m == Put(k, "serv", x)
<1>1. /\ spc = "write" /\ buf # <<>> /\ link' = [link EXCEPT ![c] = m] /\ buf' = t
      /\ ~Gone(k, "serv") /\ UNCHANGED <<waiting, spc, cur, heard, clnt>>
  BY DEF ServerPut, CanPut
<1>2. CalcTypeOK /\ CalcOf(c) /\ k \in Links /\ i \in Seq(Nat) /\ buf \in Seq(Nat)
  <2>1. spc # "accept"
    BY <1>1
  <2> QED BY <2>1, CalcServed
<1>3. x \in Nat /\ t \in Seq(Nat) /\ Append(i, x) \o t = i \o buf
  <2> HIDE DEF i
  <2> QED BY <1>1, <1>2, Shifted
<1>4. m \in Links /\ m.in["clnt"] = Append(i, x) /\ m.in["serv"] = k.in["serv"]
  <2> HIDE DEF k, x
  <2> QED BY <1>2, <1>3, PutLink DEF k
<1> HIDE DEF x, t, m
<1>5. /\ CalcTypeOK' /\ link'[c] = m /\ UNCHANGED <<cpc, asked, got>>
      /\ \A d \in Clients \ {c} : link'[d] = link[d]
  BY <1>1, <1>2, <1>3, <1>4 DEF CalcTypeOK, clnt
<1>6. CalcAsks(c)'
  BY <1>1, <1>2, <1>4, <1>5 DEF CalcOf, CalcAsks, clnt
<1>7. CalcGets(c)'
  <2>1. Shows(c)' = Shows(c)
    BY <1>1, <1>3, <1>4, <1>5 DEF Shows
  <2>2. spc \in Told
    BY <1>1 DEF Told
  <2> QED BY <1>1, <1>2, <1>5, <2>1, <2>2 DEF CalcOf, CalcGets
<1> QED BY <1>1, <1>2, <1>5, <1>6, <1>7, CalcServerStep DEF CalcOf, Told

(* The server has written, or it ends: what is under way stays.              *)
LEMMA CalcStop ==
  ASSUME CalcAll, NEW c \in Clients, c = cur, spc \in {"compute", "write"}, cur' = cur,
         spc' \in Told, heard' = heard, UNCHANGED <<waiting, clnt>>,
         buf' \in {buf, <<>>}, link' \in [Clients -> Links],
         \A d \in Clients : /\ link'[d].in["clnt"] = link[d].in["clnt"]
                            /\ link'[d].in["serv"] \in {link[d].in["serv"], <<>>},
         spc = "compute" => Len(heard) < IntSize
  PROVE  CalcAll'
<1> DEFINE i == link[c].in["clnt"]
<1>1. /\ CalcTypeOK /\ CalcOf(c) /\ i \in Seq(Nat) /\ buf \in Seq(Nat)
      /\ heard \in Seq(Nat)
  <2>1. spc # "accept"
    OBVIOUS
  <2> QED BY <2>1, CalcServed
<1>2. CalcTypeOK'
  <2>1. buf' \in Seq(Nat)
    <3>1. buf' = buf \/ buf' = <<>>
      OBVIOUS
    <3>2. CASE buf' = buf
      BY <1>1, <3>2
    <3>3. CASE buf' = <<>>
      BY <3>3
    <3> QED BY <3>1, <3>2, <3>3
  <2>2. link' \in [Clients -> Links] /\ UNCHANGED <<waiting, cur, heard, cpc, out, got, asked>>
    BY DEF clnt
  <2> QED BY <1>1, <2>1, <2>2 DEF CalcTypeOK
<1>3. CalcAsks(c)'
  BY <1>1 DEF CalcOf, CalcAsks, clnt, Told, Over
<1>4. CASE spc = "compute"
  <2>1. asked[c] \in Requests
    BY <1>1, <1>4 DEF CalcOf, CalcAsks
  <2>2. heard # Request(asked[c])
    <3> DEFINE n == Len(asked[c].operands)
    <3>1. n \in Nat /\ Len(Request(asked[c])) = IntSize * (n + 1) + 1
      BY <2>1, RequestIs
    <3>2. IntSize * (n + 1) + 1 >= IntSize /\ IntSize \in Nat
      <4>1. IntSize * (n + 1) = IntSize * n + IntSize /\ IntSize * n \in Nat
        BY <3>1, CalculatorAssumption
      <4> HIDE DEF n
      <4> QED BY <4>1, CalculatorAssumption
    <3> QED BY <1>4, <3>1, <3>2
  <2>3. i = <<>> /\ cpc[c] # "done"
    BY <1>1, <1>4 DEF CalcOf, CalcGets, Told, Over
  <2>4. CalcGets(c)'
    BY <2>2, <2>3 DEF CalcGets, clnt
  <2> QED BY <1>2, <1>3, <2>4, CalcServerStep DEF CalcOf
<1>5. CASE spc = "write"
  <2>1. \A a \in Seq(Nat) : Begins(i \o buf, a) => Begins(i \o buf', a)
    <3> HIDE DEF i
    <3>1. CASE buf' = buf
      BY <3>1
    <3>2. CASE buf' = <<>>
      <4>1. i \o <<>> = SubSeq(i, 1, Len(i)) /\ Len(i) \in 0..Len(i)
        BY <1>1
      <4> QED BY <1>1, <3>2, <4>1, BeginsCut
    <3> QED BY <3>1, <3>2
  <2>2. spc \in Told /\ UNCHANGED <<cpc, got, asked>> /\ link'[c].in["clnt"] = i
    BY <1>5 DEF Told, clnt
  <2>3. \A a \in Seq(Nat) : Begins(Shows(c), a) => Begins(Shows(c)', a)
    BY <2>1, <2>2 DEF Shows
  <2>4. CalcGets(c)'
    BY <1>1, <2>2, <2>3 DEF CalcOf, CalcGets
  <2> QED BY <1>2, <1>3, <2>4, CalcServerStep DEF CalcOf
<1> QED BY <1>4, <1>5

LEMMA CalcExit ==
  ASSUME CalcAll, NEW p, Exit(p, link), spc # "accept"
  PROVE  /\ link' \in [Clients -> Links] /\ spc' = p
         /\ \A d \in Clients : /\ link'[d].in["clnt"] = link[d].in["clnt"]
                               /\ link'[d].in["serv"] \in {link[d].in["serv"], <<>>}
<1>1. /\ spc' = p
      /\ link' = [d \in Clients |-> CASE d \in waiting -> Refused(link[d])
                                      [] d = cur -> Close(link[d], "serv")
                                      [] OTHER -> link[d]]
  BY DEF Exit
<1>2. ASSUME NEW d \in Clients
      PROVE  /\ link[d] \in Links
             /\ Refused(link[d]) \in Links
             /\ Refused(link[d]).in["clnt"] = link[d].in["clnt"]
             /\ Refused(link[d]).in["serv"] = <<>>
             /\ Close(link[d], "serv") \in Links
             /\ Close(link[d], "serv").in["clnt"] = link[d].in["clnt"]
             /\ Close(link[d], "serv").in["serv"] = <<>>
  <2>1. link[d] \in Links
    BY DEF CalcAll, CalcTypeOK
  <2> QED BY <2>1, RefusedLink, CloseLink DEF Ends, Other
<1> QED BY <1>1, <1>2

LEMMA CalcServerMoves ==
  ASSUME CalcAll, CalcServer
  PROVE  CalcAll'
<1>1. CASE Accept("read")
  BY <1>1, CalcAccept
<1>2. CASE ~Accept("read")
  <2>1. spc # "accept"
    BY <1>2 DEF CalcServer, ReadRequest, Compute, CountCut, ServerPut, ServerPutGone, CalcEnd
  <2>2. PICK c \in Clients : c = cur
    BY <2>1, CalcServed
  <2>3. CASE ReadRequest \/ Compute \/ ServerPut
    BY <2>2, <2>3, CalcHear, CalcCompute, CalcAnswer
  <2>4. CASE CountCut \/ CalcEnd
    <3>1. PICK p \in {"failed", "ended"} : Exit(p, link)
      BY <2>4 DEF CountCut, CalcEnd
    <3>2. /\ spc \in {"compute", "write"} /\ UNCHANGED <<waiting, cur, buf, heard, clnt>>
          /\ spc = "compute" => Len(heard) < IntSize
      BY <2>4 DEF CountCut, CalcEnd
    <3>3. p \in Told
      BY DEF Told, Over
    <3> QED BY <2>1, <2>2, <3>1, <3>2, <3>3, CalcExit, CalcStop
  <2>5. CASE ServerPutGone(TRUE, <<>>)
    <3>1. /\ spc = "write" /\ buf' = <<>> /\ UNCHANGED <<waiting, cur, heard, clnt>>
      BY <2>5 DEF ServerPutGone
    <3>2. PICK k \in PutGone(link[c], "serv") :
            \/ link' = [link EXCEPT ![c] = k] /\ UNCHANGED spc
            \/ \E p \in {"killed", "failed"} : Exit(p, link)
      BY <2>2, <2>5 DEF ServerPutGone
    <3>3. CASE link' = [link EXCEPT ![c] = k] /\ UNCHANGED spc
      <4>1. link \in [Clients -> Links] /\ link[c] \in Links
        BY DEF CalcAll, CalcTypeOK
      <4>2. k \in Links /\ k.in = link[c].in
        BY <4>1, NotePut DEF Ends
      <4>3. /\ link' \in [Clients -> Links]
            /\ \A d \in Clients : link'[d].in = link[d].in
        BY <3>3, <4>1, <4>2
      <4>4. spc' \in Told
        BY <3>1, <3>3 DEF Told
      <4> QED BY <2>2, <3>1, <4>3, <4>4, CalcStop
    <3>4. CASE \E p \in {"killed", "failed"} : Exit(p, link)
      <4>1. PICK p \in {"killed", "failed"} : Exit(p, link)
        BY <3>4
      <4>2. p \in Told
        BY DEF Told, Over
      <4> QED BY <2>1, <2>2, <3>1, <4>1, <4>2, CalcExit, CalcStop
    <3> QED BY <3>2, <3>3, <3>4
  <2> QED BY <1>2, <2>3, <2>4, <2>5 DEF CalcServer
<1> QED BY <1>1, <1>2

LEMMA CalcInit ==
  ASSUME Init
  PROVE  CalcInv
<1>1. SUFFICES ASSUME SessionInit PROVE CalcAll
  BY DEF CalcInv, Init
<1>2. CalcTypeOK
  BY <1>1, NewLinkType DEF SessionInit, CalcTypeOK
<1>3. CalcMain
  BY <1>1, SessInit DEF CalcMain
<1>4. ASSUME NEW c \in Clients PROVE CalcOf(c)
  <2>1. /\ link[c].in["serv"] = <<>> /\ link[c].in["clnt"] = <<>> /\ cpc[c] = "off" /\ cur # c
    BY <1>1, SessInit, SessionAssumption
  <2> QED BY <2>1 DEF CalcOf, CalcAsks, CalcGets
<1> QED BY <1>2, <1>3, <1>4 DEF CalcAll

LEMMA CalcNext ==
  ASSUME CalcInv, [Next]_vars
  PROVE  CalcInv'
<1>1. CASE UNCHANGED vars
  <2>1. CalcAll => CalcAll'
    <3>1. SUFFICES ASSUME CalcAll PROVE CalcAll'
      OBVIOUS
    <3>2. CalcTypeOK' /\ CalcMain'
      BY <1>1, <3>1 DEF vars, serv, clnt, CalcAll, CalcTypeOK, CalcMain
    <3>3. ASSUME NEW d \in Clients PROVE CalcOf(d)'
      <4>1. CalcOf(d)
        BY <3>1 DEF CalcAll
      <4> QED BY <1>1, <4>1, CalcFrame DEF vars, clnt
    <3> QED BY <3>2, <3>3 DEF CalcAll
  <2> QED BY <1>1, <2>1 DEF CalcInv, vars
<1>2. CASE Next
  <2>1. program' = program
    BY <1>2 DEF Next
  <2>2. SUFFICES ASSUME program = "op_server", CalcAll PROVE CalcAll'
    BY <2>1 DEF CalcInv
  <2>3. program \notin EchoPrograms /\ program \notin TransferPrograms
    BY <2>2, Kinds
  <2>4. CASE Server
    BY <2>2, <2>3, <2>4, CalcServerMoves DEF Server
  <2>5. ASSUME NEW c \in Clients, Client(c) \/ Writer(c) \/ User(c) PROVE CalcAll'
    BY <2>2, <2>3, <2>5, CalcClientMoves DEF Client, Writer, User
  <2> QED BY <1>2, <2>4, <2>5 DEF Next
<1> QED BY <1>1, <1>2

(* When TCP cut neither the request nor the answer, and int held all of it,  *)
(* the client of op_server shows what its user asked for; of an operator     *)
(* that is not known it is shown the refusal's first bytes.                  *)
THEOREM CalculatorAnswers == Spec => []AnswerRight
<1>1. CalcInv => AnswerRight
  <2>1. SUFFICES ASSUME program = "op_server", CalcAll, NEW c \in Clients, cpc[c] = "done",
                        heard = Request(asked[c]), Len(got[c]) = IntSize
                 PROVE  LET q == asked[c]  n == Len(q.operands) IN
                        IF q.op \in {Plus, Times}
                        THEN (\A j \in 0..n : Value(q)[j] \in Ints) =>
                               got[c] = Encoded(Value(q)[n])
                        ELSE got[c] = SubSeq(Refusal, 1, IntSize)
    BY DEF CalcInv, AnswerRight
  <2> DEFINE q == asked[c]
             n == Len(q.operands)
             g == got[c]
  <2>2. CalcTypeOK /\ CalcAsks(c) /\ CalcGets(c) /\ g \in Seq(Nat)
    BY <2>1 DEF CalcAll, CalcOf, CalcTypeOK
  <2>3. q \in Requests
    BY <2>1, <2>2 DEF CalcAsks
  <2>4. PICK a \in Seq(Nat) : Right(a, q) /\ Begins(g, a)
    BY <2>1, <2>2 DEF CalcGets, Shows
  <2>5. IntSize \in 0..Len(g) /\ n \in Nat /\ IntSize \in Nat
    BY <2>1, <2>3, RequestIs, CalculatorAssumption
  <2> HIDE DEF g
  <2>6. g = SubSeq(g, 1, IntSize) /\ SubSeq(g, 1, IntSize) = SubSeq(a, 1, IntSize)
    <3>1. Len(g) = IntSize
      BY <2>1 DEF g
    <3>2. g = SubSeq(g, 1, Len(g))
      BY <2>2
    <3> QED BY <2>2, <2>4, <2>5, <3>1, <3>2, BeginsOf
  <2>7. ASSUME q.op \in {Plus, Times}, \A j \in 0..n : Value(q)[j] \in Ints
        PROVE  g = Encoded(Value(q)[n])
    <3> DEFINE v == Value(q)[n]
    <3>1. v \in Ints /\ a = Encoded(v)
      BY <2>4, <2>5, <2>7 DEF Right
    <3> HIDE DEF v
    <3>2. Encoded(v) \in Seq(Nat) /\ Len(Encoded(v)) = IntSize
      BY <3>1, EncodedIs
    <3>3. Encoded(v) = SubSeq(Encoded(v), 1, Len(Encoded(v)))
      BY <3>2
    <3> QED BY <2>6, <3>1, <3>2, <3>3 DEF v
  <2>8. ASSUME q.op \notin {Plus, Times} PROVE g = SubSeq(Refusal, 1, IntSize)
    BY <2>4, <2>6, <2>8 DEF Right
  <2> QED BY <2>7, <2>8 DEF g
<1> QED BY <1>1, CalcInit, CalcNext, PTL DEF Spec
=============================================================================

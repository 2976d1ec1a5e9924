-------------------------------- MODULE News --------------------------------
(***************************************************************************)
(* Programs that only send, and those that receive from them:              *)
(*   news_sender      ch14, multicast, with fgets; news_receiver           *)
(*   news_sender_brd  ch14, broadcast, with getline; news_receiver_brd     *)
(*   bound_host2      ch6, three messages; bound_host1                     *)
(* A character is named by its place in the text; NL ends a line.          *)
(***************************************************************************)
EXTENDS Datagram, Functions, FiniteSetsExt

CONSTANTS
  Receivers,    \* the hosts that print news
  Files         \* bound: the texts that are sent

NL == 0
NUL == -1

ASSUME NewsAssumption ==
  /\ Receivers \subseteq Hosts
  /\ \A f \in Files : f \in Seq(Nat) /\ f # <<>> /\ \A i \in DOMAIN f : f[i] \in {i, NL}

VARIABLES
  file, pos,    \* what is to send; how much of it was read
  last, more,   \* the buffer; the loop goes on
  joined, seen, \* per receiver: it runs; the bag of the texts it printed
  str,          \* per receiver: its buffer, of which news_receiver_brd prints
                \* every byte; the others print no further than the NUL
  again,        \* history, per receiver: what it printed behind the NUL
  early         \* history: receivers that ran before the first was sent

sender == <<file, pos, last, more>>
page   == <<seen, str, again>>
news   == <<sender, joined, page, early>>

NewsPrograms == {"news_sender", "news_sender_brd", "bound_host2"}

Least(m, n) == Min({m, n})

(* The datagrams of a bag that are in D, each as often as it is there.      *)
Units(bag, D) == UNION {{d} \X (1..bag[d]) : d \in D \cap DOMAIN bag}

PageInit ==
  /\ seen = [r \in Receivers |-> EmptyBag]
  /\ str = [r \in Receivers |-> [j \in 1..BUF_SIZE |-> NUL]]
  /\ again = [r \in Receivers |-> {}]

NewsInit ==
  /\ file \in IF program = "bound_host2" THEN {<<1, NL, 3, NL, 5, NL>>} ELSE Files
  /\ pos = 0 /\ last = <<>> /\ more = TRUE
  /\ joined = {} /\ PageInit /\ early = {}

-----------------------------------------------------------------------------
Rest == SubSeq(file, pos + 1, Len(file))
Breaks == {i \in DOMAIN Rest : Rest[i] = NL}
LineEnd == IF Breaks = {} THEN Len(Rest) ELSE Min(Breaks)

SendToAll(data) ==
  /\ Send({Packet(r, "to", data) : r \in joined})
  /\ last' = data
  /\ UNCHANGED <<file, joined, page, early>>

(* fgets stops at a NL or when the buffer is full; only when it meets the   *)
(* end before either does feof become true.  If there is nothing to read,   *)
(* the buffer stays as it was and is sent again.                            *)
SendChunk ==
  /\ program = "news_sender" /\ more
  /\ LET n == Least(LineEnd, BUF_SIZE - 1) IN
       /\ SendToAll(IF Rest = <<>> THEN last ELSE SubSeq(Rest, 1, n))
       /\ pos' = pos + n
       /\ more' = (Rest # <<>> /\ (n = BUF_SIZE - 1 \/ Rest[n] = NL))

(* getline, which drops the NL, and the messages of bound_host2.            *)
SendWhole ==
  /\ program # "news_sender" /\ more /\ Rest # <<>>
  /\ SendToAll(SubSeq(Rest, 1, IF Breaks = {} THEN LineEnd ELSE LineEnd - 1))
  /\ pos' = pos + LineEnd
  /\ UNCHANGED more

SendEnd ==
  /\ program # "news_sender" /\ more /\ Rest = <<>>
  /\ more' = FALSE
  /\ UNCHANGED <<network, file, pos, last, joined, page, early>>

(* bind, and for multicast IP_ADD_MEMBERSHIP.                               *)
Bind(r) ==
  /\ r \notin joined /\ seen[r] = EmptyBag
  /\ joined' = joined \cup {r}
  /\ early' = IF pos = 0 THEN early \cup {r} ELSE early
  /\ UNCHANGED <<network, sender, page>>

CutShort(data) ==    \* one less, as the sender's buffer
  SubSeq(data, 1, Least(Len(data), BUF_SIZE - 2))

(* What does not fit the buffer of recvfrom is dropped.                     *)
Cut(data) == SubSeq(data, 1, Least(Len(data), BUF_SIZE - 1))

(* The buffer after recvfrom has put text into it and the NUL behind it.    *)
Overwritten(old, text) ==
  [j \in 1..BUF_SIZE |-> IF j <= Len(text) THEN text[j]
                         ELSE IF j = Len(text) + 1 THEN NUL ELSE old[j]]

Leftovers(old, text) ==
  {[len |-> Len(text), col |-> j, char |-> old[j]] :
     j \in {j \in Len(text) + 2..BUF_SIZE : old[j] # NUL}}

(* The string of news_receiver_brd keeps its size, so that the end of an    *)
(* earlier, longer text is printed behind the NUL of this one.              *)
PrintText(r, text) ==
  /\ seen' = [seen EXCEPT ![r] = @ (+) SetToBag({text})]
  /\ IF program = "news_sender_brd"
     THEN /\ str' = [str EXCEPT ![r] = Overwritten(@, text)]
          /\ again' = [again EXCEPT ![r] = @ \cup Leftovers(str[r], text)]
     ELSE UNCHANGED <<str, again>>

(* The receivers of news go on for ever, bound_host1 prints three.          *)
PrintNews(r) ==
  /\ r \in joined
  /\ \E p \in DOMAIN net : p.of = r /\ Take(p) /\ PrintText(r, Cut(p.data))
  /\ joined' = IF program = "bound_host2" /\ Cardinality(Units(seen'[r], DOMAIN seen'[r])) = 3
               THEN joined \ {r} ELSE joined
  /\ UNCHANGED <<sender, early>>

NewsNext ==
  \/ SendChunk \/ SendWhole \/ SendEnd
  \/ \E r \in Receivers : Bind(r) \/ PrintNews(r)
  \/ Trouble /\ UNCHANGED news

-----------------------------------------------------------------------------
(* A receiver that ran from the start and missed nothing prints the whole   *)
(* text.  news_sender_brd sends whole lines, of which only what fits the    *)
(* receivers' buffer is printed; news_sender cuts them to that size, and    *)
(* sends its last piece twice if the file ends with it, by a NL or by a     *)
(* full buffer.  No text is printed more often than that and as many times  *)
(* as datagrams intruded; but the characters behind the NUL, which only     *)
(* news_receiver_brd prints, come again as often as a text ends left of     *)
(* them: each in the column where a text that was printed before had it.    *)
StartOf(i) == Max({0} \cup {k \in 1..i : file[k] = NL})
EndOf(i)   == Min({Len(file)} \cup {k \in i..Len(file) : file[k] = NL})
Column(i)  == i - StartOf(i)

Piece(n) == (n - 1) \div (BUF_SIZE - 1)    \* of a line, that column n is in

SentTwice(i) ==
  LET size == EndOf(i) - StartOf(i) IN
  /\ program = "news_sender" /\ EndOf(i) = Len(file)
  /\ Piece(Column(i)) = Piece(size)
  /\ file[Len(file)] = NL \/ size % (BUF_SIZE - 1) = 0

Copies(i) ==
  CASE SentTwice(i) -> 2
    [] program = "news_sender_brd" /\ Column(i) >= BUF_SIZE -> 0
    [] OTHER -> 1

Printed(r, x) ==
  Cardinality(Units(seen[r], {d \in DOMAIN seen[r] : x \in Range(d)}))

LeftOver(r, e) ==
  /\ program = "news_sender_brd" /\ e.len + 1 < e.col
  /\ \E d \in DOMAIN seen[r] : e.col \in DOMAIN d /\ d[e.col] = e.char

NewsWhole ==
  program \in NewsPrograms => \A r \in Receivers :
    /\ \A i \in DOMAIN file : file[i] # NL =>
         /\ Printed(r, file[i]) <= Copies(i) + extra[r]
         /\ ~more /\ r \in early \ lost /\ extra[r] = 0 /\ ~OnItsWay(r)
              => Printed(r, file[i]) = Copies(i)
    /\ \A e \in again[r] : LeftOver(r, e)
=============================================================================

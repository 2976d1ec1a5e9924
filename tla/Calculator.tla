----------------------------- MODULE Calculator -----------------------------
(***************************************************************************)
(* ch5/op_client.cpp sends a count, as many operands and an operator; the  *)
(* server, ch5/op_server.cpp, reads once, computes and writes the result.  *)
(* A piece is a byte here.                                                 *)
(***************************************************************************)
EXTENDS Session

CONSTANTS
  Base,         \* values of a byte, 256
  IntSize,      \* bytes of an int, 4
  Operands,     \* bound: the operands that are typed
  MaxCount      \* bound: how many

Power[k \in 0..IntSize] == IF k = 0 THEN 1 ELSE Base * Power[k - 1]

Width == Power[IntSize]
Ints  == -(Width \div 2) .. Width \div 2 - 1

ASSUME CalculatorAssumption ==
  /\ Base \in Nat /\ Base > 3 /\ IntSize \in Nat \ {0}
  /\ Operands \subseteq Ints /\ MaxCount \in 0..Width \div 2 - 1

Plus   == 1    \* the codes of '+', of '*' and of any other character
Times  == 2
Letter == 3

(* htonl and ntohl: the bytes of an int, the high one first, and back.      *)
Encoded(x) == [j \in 1..IntSize |-> ((x % Width) \div Power[IntSize - j]) % Base]
Decoded(b) ==
  LET n[j \in 0..IntSize] == IF j = 0 THEN 0 ELSE n[j - 1] * Base + b[j]
  IN IF n[IntSize] > Width \div 2 - 1 THEN n[IntSize] - Width ELSE n[IntSize]

Words(q) == <<Len(q.operands)>> \o q.operands
Request(q) ==
  LET end == IntSize * Len(Words(q)) IN
  [j \in 1..end + 1 |->
     IF j > end THEN q.op
     ELSE Encoded(Words(q)[(j - 1) \div IntSize + 1])[((j - 1) % IntSize) + 1]]

-----------------------------------------------------------------------------
(* The client                                                               *)

TypeRequest(c) ==
  /\ cpc[c] = "ask"
  /\ \E n \in 0..MaxCount, op \in {Plus, Times, Letter} :
       \E xs \in [1..n -> Operands] :
         LET q == [operands |-> xs, op |-> op] IN
         /\ asked' = [asked EXCEPT ![c] = q]
         /\ out' = [out EXCEPT ![c] = Request(q)]
  /\ Gotoc(c, "write")
  /\ UNCHANGED <<link, waiting, serv, got>>

(* One read, of an int's size; then the program ends.                       *)
ReadResult(c) ==
  /\ cpc[c] = "read"
  /\ \E n \in 1..Len(link[c].in["clnt"]) :
       /\ n <= IntSize
       /\ got' = [got EXCEPT ![c] = First(link[c], "clnt", n)]
       /\ link' = [link EXCEPT ![c] = Close(Drop(@, "clnt", n), "clnt")]
  /\ Gotoc(c, "done")
  /\ UNCHANGED <<waiting, serv, out, asked>>

(* 0 is not looked at: what is printed then was never set.                  *)
NoResult(c) ==
  /\ cpc[c] = "read"
  /\ HasEof(link[c], "clnt") \/ HasError(link[c], "clnt")
  /\ Gotoc(c, "lost")
  /\ UNCHANGED <<link, waiting, serv, out, got, asked>>

CalcUser(c) == Connect(c, "ask") \/ TypeRequest(c)
CalcClient(c) ==
  \/ ClientPut(c) \/ ClientPutGone(c) \/ ClientSent(c, "read")
  \/ ReadResult(c) \/ NoResult(c)

-----------------------------------------------------------------------------
(* The server                                                               *)

ReadRequest ==
  /\ spc = "read"
  /\ \E r \in 1..Len(link[cur].in["serv"]) :
       /\ heard' = First(link[cur], "serv", r)
       /\ link' = [link EXCEPT ![cur] = Drop(@, "serv", r)]
  /\ spc' = "compute"
  /\ UNCHANGED <<waiting, cur, buf, served, clnt>>

OperandAt0(i) ==    \* the count taken for the first operand
  LET first == IntSize * (i - 1) IN
  IF first + IntSize <= Len(heard)
  THEN {Decoded(SubSeq(heard, first + 1, first + IntSize))} ELSE Ints

(* What operand i may be: the buffer behind what was read is not set.       *)
Operand(i) ==
  LET first == IntSize * i IN
  IF first + IntSize <= Len(heard)
  THEN {Decoded(SubSeq(heard, first + 1, first + IntSize))} ELSE Ints

(* An int that overflows may come out as any.                               *)
Plain(x) == IF x \in Ints THEN {x} ELSE Ints

Neutral(op) == IF op = Plus THEN 0 ELSE 1
Combined(op, m, x) == IF op = Plus THEN m + x ELSE m * x
OneMore(op, M, i) ==    \* what may be made of one of M and of operand i
  UNION {Plain(Combined(op, m, x)) : m \in M, x \in Operand(i)}

Results(count) ==
  LET op == heard[Len(heard)]
      R[i \in 0..count] == IF i = 0 THEN {Neutral(op)} ELSE OneMore(op, R[i - 1], i)
  IN IF op \in {Plus, Times} THEN R[count] ELSE {}

Refusal == [j \in 1..IntSize + 1 |-> Letter]    \* "Unexpected operator\n"

(* Nothing is known of a count that was cut: the vector may not even be     *)
(* made.  After a refusal the program exits at once.                        *)
Compute ==
  /\ spc = "compute"
  /\ IF Len(heard) < IntSize
     THEN \/ \E x \in Ints : buf' = Encoded(x)
          \/ buf' = Refusal
     ELSE LET R == Results(Decoded(SubSeq(heard, 1, IntSize))) IN
          IF R = {} THEN buf' = Refusal ELSE \E x \in R : buf' = Encoded(x)
  /\ spc' = "write"
  /\ UNCHANGED <<link, waiting, cur, heard, served, clnt>>

CountCut ==
  /\ spc = "compute" /\ Len(heard) < IntSize
  /\ Exit("failed", link)
  /\ UNCHANGED <<waiting, cur, buf, heard, served, clnt>>

CalcEnd ==
  /\ spc = "write" /\ buf = <<>>
  /\ Exit("ended", link)
  /\ UNCHANGED <<waiting, cur, buf, heard, served, clnt>>

CalcServer ==
  \/ Accept("read") \/ ReadRequest \/ Compute \/ CountCut
  \/ ServerPut \/ ServerPutGone(TRUE, <<>>) \/ CalcEnd

-----------------------------------------------------------------------------
(* What the client shows when it got an answer is the sum or the product of *)
(* what was typed, provided that TCP cut neither the request nor the        *)
(* answer, that the result and all on the way to it are in the range of int *)
(* and that the operator is known.  If it is not known, the client takes    *)
(* the first bytes of a text for a number.                                  *)
Value(q) ==    \* the result after each operand
  LET v[n \in 0..Len(q.operands)] ==
        IF n = 0 THEN Neutral(q.op) ELSE Combined(q.op, v[n - 1], q.operands[n])
  IN v

AnswerRight ==
  program = "op_server" => \A c \in Clients :
    cpc[c] = "done" /\ heard = Request(asked[c]) /\ Len(got[c]) = IntSize =>
      LET q == asked[c]  n == Len(q.operands) IN
      IF q.op \in {Plus, Times}
      THEN (\A j \in 0..n : Value(q)[j] \in Ints) => got[c] = Encoded(Value(q)[n])
      ELSE got[c] = SubSeq(Refusal, 1, IntSize)
=============================================================================

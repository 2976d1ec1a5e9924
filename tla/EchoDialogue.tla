---------------------------- MODULE EchoDialogue ----------------------------
(***************************************************************************)
(* The echo servers that serve one client after the other, each with the   *)
(* client of its chapter:                                                  *)
(*   echo_server       ch4, and reuseadr_eserver  ch9, with ch4/echo_client *)
(*   echo_server2      ch5, with ch5/echo_client2                           *)
(*   echo_stdserv      ch15, with ch15/echo_client                          *)
(*   echo_mpclient     ch4/echo_server with the client of ch10, one process *)
(*                     of which writes and the other reads                  *)
(* A line is a number of pieces; the pieces of a client are 1, 2, 3, ...,   *)
(* and asked holds the last piece of each of its lines.                     *)
(***************************************************************************)
EXTENDS Session

CONSTANTS
  Serves,       \* clients that the loops of ch4, ch5 and ch15 serve: 5, 4 and 5
  Lengths,      \* bound: the lengths of the lines that are typed
  MaxLines      \* bound: lines each client types

ASSUME EchoAssumption == Lengths \subseteq Nat

EchoPrograms ==
  {"echo_server", "reuseadr_eserver", "echo_server2", "echo_stdserv", "echo_mpclient"}

Whole == program \in {"echo_server2", "echo_stdserv"}   \* reads until all is back
Split == program = "echo_mpclient"
Enough(i) == i = IF program = "reuseadr_eserver" THEN 1 ELSE Serves

Typed(c) == IF asked[c] = <<>> THEN 0 ELSE Last(asked[c])
LineEnds(c) == Range(asked[c])
LastLine(c) ==
  Typed(c) - (IF Len(asked[c]) = 1 THEN 0 ELSE asked[c][Len(asked[c]) - 1])

-----------------------------------------------------------------------------
(* The clients                                                              *)

TypeLine(c) ==
  /\ cpc[c] = "prompt" /\ Len(asked[c]) < MaxLines
  /\ \E n \in Lengths :
       /\ program = "echo_stdserv" => n > 0      \* fgets keeps the newline
       /\ asked' = [asked EXCEPT ![c] = Append(@, Typed(c) + n)]
       /\ out' = [out EXCEPT ![c] = [j \in 1..n |-> Typed(c) + j]]
  /\ Gotoc(c, "write")
  /\ UNCHANGED <<link, waiting, serv, got>>

Quit(c) ==
  /\ cpc[c] = "prompt"
  /\ ClientClose(c)
  /\ UNCHANGED <<waiting, serv, out, got, asked>>

LineSentRead(c) == ClientSent(c, "read")    \* the loop as a do ... while

(* echo_client2 does not read when it wrote nothing.                        *)
LineSent(c) ==
  ClientSent(c, IF program = "echo_server2" /\ Len(got[c]) = Typed(c)
                THEN "prompt" ELSE "read")

ShowPart(c) ==    \* one read, whatever the program
  /\ cpc[c] = "read"
  /\ \E n \in 1..Len(link[c].in["clnt"]) : ClientGet(c, n, "prompt")

(* echo_client reads once; echo_client2, and fgets, read until the whole    *)
(* line is back.  What is printed then is left out: it is what was read     *)
(* only where that is the whole line.  echo_client prints as many bytes as  *)
(* were typed, so that a NUL and the end of the typed line come behind a    *)
(* short read, and the end of a read that is longer is not shown.           *)
Show(c) ==
  /\ cpc[c] = "read"
  /\ \E n \in 1..Len(link[c].in["clnt"]) :
       ClientGet(c, n, IF Whole /\ Len(got[c]) + n < Typed(c) THEN "read"
                       ELSE "prompt")

(* At the end of the file echo_client2 reads again, for ever.               *)
ShowNone(c) ==
  /\ cpc[c] = "read"
  /\ HasEof(link[c], "clnt") \/ HasError(link[c], "clnt")
  /\ Gotoc(c, IF program = "echo_server2" /\ HasEof(link[c], "clnt") THEN "spin"
              ELSE "lost")
  /\ UNCHANGED <<link, waiting, serv, out, got, asked>>

(* echo_mpclient.  cin >> takes a word without its newline, so that nothing *)
(* equals "q\n": no user can end it but by a signal.                        *)
TypeWord(c) ==
  /\ cpc[c] = "both" /\ out[c] = <<>> /\ Len(asked[c]) < MaxLines
  /\ \E n \in Lengths \ {0} :
       /\ asked' = [asked EXCEPT ![c] = Append(@, Typed(c) + n)]
       /\ out' = [out EXCEPT ![c] = [j \in 1..n |-> Typed(c) + j]]
  /\ UNCHANGED <<link, waiting, serv, cpc, got>>

WriteRoutine(c) ==
  /\ cpc[c] = "both" /\ out[c] # <<>> /\ CanPut(link[c], "clnt", Room)
  /\ link' = [link EXCEPT ![c] = Put(@, "clnt", Head(out[c]))]
  /\ out' = [out EXCEPT ![c] = Tail(@)]
  /\ UNCHANGED <<waiting, serv, cpc, got, asked>>

ReadRoutine(c) ==
  /\ cpc[c] = "both"
  /\ \/ \E n \in 1..Len(link[c].in["clnt"]) : ClientGet(c, n, "both")
     \/ /\ HasEof(link[c], "clnt") \/ HasError(link[c], "clnt")
        /\ Gotoc(c, "lost")
        /\ UNCHANGED <<link, waiting, serv, out, got, asked>>

EchoClient(c) ==
  \/ ClientPut(c) \/ ClientPutGone(c) \/ LineSent(c) \/ Show(c) \/ ShowNone(c)
  \/ ReadRoutine(c)

-----------------------------------------------------------------------------
(* The servers                                                              *)

(* read takes what is there; fgets reads on to the end of the line.         *)
Complete(b) ==
  program = "echo_stdserv" => b[Len(b)] \in LineEnds(cur) \/ Len(b) = BUF_SIZE

Read ==
  /\ spc = "read"
  /\ \E n \in 1..Len(link[cur].in["serv"]) :
       LET b == buf \o First(link[cur], "serv", n) IN
       /\ Len(b) <= BUF_SIZE
       /\ buf' = b
       /\ spc' = IF Complete(b) THEN "write" ELSE "read"
       /\ link' = [link EXCEPT ![cur] = Drop(@, "serv", n)]
  /\ UNCHANGED <<waiting, cur, heard, served, clnt>>

WriteRest(strict) == ServerPut \/ ServerPutGone(strict, <<>>)

(* The client's socket is closed; the last one ends the program.            *)
CloseClient(k) ==
  /\ served' = served + 1 /\ buf' = <<>>
  /\ IF Enough(served + 1) THEN Exit("ended", k) /\ UNCHANGED cur
     ELSE /\ spc' = "accept" /\ cur' = None
          /\ link' = [k EXCEPT ![cur] = Close(@, "serv")]
  /\ UNCHANGED <<waiting, heard, clnt>>

ReadEof ==
  /\ spc = "read" /\ buf = <<>> /\ HasEof(link[cur], "serv")
  /\ program # "echo_stdserv"
  /\ CloseClient(link)

SendTwice ==    \* two writes of the old message
  /\ spc = "read" /\ HasEof(link[cur], "serv")
  /\ program = "echo_stdserv"
  /\ \E k \in PutGone(link[cur], "serv") :
       IF k.err["serv"] = "dead" THEN Exit("killed", link) /\ UNCHANGED <<waiting, cur, buf, heard, served, clnt>>
       ELSE CloseClient([link EXCEPT ![cur] = k])

(* The beginning of a line is sent as it is.  Behind a whole line fgets     *)
(* fails before feof is true: the message that is still in the buffer, of   *)
(* this client or of the one before, is sent once more.  If there is none,  *)
(* because the first client sent nothing, the buffer was never set, and its *)
(* first byte may be a NUL: then nothing is sent.                           *)
Unset == served = 0 /\ buf = <<>> /\ Len(out[cur]) = Typed(cur)

SendAgain ==
  /\ spc = "read" /\ HasEof(link[cur], "serv")
  /\ program = "echo_stdserv"
  /\ \/ Unset /\ CloseClient(link)
     \/ IF link[cur].err["serv"] = "dead"
        THEN Exit("killed", link) /\ UNCHANGED <<waiting, cur, buf, heard, served, clnt>>
        ELSE \E k \in PutGone(link[cur], "serv") : CloseClient([link EXCEPT ![cur] = k])

(* The servers of ch4 and ch5 exit; reuseadr_eserver passes the -1 to write, *)
(* and echo_stdserv sends what is in its buffer.                            *)
ReadError ==
  /\ spc = "read" /\ HasError(link[cur], "serv")
  /\ CASE program = "reuseadr_eserver" ->
            link' = [link EXCEPT ![cur] = Noted(@, "serv")] /\ UNCHANGED spc
       [] program = "echo_stdserv" -> Exit("killed", link)
       [] OTHER -> Exit("failed", link)
  /\ UNCHANGED <<waiting, cur, buf, heard, served, clnt>>

EchoServer ==
  \/ Accept("read") \/ Read \/ ReadEof \/ SendAgain \/ ReadError
  \/ WriteRest(program = "echo_server2") \/ ServerSent("read")

EchoUser(c) ==
  Connect(c, IF Split THEN "both" ELSE "prompt") \/ TypeLine(c) \/ TypeWord(c) \/ Quit(c)

-----------------------------------------------------------------------------
(* What a client has read is the beginning of what it typed; and where the  *)
(* client reads until the whole line is back, nothing of the line is left   *)
(* anywhere when it prompts again, and it never reads at the end of the     *)
(* file, where echo_client2 would go on for ever.                           *)
InStep ==
  program \in EchoPrograms => \A c \in Clients :
    /\ \A j \in DOMAIN got[c] : got[c][j] = j
    /\ Whole => /\ cpc[c] = "prompt" => Len(got[c]) = Typed(c)
                /\ cpc[c] # "spin"

(* A server ends before its time only because a client left with part of    *)
(* its echo unread, which those of ch5 and ch15 do only if interrupted;     *)
(* otherwise it leaves nobody unserved.                                     *)
LeftEarly(c) ==
  /\ cpc[c] \in (IF Whole THEN {"gone"} ELSE {"done", "gone"})
  /\ Len(got[c]) < Typed(c)

ServerSurvives ==
  program \in EchoPrograms /\ spc \in {"failed", "killed"} =>
    \E c \in Clients : LeftEarly(c)

(* Whoever has typed a line, and stays, may go on, unless the server        *)
(* ends first, or both wait for ever: to write, because nobody reads, which *)
(* takes a line larger than the buffers of both ends where the client reads *)
(* whole lines; or to read, because the line was empty.                     *)
BothWrite(c) ==
  /\ program \in EchoPrograms /\ cur = c
  /\ cpc[c] = "write" /\ out[c] # <<>> /\ spc = "write" /\ buf # <<>>
  /\ ~CanPut(link[c], "clnt", Room) /\ ~CanPut(link[c], "serv", Room)
  /\ Whole => LastLine(c) >= 2 * Room + 2
BothRead(c) ==
  /\ program \in EchoPrograms /\ cur = c
  /\ cpc[c] = "read" /\ spc = "read"
  /\ ~Whole /\ LastLine(c) = 0 /\ Len(got[c]) = Typed(c)

Answered ==
  \A c \in Clients :
    program \in EchoPrograms /\ cur = c /\ cpc[c] \in {"write", "read", "both"} ~>
      \/ cpc[c] \in {"prompt", "gone"} \/ spc \in Over
      \/ cpc[c] = "both" /\ Len(got[c]) = Typed(c)
      \/ [](BothWrite(c) \/ BothRead(c))
=============================================================================

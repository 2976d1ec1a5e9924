------------------------------ MODULE Transfer ------------------------------
(***************************************************************************)
(* Servers that send a text and end, each with its client:                 *)
(*   hello_server  ch1    the client reads once                            *)
(*   tcp_server    ch2    the client reads byte by byte to the end         *)
(*   file_server   ch7    the client reads to the end, then thanks         *)
(*   sep_serv      ch16   the same; the server closes its descriptor with  *)
(*                        the writing stream                               *)
(*   sep_serv2     ch16   the same; the server shuts one direction down    *)
(* and peek_recv of ch13, whose client sends the text.                     *)
(***************************************************************************)
EXTENDS Session

CONSTANTS TextLen, ThanksLen    \* pieces of the texts

ASSUME TransferAssumption == TextLen \in Nat \ {0} /\ ThanksLen \in Nat \ {0}

TransferPrograms ==
  {"hello_server", "tcp_server", "file_server", "sep_serv", "sep_serv2", "peek_recv"}

Thanks == program \in {"file_server", "sep_serv", "sep_serv2"}
Peeks  == program = "peek_recv"
Text(n) == [j \in 1..n |-> j]

-----------------------------------------------------------------------------
(* The clients                                                              *)

Start(c) == Connect(c, IF Peeks THEN "open" ELSE "read")

SendText(c) ==
  /\ cpc[c] = "open"
  /\ out' = [out EXCEPT ![c] = Text(TextLen)]
  /\ Gotoc(c, "write")
  /\ UNCHANGED <<link, waiting, serv, got, asked>>

ReadText(c) ==
  /\ cpc[c] = "read"
  /\ \E n \in 1..Len(link[c].in["clnt"]) :
       /\ n <= IF program = "tcp_server" THEN 1 ELSE BUF_SIZE
       /\ ClientGet(c, n, IF program = "hello_server" THEN "leave" ELSE "read")

(* The end of the text: the clients of ch7 and ch16 write their thanks.     *)
TextEnds(c) ==
  /\ cpc[c] = "read" /\ HasEof(link[c], "clnt")
  /\ IF Thanks THEN out' = [out EXCEPT ![c] = Text(ThanksLen)] /\ Gotoc(c, "write")
     ELSE Gotoc(c, "leave") /\ UNCHANGED out
  /\ UNCHANGED <<link, waiting, serv, got, asked>>

(* The connection was reset: the clients of ch1 and ch2 exit; the one of    *)
(* ch7 hands -1 to fwrite.                                                  *)
TextFails(c) ==
  /\ cpc[c] = "read" /\ HasError(link[c], "clnt")
  /\ Gotoc(c, "lost")
  /\ UNCHANGED <<link, waiting, serv, out, got, asked>>

(* A write to the server of sep_serv, which has closed, goes nowhere.       *)
ThanksLost(c) ==
  /\ cpc[c] = "write" /\ out[c] # <<>> /\ Gone(link[c], "clnt")
  /\ IF link[c].err["clnt"] = "no"
     THEN /\ \E k \in PutGone(link[c], "clnt") : link' = [link EXCEPT ![c] = k]
          /\ out' = [out EXCEPT ![c] = <<>>] /\ UNCHANGED cpc
     ELSE Gotoc(c, "lost") /\ UNCHANGED <<link, out>>
  /\ UNCHANGED <<waiting, serv, got, asked>>

Leave(c) ==
  /\ cpc[c] = "leave"
  /\ ClientClose(c)
  /\ UNCHANGED <<waiting, serv, out, got, asked>>

TransferClient(c) ==
  \/ SendText(c) \/ ReadText(c) \/ TextEnds(c) \/ TextFails(c)
  \/ ClientPut(c) \/ ThanksLost(c) \/ ClientSent(c, "leave") \/ Leave(c)

-----------------------------------------------------------------------------
(* The servers                                                              *)

Admit ==
  /\ Accept(IF Peeks THEN "peek" ELSE "load")

(* The file, or the constant text.                                          *)
Load ==
  /\ spc = "load"
  /\ buf' = Text(TextLen) /\ spc' = "write"
  /\ UNCHANGED <<link, waiting, cur, heard, served, clnt>>

(* file_server writes BUF_SIZE pieces at a time, the others once.           *)
NextWrites ==
  LET n == IF program = "file_server"
           THEN TextLen - BUF_SIZE * ((TextLen - Len(buf)) \div BUF_SIZE + 1) ELSE 0
  IN SubSeq(buf, Len(buf) - n + 1, Len(buf))

NoShutdown ==    \* the reply is read with both directions open
  /\ spc = "write" /\ buf = <<>>
  /\ spc' = IF Thanks THEN "reply" ELSE "leave"
  /\ UNCHANGED <<link, waiting, cur, buf, heard, served, clnt>>

CloseFirst ==    \* close for shutdown
  /\ spc = "write" /\ buf = <<>>
  /\ Thanks
  /\ link' = [link EXCEPT ![cur] = Close(@, "serv")]
  /\ spc' = IF program = "sep_serv" THEN "leave" ELSE "reply"
  /\ UNCHANGED <<waiting, cur, buf, heard, served, clnt>>

(* fclose in sep_serv closes the socket; the others only end one direction. *)
HalfClose ==
  /\ spc = "write" /\ buf = <<>>
  /\ IF Thanks
     THEN link' = [link EXCEPT ![cur] = IF program = "sep_serv" THEN Close(@, "serv")
                                        ELSE Shut(@, "serv")]
     ELSE UNCHANGED link
  /\ spc' = IF program \in {"file_server", "sep_serv2"} THEN "reply" ELSE "leave"
  /\ UNCHANGED <<waiting, cur, buf, heard, served, clnt>>

(* file_server reads once, fgets in sep_serv2 to the end of the line.       *)
ReadReply ==
  /\ spc = "reply"
  /\ \E n \in 1..Len(link[cur].in["serv"]) :
       /\ heard' = heard \o First(link[cur], "serv", n)
       /\ link' = [link EXCEPT ![cur] = Drop(@, "serv", n)]
  /\ spc' = IF program = "file_server" \/ Len(heard') = ThanksLen THEN "leave"
            ELSE "reply"
  /\ UNCHANGED <<waiting, cur, buf, served, clnt>>

ReplyFails ==
  /\ spc = "reply"
  /\ HasEof(link[cur], "serv") \/ HasError(link[cur], "serv")
  /\ spc' = "leave"
  /\ UNCHANGED <<link, waiting, cur, buf, heard, served, clnt>>

Depart ==
  /\ spc = "leave"
  /\ Exit("ended", link)
  /\ UNCHANGED <<waiting, cur, buf, heard, served, clnt>>

(* peek_recv polls until something has come, then reads; what was there is  *)
(* there again.                                                             *)
Peek ==
  /\ spc = "peek"
  /\ \E n \in 1..Len(link[cur].in["serv"]) : buf' = First(link[cur], "serv", n)
  /\ spc' = "recv"
  /\ UNCHANGED <<link, waiting, cur, heard, served, clnt>>

RecvAgain ==
  /\ spc = "recv"
  /\ \E n \in Len(buf)..Len(link[cur].in["serv"]) :
       /\ heard' = First(link[cur], "serv", n)
       /\ link' = [link EXCEPT ![cur] = Drop(@, "serv", n)]
  /\ spc' = "leave"
  /\ UNCHANGED <<waiting, cur, buf, served, clnt>>

TransferServer ==
  \/ Admit \/ Load \/ ServerPut \/ ServerPutGone(FALSE, NextWrites) \/ HalfClose \/ ReadReply
  \/ ReplyFails \/ Depart \/ Peek \/ RecvAgain

-----------------------------------------------------------------------------
(* A client that read to the end has the whole text, not a piece less: the  *)
(* server's leaving does not take back what is on its way.  The thanks reach *)
(* the server where it kept the socket open, at least in part where it      *)
(* reads once, unless the client was interrupted; never in sep_serv, whose  *)
(* fclose left it nothing to read from.  What peek_recv reads begins with   *)
(* what it peeked at.                                                       *)
Left(c) == c \in Clients /\ cpc[c] = "gone"

Delivered ==
  program \in TransferPrograms =>
    /\ ~Peeks => \A c \in Clients :
         cpc[c] \in {"write", "leave", "done"} =>
           IF program = "hello_server" THEN got[c] # <<>> /\ IsPrefix(got[c], Text(TextLen))
           ELSE got[c] = Text(TextLen)
    /\ spc = "ended" =>
         CASE program \in {"file_server", "sep_serv2"} ->
                /\ IsPrefix(heard, Text(ThanksLen))
                /\ Left(cur) \/ heard # <<>>
                /\ Left(cur) \/ program = "file_server" \/ heard = Text(ThanksLen)
           [] Peeks -> IsPrefix(heard, Text(TextLen)) /\ buf # <<>> /\ IsPrefix(buf, heard)
           [] OTHER -> heard = <<>>

(* A program that serves one client and that a client has reached ends, and *)
(* so does that client; nobody waits for the other for ever, and SIGPIPE    *)
(* ends no server that waits for thanks.  Only if its client is interrupted *)
(* does peek_recv poll for ever, and SIGPIPE end the others.                *)
BothEnd ==
  \A c \in Clients :
    program \in TransferPrograms \cup {"op_server"} /\ cur = c /\ cpc[c] # "ask" ~>
      \/ /\ spc \in (IF Thanks THEN {"ended"} ELSE Over)
         /\ cpc[c] \in (IF Thanks THEN {"done"} ELSE {"done", "lost"})
      \/ Left(c) /\ (Peeks \/ spc \in Over)
=============================================================================

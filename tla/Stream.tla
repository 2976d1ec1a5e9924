------------------------------- MODULE Stream -------------------------------
(***************************************************************************)
(* One TCP connection with both its ends, for the programs that are        *)
(* modelled together with the program they talk to.  The kernel is not     *)
(* under src/, so every definition here is external.                       *)
(*                                                                         *)
(* A connection is a record of functions of the end e:                     *)
(*   in   the pieces sent to e that e has not read                         *)
(*   way  "open", "shut" after shutdown(SHUT_WR), "closed" after close     *)
(*   err  "no"; "reset": ECONNRESET is pending; "dead": read gives 0 and   *)
(*        write raises SIGPIPE                                             *)
(***************************************************************************)
EXTENDS Integers, Sequences

Ends == {"serv", "clnt"}
Other(e) == IF e = "serv" THEN "clnt" ELSE "serv"

NewLink == [in |-> [e \in Ends |-> <<>>], way |-> [e \in Ends |-> "open"],
            err |-> [e \in Ends |-> "no"]]

(* read: the data first, then a pending error once, then the end of file.   *)
HasData(k, e)  == k.in[e] # <<>>
HasError(k, e) == k.in[e] = <<>> /\ k.err[e] = "reset"
HasEof(k, e)   == k.in[e] = <<>> /\ k.err[e] # "reset" /\ k.way[Other(e)] # "open"

First(k, e, n) == SubSeq(k.in[e], 1, n)
Drop(k, e, n)  == [k EXCEPT !.in[e] = SubSeq(@, n + 1, Len(@))]
Noted(k, e)    == [k EXCEPT !.err[e] = "dead"]

(* write: it waits while room pieces are unread.  To an end that has        *)
(* closed, the first write succeeds and the reset it provokes may have      *)
(* arrived by the next.                                                     *)
Gone(k, e) == k.way[Other(e)] = "closed"
CanPut(k, e, room) == ~Gone(k, e) /\ Len(k.in[Other(e)]) < room
Put(k, e, x) == [k EXCEPT !.in[Other(e)] = Append(@, x)]
PutGone(k, e) == IF k.err[e] = "no" THEN {k, Noted(k, e)} ELSE {Noted(k, e)}

Shut(k, e) == [k EXCEPT !.way[e] = "shut"]

(* close: with something unread it resets the connection.                   *)
Close(k, e) ==
  LET unread == k.in[e] # <<>> /\ ~Gone(k, e) IN
  [k EXCEPT !.way[e] = "closed", !.in[e] = <<>>,
            !.err[Other(e)] = IF unread THEN "reset" ELSE @]

(* What becomes of a connection that nobody accepted when listening ends.   *)
Refused(k) == [k EXCEPT !.way["serv"] = "closed", !.in["serv"] = <<>>,
                        !.err["clnt"] = IF Gone(k, "serv") THEN @ ELSE "reset"]
=============================================================================

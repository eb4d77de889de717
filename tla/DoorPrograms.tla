---------------------------- MODULE DoorPrograms ----------------------------
(***************************************************************************)
(* The servers and clients of the directory doors, and lat_door of bench.   *)
(* A server is                                                             *)
(*   procs   the server procedure of each door, as the steps of a thread    *)
(*   pool    where its threads come from: the doors library ("system"), or  *)
(*           a function of its own, whose threads wait for the descriptor   *)
(*           of the door with a mutex ("fdlock") or by looking at it        *)
(*           ("spin")                                                      *)
(*   unref   DOOR_UNREF;  closes  closes its own descriptor;                *)
(*   early   makes the file before the door, and tells the client through a *)
(*           pipe when the door is attached to it                          *)
(* A client is                                                             *)
(*   calls   the doors it calls, in order                                  *)
(*   rsize   the result fits into the buffer rbuf                          *)
(*   prints  "rbuf" or "data_ptr", where it looks for the result            *)
(*   sigchld a child of it ends;  retry  EINTR after a SIGCHLD is retried;  *)
(*   alarm   SIGALRM may kill it                                            *)
(***************************************************************************)
EXTENDS Sequences

DoorServer(proc) ==
  [procs |-> <<proc>>, pool |-> "system", unref |-> FALSE, closes |-> FALSE, early |-> FALSE]

Square == <<"return">>
SlowSquare == <<"sleep", "return">>

server1 == DoorServer(Square)
server2 == DoorServer(Square)
server3 == DoorServer(Square)
server4 == DoorServer(<<"cred", "return">>)
server5 == DoorServer(SlowSquare)
server6 == [DoorServer(SlowSquare) EXCEPT !.pool = "fdlock"]
tserver1 == [DoorServer(<<"sleep", "cred", "return">>) EXCEPT !.pool = "spin"]
server7 == [DoorServer(Square) EXCEPT !.procs = <<SlowSquare, SlowSquare>>]
server8 == DoorServer(<<"revoke", "return">>)
server9 == DoorServer(<<"revoke", "return">>)
serverfd1 == DoorServer(<<"open", "return">>)
serverintr1 == DoorServer(<<"exit">>)
serverintr2 == DoorServer(SlowSquare)
serverintr3 == DoorServer(SlowSquare)
serverintr4 == DoorServer(<<"enable", "sleep", "disable", "return">>)
serverunref1 == [DoorServer(SlowSquare) EXCEPT !.unref = TRUE, !.closes = TRUE]
serverunref2 == [DoorServer(SlowSquare) EXCEPT !.unref = TRUE]
lat_door_server == [DoorServer(Square) EXCEPT !.early = TRUE]

\* The part that all clients share: one call, the result in rbuf or through data_ptr
DoorClient(prints) ==
  [calls |-> <<1>>, rsize |-> TRUE, prints |-> prints,
   sigchld |-> FALSE, retry |-> FALSE, alarm |-> FALSE]

client1 == DoorClient("rbuf")
client2 == DoorClient("data_ptr")

\* Mutant: like client1, it prints oval.
client3Rbuf == [DoorClient("rbuf") EXCEPT !.rsize = FALSE]

client3 == [DoorClient("data_ptr") EXCEPT !.rsize = FALSE]
client4 == DoorClient("data_ptr")
client5 == DoorClient("data_ptr")
client6 == DoorClient("data_ptr")
tclient1 == DoorClient("rbuf")
client7 == [DoorClient("rbuf") EXCEPT !.calls = <<1, 2>>]
client8 == DoorClient("rbuf")
client9 == DoorClient("rbuf")
clientfd1 == DoorClient("data_ptr")
clientintr1 == DoorClient("rbuf")
clientintr2 == [DoorClient("rbuf") EXCEPT !.sigchld = TRUE]
clientintr3 == [DoorClient("rbuf") EXCEPT !.sigchld = TRUE, !.retry = TRUE]
clientintr4 == [DoorClient("rbuf") EXCEPT !.alarm = TRUE]
clientunref1 == DoorClient("rbuf")
clientunref2 == DoorClient("rbuf")

\* The first call starts everything, the loop makes one more.
lat_door == [DoorClient("rbuf") EXCEPT !.calls = <<1, 1>>]

\* It opens the file and asks for the attributes of the door, without a call.
doorinfo == [DoorClient("data_ptr") EXCEPT !.calls = <<>>]

\* Which client is run with which server.  Programs that differ in their names only
\* are one pair.
DoorPairs ==
  {[server |-> s, client |-> c] :
     s \in {server1, server2, server3}, c \in {client1, client2, client3}}
  \union {[server |-> server4, client |-> client4], [server |-> server5, client |-> client5],
          [server |-> server6, client |-> client6], [server |-> tserver1, client |-> tclient1],
          [server |-> server7, client |-> client7], [server |-> server8, client |-> client8],
          [server |-> server9, client |-> client9], [server |-> serverfd1, client |-> clientfd1],
          [server |-> serverintr1, client |-> clientintr1],
          [server |-> serverintr2, client |-> clientintr2],
          [server |-> serverintr3, client |-> clientintr3],
          [server |-> serverintr4, client |-> clientintr4],
          [server |-> serverunref1, client |-> clientunref1],
          [server |-> serverunref2, client |-> clientunref2],
          [server |-> lat_door_server, client |-> lat_door],
          [server |-> server8, client |-> doorinfo]}
=============================================================================

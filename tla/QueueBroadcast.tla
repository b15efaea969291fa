--------------------------- MODULE QueueBroadcast ---------------------------
(***************************************************************************)
(* What a topic promises to devices that send one request at a time: a     *)
(* broadcast.  Every client is given, in the order of publication, each    *)
(* message it asks for in time, and none twice.  There are no ids, cursors *)
(* or clocks here: a message is live or it is not.                         *)
(***************************************************************************)
EXTENDS Naturals, Sequences

CONSTANT Clients

VARIABLES
  sent,    \* messages published so far; they are numbered 1..sent
  live,    \* those that can still be had
  taken,   \* for each client, those it was given
  received \* for each client, those that reached it, in order

vars == <<sent, live, taken, received>>

Init ==
  /\ sent = 0 /\ live = {}
  /\ taken = [c \in Clients |-> {}]
  /\ received = [c \in Clients |-> <<>>]

(* A message may be over before anyone sees it.                            *)
Publish ==
  /\ sent' = sent + 1
  /\ live' \in {live, live \cup {sent + 1}}
  /\ UNCHANGED <<taken, received>>

(* Messages expire, or the administrator deletes the queue.                *)
Lose ==
  /\ live' \subseteq live
  /\ UNCHANGED <<sent, taken, received>>

(* The client is given a message newer than all it had, and older than     *)
(* every live one that is left for it.  It may die while it is given.      *)
Take(c) ==
  /\ \E m \in 1..sent :
       /\ \A k \in taken[c] : k < m
       /\ \A k \in live \ taken[c] : m <= k
       /\ taken' = [taken EXCEPT ![c] = @ \cup {m}]
  /\ UNCHANGED <<sent, live, received>>

(* The message given last reaches the client, once; or it is lost for it.  *)
Receive(c) ==
  /\ \E m \in taken[c] :
       /\ \A k \in taken[c] : k <= m
       /\ \A i \in DOMAIN received[c] : received[c][i] < m
       /\ received' = [received EXCEPT ![c] = Append(@, m)]
  /\ UNCHANGED <<sent, live, taken>>

Next == Publish \/ Lose \/ \E c \in Clients : Take(c) \/ Receive(c)

(* A client that keeps polling is given each message that stays live.      *)
Given(m) == \A c \in Clients : m \in live ~> (m \in taken[c] \/ m \notin live)

Safety == Init /\ [][Next]_vars
=============================================================================

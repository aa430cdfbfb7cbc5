----------------------------- MODULE ByteStream ------------------------------
(***************************************************************************)
(* What a connection promises to those who send on it: the peer gets a     *)
(* prefix of the stream of the messages taken, which only grows, and while *)
(* the connection is up the end of the stream comes after all of it and    *)
(* after the last message.  What is taken or shut once the connection is   *)
(* down need not arrive, but nothing arrives behind the end.               *)
(***************************************************************************)
EXTENDS Naturals, Sequences, SequencesExt

CONSTANTS Messages, MessageSize

VARIABLES
  taken,              \* the messages taken, in order
  wire,               \* the bytes that have gone to the peer
  fin,                \* and the end of the stream after them
  told                \* the user knows the connection as "up", as "down", or not yet

vars == <<taken, wire, fin, told>>

\* The bytes of the messages, one after the other.
Stream(messages) ==
  [k \in 1..(Len(messages) * MessageSize) |->
     <<messages[((k - 1) \div MessageSize) + 1], ((k - 1) % MessageSize) + 1>>]

Init == taken = <<>> /\ wire = <<>> /\ fin = FALSE /\ told = "nothing"

\* More of the stream goes out; all of it has gone.
Advances == IsPrefix(wire, wire') /\ IsPrefix(wire', Stream(taken'))
AllGone == wire' = Stream(taken')

\* A message is taken, and perhaps some of the stream goes out at once.
Take(m) ==
  /\ told # "nothing" /\ (fin => told = "down")
  /\ taken' = Append(taken, m)
  /\ IF fin THEN UNCHANGED wire ELSE Advances
  /\ UNCHANGED <<fin, told>>

\* Some of the stream goes out, perhaps all of it with the end.
Write ==
  /\ ~fin /\ fin' \in BOOLEAN
  /\ Advances
  /\ fin' => AllGone \/ told = "down"
  /\ UNCHANGED <<taken, told>>

\* The user hears of the connection.
Tell ==
  /\ told' \in IF told = "nothing" THEN {"up"} ELSE {"down"}
  /\ UNCHANGED <<taken, wire, fin>>

Next == (\E m \in Messages : Take(m)) \/ Write \/ Tell

Spec == Init /\ [][Next]_vars

=============================================================================

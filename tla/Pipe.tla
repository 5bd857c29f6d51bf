-------------------------------- MODULE Pipe --------------------------------
(***************************************************************************)
(* What a TCP splice promises its two clients, and no more: a byte stream  *)
(* in each direction.  What arrives is what was sent, in order and without *)
(* a gap; a stream that ends cleanly has arrived whole, and nothing is     *)
(* taken from the sender after that; a stream may be cut at any time, and  *)
(* nothing arrives on it any more.  One direction's end says nothing about *)
(* the other's.                                                            *)
(***************************************************************************)
EXTENDS Naturals, Sequences

CONSTANTS
  Ends,    \* the two ends
  Peer(_)  \* the end that an end talks to

VARIABLES
  sent,      \* chunks an end has handed in, 1 .. sent[e]
  delivered, \* chunks that came out at an end
  ended      \* the stream towards an end: "no", "clean" or "cut"

vars == <<sent, delivered, ended>>

Init ==
  /\ sent = [e \in Ends |-> 0]
  /\ delivered = [e \in Ends |-> <<>>]
  /\ ended = [e \in Ends |-> "no"]

Send(e) ==
  /\ ended[Peer(e)] # "clean"
  /\ sent' = [sent EXCEPT ![e] = @ + 1]
  /\ UNCHANGED <<delivered, ended>>

Deliver(e) ==
  /\ ended[e] = "no" /\ Len(delivered[e]) < sent[Peer(e)]
  /\ delivered' = [delivered EXCEPT ![e] = Append(@, Len(@) + 1)]
  /\ UNCHANGED <<sent, ended>>

EndCleanly(e) ==
  /\ ended[e] = "no" /\ Len(delivered[e]) = sent[Peer(e)]
  /\ ended' = [ended EXCEPT ![e] = "clean"]
  /\ UNCHANGED <<sent, delivered>>

Cut(e) ==
  /\ ended[e] = "no"
  /\ ended' = [ended EXCEPT ![e] = "cut"]
  /\ UNCHANGED <<sent, delivered>>

Next == \E e \in Ends : Send(e) \/ Deliver(e) \/ EndCleanly(e) \/ Cut(e)

Spec == Init /\ [][Next]_vars
=============================================================================

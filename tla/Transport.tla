------------------------------ MODULE Transport ------------------------------
(***************************************************************************)
(* What the packet layer promises to the layers above it: the packets that *)
(* one end of a connection writes reach the other end once each and in the *)
(* order they were written, whatever key exchanges happen in between.      *)
(***************************************************************************)
EXTENDS Naturals, Sequences

CONSTANTS Ends,       \* the two ends of a connection
          MaxWrites   \* bound: packets written by one end

VARIABLES written,    \* written[e]: number of packets e has written
          pending,    \* pending[e]: packets of e under way, oldest first
          delivered   \* delivered[e]: packets of e the other end has handled

tvars == <<written, pending, delivered>>

TInit == /\ written = [e \in Ends |-> 0]
         /\ pending = [e \in Ends |-> <<>>]
         /\ delivered = [e \in Ends |-> <<>>]

Put(e) == /\ written[e] < MaxWrites
          /\ written' = [written EXCEPT ![e] = @ + 1]
          /\ pending' = [pending EXCEPT ![e] = Append(@, written'[e])]
          /\ UNCHANGED delivered

Take(e) == /\ pending[e] # <<>>
           /\ delivered' = [delivered EXCEPT ![e] = Append(@, Head(pending[e]))]
           /\ pending' = [pending EXCEPT ![e] = Tail(@)]
           /\ UNCHANGED written

TNext == \E e \in Ends : Put(e) \/ Take(e)

TSpec == /\ TInit
         /\ [][TNext]_tvars
         /\ \A e \in Ends : WF_tvars(Take(e))
=============================================================================

-------------------------- MODULE MCModbusTcpSlave --------------------------
(***************************************************************************)
(* A well-behaved master and one that also announces lengths the frame     *)
(* does not have: too short to count down, and too long for the buffer.    *)
(* A socket may take no response at all, so that the second response to a  *)
(* master can meet a stream that is stuck since the first one.             *)
(***************************************************************************)
EXTENDS ModbusTcpSlave

CONSTANTS good, odd

TwoConns == {good, odd}

Shape(length, uid, n) == [length |-> length, uid |-> uid, pdu |-> [i \in 1 .. n |-> 2]]

SmallShapes ==
  good :> {Shape(3, MyAddress, 2), Shape(2, Broadcast, 1), Shape(2, 7, 1)}
    @@ odd :> {Shape(0, MyAddress, 1), Shape(7, MyAddress, 6)}

SmallMaxReq == good :> 2 @@ odd :> 1
=============================================================================

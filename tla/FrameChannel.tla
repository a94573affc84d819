---------------------------- MODULE FrameChannel ----------------------------
(***************************************************************************)
(* What channels of AAS frames promise to output_aas_push: the frames      *)
(* handed over are frames the station sent on that channel, whole, in the  *)
(* order it sent them, none of them twice; any of them may be missing.     *)
(***************************************************************************)
EXTENDS Naturals, Sequences

CONSTANTS Channels,
          Frames     (* frames are numbered in the order they are sent      *)

VARIABLES sent,      (* per channel, the frames sent, or begun              *)
          delivered  (* per channel, what was handed over, in order         *)

vars == <<sent, delivered>>

Init ==
  /\ sent = [i \in Channels |-> 0]
  /\ delivered = [i \in Channels |-> << >>]

(* A few bytes of the streams: they may complete some frames.              *)
Extends(new, old, last) ==
  /\ Len(old) <= Len(new) /\ SubSeq(new, 1, Len(old)) = old
  /\ \A k \in (Len(old) + 1)..Len(new) :
       /\ new[k] \in 1..last
       /\ k > 1 => new[k - 1] < new[k]

Advance ==
  \A i \in Channels :
    /\ sent'[i] \in Frames \cup {0} /\ sent'[i] >= sent[i]
    /\ Extends(delivered'[i], delivered[i], sent'[i])

Spec == Init /\ [][Advance]_vars
=============================================================================

-------------------------- MODULE MCNetlinkFraming --------------------------
(***************************************************************************)
(* Datagrams for TLC: batches of up to three replies, single events and a  *)
(* datagram too short for a header. The sizes are those around the header  *)
(* length and around the alignment: an acknowledgement has 20 bytes of     *)
(* payload, NLMSG_DONE of a listing none. A reply of 60 bytes does not fit *)
(* the buffer, the longest event just does. Like 8986, the length of s.rb, *)
(* that of the buffer is 2 above a multiple of the alignment.              *)
(***************************************************************************)
EXTENDS NetlinkFraming, FiniteSetsExt, SequencesExt

ReplySizes == {0, 1, 4, 18, 20, 60}
EventSizes == {16, 17, 19, 20, 31, 32, BufLen - 18, BufLen - 17, BufLen - 16}

After(ms) == IF ms = <<>> THEN 0 ELSE Last(ms).start + Extent(Last(ms))
Unpadded(ms) == Last(ms).start + NLMSG_HDRLEN + Last(ms).size
LayOut(sizes) ==
    FoldLeft(LAMBDA ms, s : Append(ms, [kind |-> "reply", size |-> s, start |-> After(ms)]),
             <<>>, sizes)

Batches == {LayOut(sizes) : sizes \in SeqOf(ReplySizes, 3) \ {<<>>}}
MCDatagrams ==
    {[messages |-> b, nr |-> Received(After(b))] : b \in Batches}
      \cup {[messages |-> b, nr |-> Received(Unpadded(b))] : b \in Batches}
      \cup {[messages |-> <<[kind |-> "event", size |-> s, start |-> 0]>>, nr |-> NLMSG_HDRLEN + s] :
              s \in EventSizes}
      \cup {[messages |-> <<>>, nr |-> 12]}
=============================================================================

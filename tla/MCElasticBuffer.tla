-------------------------- MODULE MCElasticBuffer --------------------------
(* Model values for ElasticBuffer: an FM frame of two blocks whose PDU     *)
(* stands for half the ring, and an AM frame of one block.                 *)
EXTENDS ElasticBuffer

FMChannel == [avg |-> 4, blocks |-> 2, audio_frames |-> 2]

AMChannel == [avg |-> 1, blocks |-> 1, audio_frames |-> 1]

MCChannels == {FMChannel, AMChannel}

MCLatencies == {1}

MCLeads == {0, 1, 7}
=============================================================================

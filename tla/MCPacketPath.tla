---------------------------- MODULE MCPacketPath ----------------------------
(* Constants for the model checking of PacketPath. *)
EXTENDS PacketPath

\* The longest topic has three characters.
MCTopic == {<<1>>, <<1, 2, 3>>, <<2, 1, 3, 1>>}

\* No data, data with a NUL, as much as just fits behind the longest topic, and one byte
\* more; and a topic that is too long.
MCMessage ==
    {<< <<1>>, <<>> >>, << <<1>>, <<3, 0>> >>,
     << <<1, 2, 3>>, <<3, 2>> >>, << <<1, 2, 3>>, <<3, 2, 1>> >>,
     << <<2, 1, 3, 1>>, <<>> >>}
=============================================================================

---------------------------- MODULE MCTopicTable ----------------------------
(* Filters and topics for the model checking of TopicTable. *)
EXTENDS TopicTable

\* Plain, with each wildcard first, last and in the middle, two levels of one
\* path, and one with an empty segment.
MCFilterString ==
    {<<"room", "temp">>, <<"room", "+">>, <<"room", "#">>, <<"#">>, <<"room">>,
     <<"room", "#", "temp">>, <<"", "room", "#">>}
MCTopicString ==
    {<<"room">>, <<"room", "temp">>, <<"hall", "temp">>, <<"room", "a", "temp">>,
     <<"", "room", "temp">>}
=============================================================================

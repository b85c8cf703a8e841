-------------------------- MODULE MCStreamResponse --------------------------
(***************************************************************************)
(* Instances of StreamResponse: every framing, items whose prefixes decode *)
(* too, one that does not decode, and what other servers may end with.     *)
(***************************************************************************)
EXTENDS StreamResponse

MCBytes == ToSet(DigitChars) \cup {":", ",", "+", "LF", "CR", "x", "d"}

MCItems ==
  [none |-> {<<"1", "2">>},
   newline |-> {<<"1">>, <<"1", "2", "3">>, <<"x">>},
   netstring |-> {<<"1", "2", "3">>, <<",", ":">>, <<"x">>},
   eventStream |-> {<<"d">>, <<"d", "d">>}]

Numbers == {SubSeq(DigitChars, 2, n) : n \in 2..7}
MCDecodable == Numbers \cup {<<",", ":">>, <<"d">>, <<"d", "d">>}

MCJunk ==
  [none |-> {}, newline |-> {}, eventStream |-> {},
   netstring |-> {<<"x", ":">>, <<"2", ":", "1">>, <<"1", ":", "1", "x">>,
                  <<"9">>, <<"1", "5", ":", "1">>}]
=============================================================================

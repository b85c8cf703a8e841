---------------------------- MODULE MCStreamBody ----------------------------
(***************************************************************************)
(* Instances of StreamBody: every framing, items at, below and above the   *)
(* cap, one that does not decode, and what other senders may end with.     *)
(***************************************************************************)
EXTENDS StreamBody

MCBytes == ToSet(DigitChars) \cup {":", ",", "+", "LF", "CR", "x", "d"}

MCItems ==
  [none |-> {<<"1", "2">>},
   newline |-> {<<"1">>, <<"1", "2", "3", "4", "5">>, <<"x">>},
   netstring |-> {<<"1", "2", "3", "4", "5">>, <<"1", "2", "3", "4", "5", "6">>,
                  <<",", ":">>},
   eventStream |-> {<<"d">>, <<"d", "d">>}]

Numbers == {SubSeq(DigitChars, 2, n) : n \in 2..7}
MCDecodable == Numbers \cup {<<",", ":">>, <<"d">>, <<"d", "d">>}

MCJunk ==
  [none |-> {}, newline |-> {}, eventStream |-> {},
   netstring |-> {<<":">>, <<"x", ":">>, <<"+", "1", ":", "1", ",">>,
                  <<"2", ":", "1">>, <<"1", ":", "1", "x">>, <<"9">>,
                  <<"1", "5", ":", "1">>}]
=============================================================================

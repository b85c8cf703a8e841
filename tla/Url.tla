-------------------------------- MODULE Url --------------------------------
(***************************************************************************)
(* The texts of a request target: query.rs, query/deep.rs, host.rs, and    *)
(* the escaping of client request.rs and link.rs.                          *)
(*                                                                         *)
(* A text is a sequence of pieces: a reserved character, or a run of       *)
(* unreserved ones.  On the wire a piece is <<piece>>, or <<"%", piece>>   *)
(* when it is escaped.  A decoded query pair is <<key, value>>, or <<key>> *)
(* for a key with no "="; a deep-object entry is [path, value], its value  *)
(* <<>> or <<text>>.                                                       *)
(***************************************************************************)
EXTENDS Naturals, Sequences, SequencesExt

CONSTANT Malformed   \* the result of a parser that refuses its input

\* What QUERY_COMPONENT, PATH_SEGMENT and COMPONENT do not let through.
Reserved == {"/", "?", "&", "=", "[", "]", "+", " ", "#", "%", ":", "@", "nl"}

Literal(text) == [i \in DOMAIN text |-> <<text[i]>>]

\* Mutant: the characters that separate are left as they are.
EscapeSpacesOnly(text) ==
  [i \in DOMAIN text |-> IF text[i] \in {" ", "+", "%", "#", "nl"}
                         THEN <<"%", text[i]>> ELSE <<text[i]>>]

\* utf8_percent_encode of a component
Escape(text) ==
  [i \in DOMAIN text |-> IF text[i] \in Reserved THEN <<"%", text[i]>> ELSE <<text[i]>>]

\* percent_decode: a "%" that starts no escape stays as it is.
PercentDecode(wire) == [i \in DOMAIN wire |-> Last(wire[i])]

\* decode_component: plus signs are spaces before the escapes are undone.
DecodeComponent(wire) ==
  [i \in DOMAIN wire |-> IF wire[i] = <<"+">> THEN " " ELSE Last(wire[i])]

\* str::split, and str::split_once as a sequence of one or two parts.
Split(wire, delimiter) ==
  FoldLeft(LAMBDA parts, c :
             IF c = <<delimiter>> THEN Append(parts, <<>>)
             ELSE Append(Front(parts), Append(Last(parts), c)),
           <<<<>>>>, wire)

SplitOnce(wire, delimiter) ==
  LET at == SelectInSeq(wire, LAMBDA c : c = <<delimiter>>) IN
  IF at = 0 THEN <<wire>>
  ELSE <<SubSeq(wire, 1, at - 1), SubSeq(wire, at + 1, Len(wire))>>

JoinWith(wires, delimiter) ==
  FlattenSeq([i \in DOMAIN wires |->
                IF i = 1 THEN wires[1] ELSE <<<<delimiter>>>> \o wires[i]])

-----------------------------------------------------------------------------
ParsePair(wire) ==
  LET parts == SplitOnce(wire, "=") IN [n \in DOMAIN parts |-> DecodeComponent(parts[n])]

ParsePairs(raw) ==
  LET pairs == SelectSeq(Split(raw, "&"), LAMBDA pair : pair # <<>>) IN
  [i \in DOMAIN pairs |-> ParsePair(pairs[i])]

RenderPair(pair) == JoinWith([n \in DOMAIN pair |-> Escape(pair[n])], "=")

RenderPairs(pairs) == JoinWith([i \in DOMAIN pairs |-> RenderPair(pairs[i])], "&")

\* render_deep_query_key and render_deep_query_entry: the brackets are literal.
RenderDeepKey(root, path) ==
  Escape(root) \o FlattenSeq([i \in DOMAIN path |->
                    <<<<"[">>>> \o Escape(path[i]) \o <<<<"]">>>>])

RenderDeep(root, entry) ==
  JoinWith(<<RenderDeepKey(root, entry.path)>>
           \o [n \in DOMAIN entry.value |-> Escape(entry.value[n])], "=")

\* deep_query_suffix finds one: the key is the root, or the root and a bracket.
IsDeepKey(root, key) ==
  /\ IsPrefix(root, key)
  /\ Len(key) > Len(root) => key[Len(root) + 1] = "["

(***************************************************************************)
(* parse_path, which is given the decoded key: a field runs to the first   *)
(* closing bracket, and nothing may stand between two fields.              *)
(***************************************************************************)
DeepPath(suffix) ==
  LET read(state, c) ==
        CASE state.open /\ c = "]" -> [state EXCEPT !.open = FALSE]
          [] state.open /\ c # "]" ->
               [state EXCEPT !.path = Append(Front(@), Append(Last(@), c))]
          [] ~state.open /\ c = "[" ->
               [state EXCEPT !.open = TRUE, !.path = Append(@, <<>>)]
          [] OTHER -> [state EXCEPT !.junk = TRUE]
      end == FoldLeft(read, [path |-> <<>>, open |-> FALSE, junk |-> FALSE], suffix)
  IN IF end.open \/ end.junk THEN Malformed ELSE end.path

ParseDeepQuery(root, pairs) ==
  LET keyed == SelectSeq(pairs, LAMBDA pair : IsDeepKey(root, pair[1]))
      path(i) == DeepPath(SubSeq(keyed[i][1], Len(root) + 1, Len(keyed[i][1])))
  IN IF \E i \in DOMAIN keyed : path(i) = Malformed THEN Malformed
     ELSE [i \in DOMAIN keyed |-> [path |-> path(i), value |-> Tail(keyed[i])]]

-----------------------------------------------------------------------------
\* path_segments: "/" and "" are one empty segment.
PathSegments(wire) ==
  LET trimmed == IF wire # <<>> /\ wire[1] = <<"/">> THEN Tail(wire) ELSE wire
      parts == Split(trimmed, "/")
  IN [i \in DOMAIN parts |-> PercentDecode(parts[i])]

(***************************************************************************)
(* An authority is [host, port] with the port <<>> or <<text>>, its host   *)
(* the name in lower case.  HostRequirement::parse refuses some.           *)
(***************************************************************************)
ParseAuthority(authority) ==
  IF authority.port = <<"notaport">> THEN Malformed ELSE authority

\* HostRequirement::matches_authority
MatchesAuthority(required, requested) ==
  /\ ParseAuthority(requested) # Malformed
  /\ requested.host = required.host
  /\ required.port # <<>> => requested.port = required.port
=============================================================================

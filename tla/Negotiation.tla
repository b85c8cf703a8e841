----------------------------- MODULE Negotiation -----------------------------
(***************************************************************************)
(* Content negotiation as servant's content/ computes it: a media type is  *)
(* [type, subtype, suffix, params]; a content-type list is a sequence of   *)
(* markers [codec, media], each with its media types, canonical first.     *)
(*                                                                         *)
(* An Accept header is None when there is none to read, <<>> when it is    *)
(* blank, and else the sequence of its parts. A part that is no media      *)
(* range is None; a range has a type, a subtype as written, that is a pair *)
(* <<subtype, suffix>>, and its q parameters in tenths, in their order.    *)
(***************************************************************************)
EXTENDS Naturals, SequencesExt

CONSTANTS
  Tokens,     \* the words of media types, and the names of codecs
  None,       \* no value
  Malformed   \* a q parameter that is no number between 0 and 1

Mimes == [type : Tokens, subtype : Tokens, suffix : Tokens, params : Tokens]
MarkerTypes == [codec : Tokens, media : Seq(Mimes) \ {<<>>}]
MediaRanges ==
  [type : Tokens, subtype : Tokens \X Tokens, qs : Seq(Nat \cup {Malformed})]

ASSUME TokensOfRanges == {"*", ""} \subseteq Tokens

ASSUME NoneIsNoValue ==
  /\ None \notin Nat /\ None \notin Tokens
  /\ None \notin Mimes /\ None \notin MediaRanges /\ None \notin MarkerTypes
  /\ None \notin Seq(MediaRanges \cup {None})
  /\ Malformed \notin Mimes \cup {None}

AnySubtype == <<"*", "">>

StarRange == [type |-> "*", subtype |-> AnySubtype, qs |-> <<>>]

\* One malformed q drops its whole range.
ParseAccept(parts) ==
  FlattenSeq([i \in DOMAIN parts |->
                IF parts[i] = None \/ Malformed \in ToSet(parts[i].qs)
                  THEN <<>> ELSE <<parts[i]>>])

\* The last q counts.
Quality(range) == IF range.qs = <<>> THEN 10 ELSE Last(range.qs)

(***************************************************************************)
(* Mime::subtype ends before a "+suffix", so a range that is written with  *)
(* one equals the subtype of no media type. No match is 0.                 *)
(***************************************************************************)
Specificity(range, media) ==
  IF range.type = "*" /\ range.subtype = AnySubtype THEN 1
  ELSE IF range.type = media.type /\ range.subtype = AnySubtype THEN 2
  ELSE IF range.type = media.type /\ range.subtype = <<media.subtype, "">> THEN 3
  ELSE 0

MediaMatches(provided, content) ==
  provided.type = content.type /\ provided.subtype = content.subtype

\* The order of pairs.
Exceeds(a, b) == a[1] > b[1] \/ (a[1] = b[1] /\ a[2] > b[2])

Ranges(accept) ==
  IF accept \in {None, <<>>} THEN <<StarRange>> ELSE ParseAccept(accept)

\* The key of what does not count: every other exceeds it.
NoKey == <<0, 0>>
KeyAt(keys, i) == IF i = 0 THEN NoKey ELSE keys[i]

(***************************************************************************)
(* Both loops of the negotiation keep the best so far and replace it only  *)
(* by what exceeds it. 0 when nothing counts.                              *)
(***************************************************************************)
Foremost(keys) ==
  LET best[i \in 0..Len(keys)] ==
        IF i = 0 THEN 0
        ELSE IF Exceeds(keys[i], KeyAt(keys, best[i - 1])) THEN i
        ELSE best[i - 1]
  IN  best[Len(keys)]

\* Mutant: the best quality of any range counts, however unspecific.
RangeForByQuality(ranges, media) ==
  LET keys == [i \in DOMAIN ranges |->
                 IF Specificity(ranges[i], media) = 0 THEN NoKey
                 ELSE <<Quality(ranges[i]), Specificity(ranges[i], media)>>]
  IN  Reverse(KeyAt(keys, Foremost(keys)))

\* What ranges say of a media type: the most specific match, then its quality.
RangeFor(ranges, media) ==
  LET keys == [i \in DOMAIN ranges |->
                 IF Specificity(ranges[i], media) = 0 THEN NoKey
                 ELSE <<Specificity(ranges[i], media), Quality(ranges[i])>>]
  IN  KeyAt(keys, Foremost(keys))

(***************************************************************************)
(* Quality before specificity across media types, the earlier among        *)
(* equals; quality 0 excludes. None when nothing is acceptable.            *)
(***************************************************************************)
NegotiateMediaIndex(accept, media) ==
  LET Offer(i) == RangeFor(Ranges(accept), media[i])
      keys == [i \in DOMAIN media |->
                 IF Offer(i)[2] = 0 THEN NoKey ELSE <<Offer(i)[2], Offer(i)[1]>>]
      best == Foremost(keys)
  IN  IF best = 0 THEN None ELSE best

AllMediaTypes(ctypes) ==
  FlattenSeq([k \in DOMAIN ctypes |-> ctypes[k].media])

\* Mutant: the markers are indexed as if each had one media type.
RenderIndexOfMarker(ctypes, idx) ==
  ctypes[IF idx > Len(ctypes) THEN Len(ctypes) ELSE idx].codec

\* The codec of the marker that owns the idx-th media type of the list.
RenderIndex(ctypes, idx) ==
  LET Before(k) == Len(AllMediaTypes(SubSeq(ctypes, 1, k)))
      owner == CHOOSE k \in DOMAIN ctypes : Before(k - 1) < idx /\ idx <= Before(k)
  IN  ctypes[owner].codec

\* The codec of the first marker with a media type that matches, or None.
Unrender(ctypes, content) ==
  LET k == SelectInSeq(ctypes,
             LAMBDA c : \E m \in ToSet(c.media) : MediaMatches(m, content))
  IN  IF k = 0 THEN None ELSE ctypes[k].codec

-----------------------------------------------------------------------------
(***************************************************************************)
(* What the client asked for, said without a loop: of the most specific    *)
(* ranges that match, the highest quality.                                 *)
(***************************************************************************)
Wanted(accept, media) ==
  LET ranges == ToSet(Ranges(accept))
      Spec(r) == Specificity(r, media)
      matching == {r \in ranges : Spec(r) # 0}
      closest == {r \in matching : \A s \in matching : Spec(s) <= Spec(r)}
      best == CHOOSE r \in closest : \A s \in closest : Quality(s) <= Quality(r)
  IN  IF matching = {} THEN <<0, 0>> ELSE <<Quality(best), Spec(best)>>

\* The indices a client would be content with, and those it prefers.
Admissible(accept, media) == {i \in DOMAIN media : Wanted(accept, media[i])[1] > 0}
Preferred(accept, media) ==
  {i \in Admissible(accept, media) :
     \A j \in Admissible(accept, media) :
       ~Exceeds(Wanted(accept, media[j]), Wanted(accept, media[i]))}
=============================================================================

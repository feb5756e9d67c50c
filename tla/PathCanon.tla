------------------------------ MODULE PathCanon ------------------------------
(***************************************************************************)
(* The path of a request, made canonical before the policy sees it         *)
(* (proxy/path.go).  A path is a sequence of segments.  A segment is what  *)
(* stands between two slashes after decoding:                              *)
(*   parts   its text up to ';', split at encoded slashes: "", ".", ".."   *)
(*           or a name each                                                *)
(*   param   what follows a ';': "none", "plain", or "slash" when that     *)
(*           text holds an encoded slash                                   *)
(*   coded   some octet of it is percent-encoded                           *)
(*   bad     it holds a control or non-ASCII octet or a broken escape      *)
(***************************************************************************)
EXTENDS Integers, Sequences, SequencesExt, FiniteSets

Dots == {".", ".."}
Params == {"none", "plain", "slash"}
Part == STRING
SegmentType == [parts: Seq(Part), param: Params, coded: BOOLEAN, bad: BOOLEAN]
Written(parts) == [parts |-> parts, param |-> "none", coded |-> FALSE, bad |-> FALSE]
Empty == Written(<<"">>)

NoPath == [ok |-> FALSE, segs |-> << >>]
Path(segs) == [ok |-> TRUE, segs |-> segs]

-----------------------------------------------------------------------------
(* canonicalizeL7Path *)

(* The loops over the raw octets: control octets, broken escapes, and an   *)
(* encoded slash where the endpoint does not allow it, in a parameter too. *)
Decodable(segs, allowEncodedSlash) ==
    \A i \in DOMAIN segs :
        /\ ~segs[i].bad
        /\ allowEncodedSlash \/ (Len(segs[i].parts) = 1 /\ segs[i].param # "slash")

(* Mutant: ".." at the root is dropped instead of refused. *)
PushSaturating(segs, acc, i) ==
    LET parts == segs[i].parts
        tail == IF i = Len(segs) THEN <<Empty>> ELSE << >>
    IN CASE parts = <<"..">> /\ acc.segs = << >> -> Path(tail)
         [] parts = <<"..">> /\ acc.segs # << >> -> Path(Front(acc.segs) \o tail)
         [] parts \in {<<".">>, <<"">>} -> Path(acc.segs \o tail)
         [] OTHER -> Path(Append(acc.segs, Written(parts)))

(* One turn of the loop over the segments: parameters are gone, ".." takes *)
(* one segment back, and the last segment leaves its slash behind.         *)
Push(segs, acc, i) ==
    LET parts == segs[i].parts
        tail == IF i = Len(segs) THEN <<Empty>> ELSE << >>
    IN IF ~acc.ok THEN acc
       ELSE CASE parts = <<"..">> ->
                   IF acc.segs = << >> THEN NoPath ELSE Path(Front(acc.segs) \o tail)
              [] parts \in {<<".">>, <<"">>} -> Path(acc.segs \o tail)
              [] OTHER -> Path(Append(acc.segs, Written(parts)))

(* The stack after each turn, and after the last one. *)
Folded(segs) ==
    LET stack[i \in 0..Len(segs)] ==
            IF i = 0 THEN Path(<< >>) ELSE Push(segs, stack[i - 1], i)
    IN stack[Len(segs)]

(* No part of a segment that stays is a dot segment. *)
NoDotLeft(segs) == \A i \in DOMAIN segs : ToSet(segs[i].parts) \cap Dots = {}

Canonicalize(segs, allowEncodedSlash) ==
    IF Decodable(segs, allowEncodedSlash) /\ Folded(segs).ok /\ NoDotLeft(Folded(segs).segs)
    THEN Folded(segs)
    ELSE NoPath

(* requestTargetPath: an absolute target without a path asks for "/", and  *)
(* "*" is no path.  decideHTTP refuses a fragment before it gets here.     *)
TargetPath(target, allowEncodedSlash) ==
    CASE target.form = "bare" -> Canonicalize(<<Empty>>, allowEncodedSlash)
      [] target.form \in {"star", "fragment"} -> NoPath
      [] target.form \in {"origin", "absolute"} -> Canonicalize(target.segs, allowEncodedSlash)

-----------------------------------------------------------------------------
(* The reference: a path read as a walk through directories.  Depth(k) is  *)
(* how deep the walk is after k segments.  It is a path if it never leaves *)
(* the root, and the directories it stays in are those it never climbs out *)
(* of again.                                                               *)

Names(segs) == {i \in DOMAIN segs : segs[i].parts \notin {<<"">>, <<".">>, <<"..">>}}
Ups(segs) == {i \in DOMAIN segs : segs[i].parts = <<"..">>}
Depth(segs, k) == Cardinality(Names(segs) \cap 1..k) - Cardinality(Ups(segs) \cap 1..k)
Kept(segs) ==
    {i \in Names(segs) : \A k \in i..Len(segs) : Depth(segs, k) >= Depth(segs, i)}

(* The segment that the walk entered level d by, for good. *)
Entered(segs, d) == CHOOSE i \in Kept(segs) : Depth(segs, i) = d

Walk(segs, allowEncodedSlash) ==
    LET names == [d \in 1..Depth(segs, Len(segs)) |-> Written(segs[Entered(segs, d)].parts)]
        tail == IF Len(segs) \in Names(segs) THEN << >> ELSE <<Empty>>
    IN IF /\ Decodable(segs, allowEncodedSlash)
          /\ \A k \in DOMAIN segs : Depth(segs, k) >= 0
          /\ \A d \in DOMAIN names : ToSet(names[d].parts) \cap Dots = {}
       THEN Path(names \o tail)
       ELSE NoPath

(* The same path as an upstream reads it that decodes encoded slashes. *)
Flat(segs) == FlattenSeq([i \in DOMAIN segs |->
                  [j \in DOMAIN segs[i].parts |-> Written(<<segs[i].parts[j]>>)]])
=============================================================================

------------------------------ MODULE Detector ------------------------------
(***************************************************************************)
(* The promotion heuristic (internal/headless/detector/heuristic.go).      *)
(*                                                                         *)
(* A body is a sequence of tokens, each with its length in bytes: "open"   *)
(* is the text <script in any case, "close" is </script>, "gt" is a single *)
(* >, "marker" one of spaMarkers, "text" any other byte.  A > is also the  *)
(* last byte of "close", which matters inside a tag.                       *)
(***************************************************************************)
EXTENDS Integers, Sequences, SequencesExt

CONSTANT PromotionThresh   \* headless.promotion_threshold

ASSUME PromotionThreshAssumption == PromotionThresh \in Nat

Tokens == {"open", "close", "gt", "marker", "text"}

Size(token) ==
  CASE token = "open" -> 7 [] token = "close" -> 9 [] token = "marker" -> 6 [] OTHER -> 1

BodyLen(body) == FoldLeft(LAMBDA n, token : n + Size(token), 0, body)

\* NewHeuristic.
BodyLengthThreshold == IF PromotionThresh = 0 THEN 2048 ELSE PromotionThresh

\* The first index from i on whose token is in S, or the one past the end:
\* indexScriptOpen, bytes.IndexByte and indexScriptClose.
IndexFrom(body, i, S) ==
  LET hits == {k \in i..Len(body) : body[k] \in S}
  IN IF hits = {} THEN Len(body) + 1 ELSE CHOOSE k \in hits : \A m \in hits : k <= m

\* The bytes that the loop of scriptDensityHigh counts.
ScriptCoverage(body) ==
  LET end == Len(body) + 1
      from[searchPos \in 1..end] ==
        LET start == IndexFrom(body, searchPos, {"open"})
            tagClose == IndexFrom(body, start + 1, {"gt", "close"})
            close == IndexFrom(body, tagClose + 1, {"close"})
            nextSearch == IF close >= end THEN end ELSE close + 1
        IN IF start = end THEN 0
           ELSE IF tagClose >= end THEN BodyLen(SubSeq(body, start, Len(body)))
           ELSE BodyLen(SubSeq(body, start, nextSearch - 1)) + from[nextSearch]
  IN from[1]

scriptDensityHigh(body) ==
  /\ ScriptCoverage(body) # 0
  /\ (ScriptCoverage(body) * 100) \div BodyLen(body) >= 25

ShouldPromote(resp) ==
  /\ resp.status = 200
  /\ \/ resp.body = <<>>
     \/ BodyLen(resp.body) < BodyLengthThreshold /\ scriptDensityHigh(resp.body)
     \/ \E i \in 1..Len(resp.body) : resp.body[i] = "marker"

-----------------------------------------------------------------------------
(* What the loop is meant to count, said without positions: one pass that  *)
(* is outside a script, in its opening tag, or in its content.             *)

Mode(mode, token) ==
  CASE mode = "out" /\ token = "open" -> "tag"
    [] mode = "tag" /\ token \in {"gt", "close"} -> "content"
    [] mode = "content" /\ token = "close" -> "out"
    [] OTHER -> mode

BytesInScripts(body) ==
  FoldLeft(LAMBDA acc, token :
             LET mode == Mode(acc.mode, token)
             IN [mode |-> mode,
                 n |-> acc.n + IF acc.mode = "out" /\ mode = "out" THEN 0 ELSE Size(token)],
           [mode |-> "out", n |-> 0], body).n

\* The loop of scriptDensityHigh counts exactly the bytes of the scripts, in
\* every body of at most n tokens: also unclosed tags, unclosed scripts and a
\* closing tag that ends an opening one.
CoverageIsBytesInScripts(n) ==
  \A k \in 0..n : \A body \in [1..k -> Tokens] : ScriptCoverage(body) = BytesInScripts(body)
=============================================================================

---------------------------- MODULE TaskRouting ----------------------------
(***************************************************************************)
(* Which executor a task is dispatched to (dispatcher/router.rs, types.rs, *)
(* default.rs): the first rule whose pattern matches the task's full name, *)
(* or the default.                                                         *)
(*                                                                         *)
(* A name is a sequence of segments and a segment a sequence of letters.   *)
(* A pattern is a sequence of segments too; each is kept as the sequence   *)
(* of its parts between the stars, so that a segment without a star is one *)
(* part, "*" is two empty ones, and "**" three.                            *)
(***************************************************************************)
EXTENDS Naturals, Sequences, SequencesExt

CONSTANT Letter  \* the letters of a name; a star is none of them

Name    == Seq(Seq(Letter))
Pattern == Seq(Seq(Seq(Letter)) \ {<<>>})

Literal(text) == <<text>>
Star          == <<<<>>, <<>>>>
DoubleStar    == <<<<>>, <<>>, <<>>>>

RoutingRule(pattern, executor) == [task_pattern |-> pattern, executor |-> executor]
RoutingConfig(default, rules)  == [default_executor |-> default, rules |-> rules]

-----------------------------------------------------------------------------
(***************************************************************************)
(* The matcher.                                                            *)
(***************************************************************************)

\* find_substring: the first place a part is found at or after a position;
\* positions count the letters before them, and Len(text) + 1 is "nowhere".
Find(text, part, from) ==
  LET places == {p \in from..Len(text) :
                   p + Len(part) <= Len(text) /\ SubSeq(text, p + 1, p + Len(part)) = part}
  IN  IF places = {} THEN Len(text) + 1 ELSE CHOOSE p \in places : \A q \in places : p <= q

\* match_wildcard: the first part begins the text, the last one ends it, and
\* the others follow each other.  (The last may overlap those before it.)
MatchWildcard(parts, text) ==
  LET k == Len(parts)
      After[i \in 1..k] ==  \* the position behind part i, beyond the text if not found
        IF i = 1 THEN IF IsPrefix(parts[1], text) THEN Len(parts[1]) ELSE Len(text) + 1
        ELSE IF i = k THEN IF IsSuffix(parts[k], text) THEN After[i - 1] ELSE Len(text) + 1
        ELSE IF parts[i] = <<>> THEN After[i - 1]
        ELSE Find(text, parts[i], After[i - 1]) + Len(parts[i])
  IN  \A i \in 1..k : After[i] <= Len(text)

MatchGlob(segment, text) ==
  segment = Literal(text) \/ segment = Star \/ (Len(segment) > 1 /\ MatchWildcard(segment, text))

\* match_segments, on what is left of the pattern and of the name.
MatchSegments(pattern, name) ==
  LET Rest[left \in (1..(Len(pattern) + 1)) \X (1..(Len(name) + 1))] ==
        LET i == left[1]
            j == left[2]
        IN  IF i > Len(pattern) THEN j > Len(name)
            ELSE IF j > Len(name) THEN pattern[i] = DoubleStar /\ i = Len(pattern)
            ELSE IF pattern[i] = DoubleStar THEN Rest[<<i + 1, j>>] \/ Rest[<<i, j + 1>>]
            ELSE MatchGlob(pattern[i], name[j]) /\ Rest[<<i + 1, j + 1>>]
  IN  Rest[<<1, 1>>]

\* Mutant of the definition below.
MatchesFromStart(pattern, name) ==
  \/ pattern = <<DoubleStar>>
  \/ Len(pattern) <= Len(name) /\ MatchSegments(pattern, SubSeq(name, 1, Len(pattern)))

MatchesPattern(pattern, name) == pattern = <<DoubleStar>> \/ MatchSegments(pattern, name)

FirstOf(config, matching) ==
  IF matching = {} THEN config.default_executor
  ELSE config.rules[CHOOSE i \in matching : \A j \in matching : i <= j].executor

Resolve(config, name) ==
  FirstOf(config, {i \in DOMAIN config.rules : MatchesPattern(config.rules[i].task_pattern, name)})

-----------------------------------------------------------------------------
(***************************************************************************)
(* What is documented (router.rs:62): "*" stands for any letters within a  *)
(* segment, "**" for any segments.                                         *)
(***************************************************************************)

\* The text can be cut so that the parts are found in order.
Globs(parts, text) ==
  \E at \in [DOMAIN parts -> 0..Len(text)] :
    /\ \A i \in DOMAIN parts :
         /\ at[i] + Len(parts[i]) <= Len(text)
         /\ SubSeq(text, at[i] + 1, at[i] + Len(parts[i])) = parts[i]
         /\ i > 1 => at[i] >= at[i - 1] + Len(parts[i - 1])
    /\ at[1] = 0 /\ at[Len(parts)] + Len(parts[Len(parts)]) = Len(text)

\* The name can be cut so that the pattern's segments are found in order.
Covers(pattern, name) ==
  \E cut \in [0..Len(pattern) -> 0..Len(name)] :
    /\ cut[0] = 0 /\ cut[Len(pattern)] = Len(name)
    /\ \A i \in DOMAIN pattern :
         IF pattern[i] = DoubleStar THEN cut[i] >= cut[i - 1]
         ELSE cut[i] = cut[i - 1] + 1 /\ Globs(pattern[i], name[cut[i]])

\* Where a task of that name belongs.
Documented(config, name) ==
  FirstOf(config, {i \in DOMAIN config.rules : Covers(config.rules[i].task_pattern, name)})

\* The matcher departs from this in two places: the last part of a segment may
\* overlap those before it ("x*x" matches "x"), and of two "**" at the end of a
\* pattern one must have a segment to stand for.  A plain pattern meets neither.
IsPlain(pattern) ==
  /\ \A i \in DOMAIN pattern :
       LET parts == pattern[i]
       IN  \/ Last(parts) = <<>>
           \/ \A j \in 1..(Len(parts) - 1) : parts[j] = <<>>
  /\ Len(pattern) > 1 => DoubleStar \notin {pattern[Len(pattern) - 1]} \cap {Last(pattern)}

=============================================================================
